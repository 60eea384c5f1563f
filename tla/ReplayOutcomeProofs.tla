-------------------------- MODULE ReplayOutcomeProofs --------------------------
(***************************************************************************)
(* Further proofs about ReplayPipeline, on top of IInv.  First, with any   *)
(* faults: an answered upload request has disposed of its files.  Second,  *)
(* when ESDB is patient (no callback overtakes the request that posted the *)
(* file, no job runs twice): the pipeline implements ReplayLifecycle.      *)
(***************************************************************************)
EXTENDS ReplayPipelineProofs

-------------------------------------------------------------------------------
(* Answered requests. *)

(* What process! leaves: a row that is no longer uploading unless ESDB knew it. *)
Disposed(r) ==
  /\ state[r] # "absent"
  /\ state[r] = "uploading" => job[r] = "known"

CurrentExists ==
  \A u \in Uploads :
    upload[u].step \in {"post", "answer", "track", "transition", "rescue"} =>
      state[File(u)] # "absent"

(* A file the loop is done with. *)
EarlierDisposed ==
  \A u \in Uploads : \A i \in DOMAIN Files[u] :
    i < upload[u].next \/ UploadAt(u, "answered") => Disposed(Files[u][i])

DInv == TypeOK /\ CurrentExists /\ EarlierDisposed

-------------------------------------------------------------------------------
(* The refinement. *)

PatientEsdb == Faults \cap {"early", "rerun"} = {}

Serves(h, r) == ~HandlerAt(h, "idle") /\ handler[h].replay = r

(* The final callbacks of r that are on the wire or being served. *)
Pending(r, kind) ==
  kind \in calls[r] \/ \E h \in Handlers : Serves(h, r) /\ handler[h].kind = kind

(* A request that has not left process! has the row for itself ... *)
NotHandledYet ==
  \A u \in Uploads, h \in Handlers :
    upload[u].step \in {"create", "post", "answer", "track", "transition", "rescue"} =>
      ~Serves(h, File(u))

(* ... and it is uploading. *)
WaitingIsUploading ==
  \A u \in Uploads :
    upload[u].step \in {"post", "answer", "track", "transition", "rescue"} =>
      state[File(u)] = "uploading"

UnpostedHasNoJob ==
  \A u \in Uploads : \A i \in DOMAIN Files[u] :
    i > upload[u].next \/ (i = upload[u].next /\ upload[u].step \in {"create", "post"}) =>
      job[Files[u][i]] = "none"

(* A job reports its outcome when it ends, and there is one outcome. *)
OneOutcome ==
  \A r \in Replays :
    /\ Pending(r, "complete") \/ Pending(r, "error") => job[r] = "over"
    /\ ~(Pending(r, "complete") /\ Pending(r, "error"))

StepMatchesKind ==
  \A h \in Handlers : /\ HandlerAt(h, "finish") => handler[h].kind = "complete"
                      /\ HandlerAt(h, "fail") => handler[h].kind = "error"

CompletingNotFailed ==
  \A h \in Handlers :
    handler[h].step \in {"save", "finish"} /\ handler[h].kind = "complete" =>
      state[handler[h].replay] \in {"processing", "done"}

FailingNotDone ==
  \A h \in Handlers : HandlerAt(h, "fail") =>
    state[handler[h].replay] \in {"uploading", "processing", "failed"}

(* A row that holds a job id or a match id exists. *)
LinkedExists == \A r \in Replays : esdb_id[r] # "none" => state[r] # "absent"

RInv == /\ IInv
        /\ NotHandledYet
        /\ WaitingIsUploading
        /\ UnpostedHasNoJob
        /\ OneOutcome
        /\ StepMatchesKind
        /\ CompletingNotFailed
        /\ FailingNotDone
        /\ LinkedExists

-------------------------------------------------------------------------------
(* Effects of the steps on jobs and callbacks, beside those of the rows. *)

LEMMA UploadJobEffect ==
  ASSUME TypeOK, NEW u \in Uploads, UploadStep(u) \/ RejectFile(u) \/ UploadDies(u)
  PROVE  /\ UNCHANGED calls
         /\ \A q \in Replays \ {File(u)} : job'[q] = job[q]
         /\ \/ UNCHANGED job
            \/ upload[u].step = "post" /\ upload'[u].step = "answer"
         /\ upload'[u].step = "rescue" => upload[u].step \in {"post", "answer", "transition"}
         /\ upload[u].step = "answer" /\ upload'[u].step \in {"create", "answered"} =>
              job[File(u)] = "known"
<1> USE FileType, UploadGoesEffect, NextFileEffect
    DEF TypeOK, OutsideTypeOK, UploadAt
<1>1. CASE CreateReplay(u)          BY <1>1 DEF CreateReplay
<1>2. CASE RejectFile(u)            BY <1>2 DEF RejectFile
<1>3. CASE PostToEsdb(u)            BY <1>3 DEF PostToEsdb
<1>4. CASE PostFails(u)             BY <1>4 DEF PostFails
<1>5. CASE ReceiveJobId(u)          BY <1>5 DEF ReceiveJobId
<1>6. CASE ReceiveReplay(u)         BY <1>6 DEF ReceiveReplay
<1>7. CASE StoreJobId(u)            BY <1>7 DEF StoreJobId
<1>8. CASE Uploaded(u)              BY <1>8 DEF Uploaded
<1>9. CASE UploadedRaises(u)        BY <1>9 DEF UploadedRaises
<1>10. CASE UploadFailure(u)        BY <1>10 DEF UploadFailure
<1>11. CASE UploadFailureRaises(u)  BY <1>11 DEF UploadFailureRaises
<1>12. CASE UploadDies(u)           BY <1>12 DEF UploadDies
<1> QED
  BY <1>1, <1>2, <1>3, <1>4, <1>5, <1>6, <1>7, <1>8, <1>9, <1>10, <1>11, <1>12
  DEF UploadStep

(* The loop answers only after its last file. *)
LEMMA AnsweredAtEnd ==
  ASSUME TypeOK, NEW u \in Uploads, UploadStep(u) \/ RejectFile(u) \/ UploadDies(u),
         upload'[u].step = "answered", NEW i \in DOMAIN Files[u]
  PROVE  i < upload[u].next \/ i = upload[u].next
<1>1. i \in 1 .. Len(Files[u]) /\ Len(Files[u]) \in Nat
  BY FilesAssumption
<1>2. upload[u].next \in 1 .. Len(Files[u]) /\ upload[u].next \in Nat
  BY DEF TypeOK, UploadTypeOK
<1>3. NextFile(u)
  <2>1. NextFile(u) \/ \E step \in UploadSteps \ {"answered"} : UploadGoes(u, step)
    BY DEF UploadStep, RejectFile, UploadDies, CreateReplay, PostToEsdb, PostFails,
           ReceiveJobId, ReceiveReplay, StoreJobId, Uploaded, UploadedRaises, UploadFailure,
           UploadFailureRaises, UploadSteps
  <2> QED
    BY <2>1, UploadGoesEffect DEF UploadAt
<1>4. ~(upload[u].next < Len(Files[u]))
  BY <1>3 DEF NextFile, TypeOK, UploadTypeOK
<1> QED
  BY <1>1, <1>2, <1>4

(* Steps outside upload requests change no request and leave a disposed row *)
(* disposed: a callback only moves a row on, ESDB only works on queued jobs. *)
LEMMA OtherEffect ==
  ASSUME TypeOK, ~(\E u \in Uploads : UploadStep(u) \/ RejectFile(u) \/ UploadDies(u)),
         [Next]_vars
  PROVE  /\ UNCHANGED upload
         /\ \A r \in Replays : /\ state'[r] = state[r] \/ state'[r] \in Final
                               /\ job[r] \in {"none", "known"} => job'[r] = job[r]
<1>1. ASSUME NEW h \in Handlers, CallbackStep(h)
      PROVE  /\ UNCHANGED <<upload, job>>
             /\ \A r \in Replays : state'[r] = state[r] \/ state'[r] \in Final
  <2>1. UNCHANGED job
    BY <1>1 DEF CallbackStep, FindNothing, Find, HandlerStep, SaveProgress, Processed,
                HandlerFailure, FailureRefused, PublishAgain, HandlerRaises, HandlerDies
  <2> QED
    BY <1>1, <2>1, CallbackEffect DEF TypeOK, RowTypeOK, Final
<1>2. ASSUME NEW q \in Replays,
             EsdbReports(q) \/ EsdbFinishes(q) \/ EsdbReruns(q) \/ LoseCall(q)
      PROVE  /\ UNCHANGED <<upload, state>>
             /\ \A r \in Replays : job[r] \in {"none", "known"} => job'[r] = job[r]
  BY <1>2 DEF EsdbReports, EsdbFinishes, EsdbReruns, LoseCall, row, TypeOK, OutsideTypeOK
<1>3. CASE UNCHANGED vars
  BY <1>3 DEF vars
<1> QED
  BY <1>1, <1>2, <1>3 DEF Next, CallbackStep

LEMMA DInvStep == DInv /\ [Next]_vars => DInv'
<1> SUFFICES ASSUME DInv, [Next]_vars PROVE DInv'
  OBVIOUS
<1> USE DEF DInv
<1>1. TypeOK'
  BY TypeStep
<1>2. \A u \in Uploads : \A i \in DOMAIN Files[u] : Files[u][i] \in Replays /\ i \in Nat
  BY FilesAssumption
<1>3. \A u \in Uploads : upload[u].next \in Nat
  BY DEF TypeOK, UploadTypeOK
<1>4. ASSUME NEW u \in Uploads, UploadStep(u) \/ RejectFile(u) \/ UploadDies(u)
      PROVE  CurrentExists' /\ EarlierDisposed'
  <2> USE UploadFrame, UploadEffect, UploadJobEffect, FileType
  <2>1. ASSUME NEW v \in Uploads,
               upload'[v].step \in {"post", "answer", "track", "transition", "rescue"}
        PROVE  state'[File(v)'] # "absent"
    <3>1. CASE v # u
      BY <1>4, <2>1, <3>1 DEF CurrentExists
    <3>2. CASE v = u
      BY <1>4, <2>1, <3>2 DEF CurrentExists
    <3> QED BY <3>1, <3>2
  <2>2. ASSUME NEW v \in Uploads, NEW i \in DOMAIN Files[v],
               i < upload'[v].next \/ upload'[v].step = "answered"
        PROVE  Disposed(Files[v][i])'
    <3>1. CASE v = u /\ i = upload[u].next
      <4>1. Files[v][i] = File(u)
        BY <3>1 DEF File
      <4>2. \/ upload[u].step = "answer" /\ upload'[u].step \in {"create", "answered"}
            \/ state'[File(u)] \in {"processing", "failed"}
        BY <1>3, <1>4, <2>2, <3>1
      <4>3. upload[u].step = "answer" => state[File(u)] # "absent"
        BY DEF CurrentExists
      <4> QED
        BY <1>4, <4>1, <4>2, <4>3 DEF Disposed
    <3>2. CASE ~(v = u /\ i = upload[u].next)
      <4>1. Files[v][i] \in Replays \ {File(u)}
        BY <1>2, <3>2, DistinctFiles
      <4>2. i < upload[v].next \/ upload[v].step = "answered"
        BY <1>2, <1>3, <1>4, <2>2, <3>2, AnsweredAtEnd
      <4> QED
        BY <1>4, <4>1, <4>2 DEF EarlierDisposed, UploadAt, Disposed
    <3> QED BY <3>1, <3>2
  <2> QED
    BY <2>1, <2>2 DEF CurrentExists, EarlierDisposed, UploadAt
<1>5. CASE ~(\E u \in Uploads : UploadStep(u) \/ RejectFile(u) \/ UploadDies(u))
  <2>1. \A v \in Uploads : File(v)' = File(v) /\ UploadAt(v, "answered")' = UploadAt(v, "answered")
    BY <1>5, OtherEffect DEF File, UploadAt
  <2>2. \A r \in Replays : state[r] # "absent" => state'[r] # "absent"
    BY <1>5, OtherEffect DEF Final
  <2>3. CurrentExists'
    BY <1>5, <2>1, <2>2, OtherEffect, FileType DEF CurrentExists
  <2>4. \A r \in Replays : Disposed(r) => Disposed(r)'
    BY <1>5, OtherEffect DEF Disposed, Final
  <2>5. EarlierDisposed'
    BY <1>2, <1>5, <2>1, <2>4, OtherEffect DEF EarlierDisposed
  <2> QED
    BY <1>1, <2>3, <2>5
<1> QED
  BY <1>1, <1>4, <1>5

(* A request that answered has disposed of every one of its files, whatever  *)
(* fails and whatever callbacks do meanwhile: none is left without a row or  *)
(* uploading with nobody to end it.                                          *)
THEOREM AnsweredDisposes == Spec => []AnsweredMeansDisposed
<1>1. Init => DInv
  BY TypeInit, FilesAssumption
  DEF Init, DInv, CurrentExists, EarlierDisposed, UploadAt
<1>2. DInv => AnsweredMeansDisposed
  BY DEF DInv, EarlierDisposed, Disposed, AnsweredMeansDisposed
<1> QED
  BY <1>1, <1>2, DInvStep, PTL DEF Spec
-------------------------------------------------------------------------------
(* The refinement: effects of the remaining steps, when ESDB is patient. *)

(* What a worker does to its copy, with the kind of the callback, and to the *)
(* state of the row.                                                         *)
LEMMA CallbackKindEffect ==
  ASSUME TypeOK, PatientEsdb, NEW h \in Handlers, CallbackStep(h)
  PROVE
    LET p == handler[h].replay
        c == handler'[h]
        Goes(from, to) == /\ handler[h].step = from /\ c.step = to /\ c.replay = p
                          /\ c.kind = handler[h].kind
    IN /\ UNCHANGED job
       /\ \A r \in Replays : calls'[r] \subseteq calls[r]
       /\ \A g \in Handlers \ {h} : handler'[g] = handler[g]
       /\ \/ UNCHANGED state /\ c = handler[h]
          \/ UNCHANGED state /\ c = IdleHandler
          \/ /\ UNCHANGED state /\ c.replay \in Replays
             /\ c.kind \in calls[c.replay] /\ ~Posting(c.replay) /\ Tracked(c.replay)
             /\ c.step \in {"save", "publish", "fail"}
             /\ c.step = "save" => state[c.replay] = "processing"
             /\ c.step = "fail" => c.kind = "error"
          \/ UNCHANGED state /\ Goes("save", "finish") /\ c.kind = "complete"
          \/ UNCHANGED state /\ Goes("save", "publish")
          \/ Goes("finish", "publish") /\ state' = [state EXCEPT ![p] = "done"]
          \/ Goes("fail", "publish") /\ state' = [state EXCEPT ![p] = "failed"]
<1> USE DEF TypeOK, HandlerTypeOK, OutsideTypeOK, HandlerAt, row, Callbacks
<1>1. ASSUME NEW r \in Replays, NEW kind \in CallKinds, FindNothing(h, r, kind)
      PROVE  /\ UNCHANGED <<job, state, handler>>
             /\ \A q \in Replays : calls'[q] \subseteq calls[q]
  BY <1>1 DEF FindNothing, Receive
<1>2. ASSUME NEW r \in Replays, NEW kind \in CallKinds, Find(h, r, kind)
      PROVE  /\ UNCHANGED <<job, state>>
             /\ \A q \in Replays : calls'[q] \subseteq calls[q]
             /\ \A g \in Handlers \ {h} : handler'[g] = handler[g]
             /\ handler'[h].replay = r /\ handler'[h].kind = kind
             /\ kind \in calls[r] /\ ~Posting(r) /\ Tracked(r)
             /\ handler'[h].step \in {"save", "publish", "fail"}
             /\ handler'[h].step = "save" => state[r] = "processing"
             /\ handler'[h].step = "fail" => kind = "error"
  BY <1>2 DEF Find, Receive, PatientEsdb
<1>3. CASE SaveProgress(h)
  BY <1>3 DEF SaveProgress, Percent
<1>4. CASE Processed(h)
  BY <1>4 DEF Processed
<1>5. CASE HandlerFailure(h)
  BY <1>5 DEF HandlerFailure
<1>6. ASSUME FailureRefused(h) \/ PublishAgain(h) \/ HandlerRaises(h) \/ HandlerDies(h)
      PROVE  /\ UNCHANGED <<job, state, calls>> /\ handler'[h] = IdleHandler
             /\ \A g \in Handlers \ {h} : handler'[g] = handler[g]
  BY <1>6 DEF FailureRefused, PublishAgain, HandlerRaises, HandlerDies, Respond
<1> QED
  BY <1>1, <1>2, <1>3, <1>4, <1>5, <1>6 DEF CallbackStep, HandlerStep

EsdbStep(q) == EsdbReports(q) \/ EsdbFinishes(q) \/ EsdbReruns(q) \/ LoseCall(q)

(* A final callback appears only when its job ends, without the other one. *)
LEMMA EsdbEffect ==
  ASSUME TypeOK, PatientEsdb, NEW q \in Replays, EsdbStep(q)
  PROVE  /\ UNCHANGED <<state, esdb_id, upload, handler>>
         /\ \A r \in Replays :
              \/ /\ job'[r] = job[r]
                 /\ \A kind \in {"complete", "error"} :
                      kind \in calls'[r] => kind \in calls[r]
              \/ /\ job[r] = "queued" /\ job'[r] = "over"
                 /\ \E outcome \in {"complete", "error"} :
                      calls'[r] = calls[r] \cup {outcome}
<1> USE DEF TypeOK, OutsideTypeOK, row
<1>1. CASE EsdbReports(q)
  BY <1>1 DEF EsdbReports
<1>2. CASE EsdbFinishes(q)
  BY <1>2 DEF EsdbFinishes
<1>3. CASE EsdbReruns(q)
  BY <1>3 DEF EsdbReruns, PatientEsdb
<1>4. CASE LoseCall(q)
  BY <1>4 DEF LoseCall
<1> QED
  BY <1>1, <1>2, <1>3, <1>4 DEF EsdbStep

(* A row a worker serves is not written by upload requests. *)
LEMMA ServedRowKept ==
  ASSUME RInv, NEW u \in Uploads, UploadStep(u) \/ RejectFile(u) \/ UploadDies(u),
         NEW h \in Handlers, ~HandlerAt(h, "idle")
  PROVE  state'[handler[h].replay] = state[handler[h].replay]
<1>1. TypeOK /\ handler[h].replay \in Replays
  BY CopyType DEF RInv, IInv
<1>2. CASE handler[h].replay # File(u)
  BY <1>1, <1>2, UploadFrame
<1>3. CASE handler[h].replay = File(u)
  BY <1>1, <1>3, UploadEffect DEF RInv, NotHandledYet, Serves, UploadAt
<1> QED
  BY <1>2, <1>3

(* The file a request turns to next has no worker. *)
LEMMA NextFileUnserved ==
  ASSUME IInv, TypeOK', NEW u \in Uploads,
         UploadStep(u) \/ RejectFile(u) \/ UploadDies(u),
         upload'[u].next = upload[u].next + 1, NEW h \in Handlers
  PROVE  ~Serves(h, File(u)')
<1>1. /\ upload'[u].next \in DOMAIN Files[u] /\ upload[u].next \in Nat
      /\ File(u)' = Files[u][upload'[u].next]
  BY FilesAssumption DEF IInv, TypeOK, UploadTypeOK, File
<1>2. esdb_id[File(u)'] = "none"
  BY <1>1 DEF IInv, LaterFilesAbsent
<1> QED
  BY <1>2 DEF IInv, HandledIsLinked, Serves

-------------------------------------------------------------------------------
(* RInv is inductive. *)

LEMMA UploadKeepsRInv ==
  ASSUME RInv, IInv', PatientEsdb, NEW u \in Uploads,
         UploadStep(u) \/ RejectFile(u) \/ UploadDies(u)
  PROVE  RInv'
<1> USE DEF RInv
<1>1. TypeOK /\ IInv /\ TypeOK'
  BY DEF IInv
<1> USE <1>1, UploadFrame, UploadEffect, UploadJobEffect, FileType
<1> DEFINE InProcess == {"create", "post", "answer", "track", "transition", "rescue"}
<1>2. \A h \in Handlers, r \in Replays : Serves(h, r)' = Serves(h, r)
  BY DEF Serves, HandlerAt
<1>3. NotHandledYet'
  <2>1. ASSUME NEW v \in Uploads, NEW h \in Handlers, upload'[v].step \in InProcess
        PROVE  ~Serves(h, File(v)')
    <3>1. CASE v # u
      BY <2>1, <3>1 DEF NotHandledYet
    <3>2. CASE v = u /\ File(u)' = File(u) /\ upload[u].step \in InProcess
      BY <2>1, <3>2 DEF NotHandledYet
    <3>3. CASE v = u /\ upload'[u].next = upload[u].next + 1
      BY <3>3, NextFileUnserved
    <3> QED
      BY <2>1, <3>1, <3>2, <3>3
  <2> QED
    BY <2>1 DEF NotHandledYet, Serves, HandlerAt
<1>4. WaitingIsUploading'
  <2>1. ASSUME NEW v \in Uploads, upload'[v].step \in InProcess \ {"create"}
        PROVE  state'[File(v)'] = "uploading"
    <3>1. CASE v # u
      BY <2>1, <3>1 DEF WaitingIsUploading
    <3>2. CASE v = u
      BY <2>1, <3>2 DEF WaitingIsUploading
    <3> QED BY <3>1, <3>2
  <2> QED
    BY <2>1 DEF WaitingIsUploading
<1>5. UnpostedHasNoJob'
  <2>1. ASSUME NEW v \in Uploads, NEW i \in DOMAIN Files[v],
               i > upload'[v].next \/
               (i = upload'[v].next /\ upload'[v].step \in {"create", "post"})
        PROVE  job'[Files[v][i]] = "none"
    <3>1. i \in Nat /\ Files[v][i] \in Replays /\ upload[v].next \in Nat
      BY FilesAssumption DEF TypeOK, UploadTypeOK
    <3>2. i > upload[v].next \/
          (i = upload[v].next /\ upload[v].step \in {"create", "post"})
      BY <2>1, <3>1
    <3>3. job[Files[v][i]] = "none"
      BY <3>2 DEF UnpostedHasNoJob
    <3>4. CASE Files[v][i] # File(u)
      BY <3>1, <3>3, <3>4
    <3>5. CASE Files[v][i] = File(u)
      <4>1. v = u /\ i = upload[u].next
        BY <3>5, DistinctFiles
      <4>2. UNCHANGED job
        BY <2>1, <3>1, <4>1
      <4> QED BY <3>3, <4>2
    <3> QED BY <3>4, <3>5
  <2> QED
    BY <2>1 DEF UnpostedHasNoJob
<1>6. OneOutcome'
  <2>1. \A r \in Replays, kind \in CallKinds : Pending(r, kind)' = Pending(r, kind)
    BY <1>2 DEF Pending
  <2>2. upload[u].step = "post" => job[File(u)] = "none"
    BY DistinctFiles DEF UnpostedHasNoJob, File
  <2>3. ASSUME NEW r \in Replays, job[r] = "over"
        PROVE  job'[r] = "over"
    BY <2>2, <2>3
  <2> QED
    BY <2>1, <2>3 DEF OneOutcome, CallKinds
<1>7. CompletingNotFailed' /\ FailingNotDone' /\ StepMatchesKind'
  BY ServedRowKept DEF CompletingNotFailed, FailingNotDone, StepMatchesKind, HandlerAt
<1>8. LinkedExists'
  <2>1. File(u) \in Replays /\ state[File(u)] \in RowStates
    BY DEF TypeOK, RowTypeOK
  <2>2. ASSUME NEW r \in Replays, esdb_id'[r] # "none"
        PROVE  state'[r] # "absent"
    BY <2>1, <2>2 DEF LinkedExists, WaitingIsUploading
  <2> QED
    BY <2>2 DEF LinkedExists
<1> QED
  BY <1>3, <1>4, <1>5, <1>6, <1>7, <1>8

LEMMA CallbackKeepsRInv ==
  ASSUME RInv, IInv', PatientEsdb, NEW h \in Handlers, CallbackStep(h)
  PROVE  RInv'
<1> USE DEF RInv
<1>1. TypeOK /\ IInv /\ TypeOK'
  BY DEF IInv
<1> USE <1>1, CallbackEffect, CallbackKindEffect, FileType, CopyType
<1>2. /\ IdleHandler.step = "idle" /\ UNCHANGED upload
      /\ \A v \in Uploads : File(v)' = File(v)
  BY DEF IdleHandler, File
<1>3. NotHandledYet'
  <2>1. ASSUME NEW v \in Uploads, NEW g \in Handlers, handler'[g].step # "idle",
               upload[v].step \in {"create", "post", "answer", "track", "transition", "rescue"}
        PROVE  handler'[g].replay # File(v)
    <3>1. upload[v].step \in {"create", "post"} => ~Tracked(File(v))
      BY DistinctFiles DEF IInv, LaterFilesAbsent, UntrackedIsNew, Tracked, File, UploadAt
    <3>2. upload[v].step \notin {"create", "post"} => Posting(File(v))
      BY <2>1 DEF Posting
    <3>3. handler[g].step # "idle" => handler[g].replay # File(v)
      BY <2>1 DEF NotHandledYet, Serves, HandlerAt
    <3> QED
      BY <1>2, <2>1, <3>1, <3>2, <3>3
  <2> QED
    BY <1>2, <2>1 DEF NotHandledYet, Serves, HandlerAt
<1>4. WaitingIsUploading'
  BY <1>2 DEF WaitingIsUploading, NotHandledYet, Serves, HandlerAt, TypeOK, RowTypeOK
<1>5. UnpostedHasNoJob'
  BY <1>2 DEF UnpostedHasNoJob
<1>6. OneOutcome'
  <2>1. ASSUME NEW r \in Replays, NEW kind \in CallKinds, Pending(r, kind)'
        PROVE  Pending(r, kind)
    BY <1>2, <2>1 DEF Pending, Serves, HandlerAt
  <2> QED
    BY <2>1 DEF OneOutcome, CallKinds
<1>7. StepMatchesKind'
  BY <1>2 DEF StepMatchesKind, HandlerAt
<1>8. ASSUME NEW g \in Handlers, g # h, handler[g].step # "idle",
             handler[g].replay = handler[h].replay
      PROVE  /\ handler[h].step = "fail" => handler[g].kind # "complete"
             /\ handler[h].step = "finish" => handler[g].kind # "error"
  <2>1. /\ Serves(g, handler[g].replay) /\ handler[g].replay \in Replays
        /\ handler[h].step \in {"fail", "finish"} => Serves(h, handler[g].replay)
    BY <1>8 DEF Serves, HandlerAt
  <2> QED
    BY <2>1 DEF OneOutcome, Pending, StepMatchesKind, HandlerAt
<1>9. ASSUME NEW g \in Handlers, handler'[g].step \in {"save", "finish"},
             handler'[g].kind = "complete"
      PROVE  state'[handler'[g].replay] \in {"processing", "done"}
  <2>1. CASE g = h
    BY <1>2, <1>9, <2>1 DEF CompletingNotFailed
  <2>2. CASE g # h
    BY <1>8, <1>9, <2>2 DEF CompletingNotFailed, HandlerAt, TypeOK, RowTypeOK
  <2> QED BY <2>1, <2>2
<1>10. ASSUME NEW g \in Handlers, handler'[g].step = "fail"
       PROVE  state'[handler'[g].replay] \in {"uploading", "processing", "failed"}
  <2>1. CASE g = h
    <3>1. ASSUME NEW r \in Replays, Tracked(r)
          PROVE  state[r] \in {"uploading", "processing", "failed"}
      BY <3>1 DEF LinkedExists, IInv, DoneLinksMatch, Tracked, TypeOK, RowTypeOK,
                  RowStates, States
    <3>2. \/ UNCHANGED state /\ handler'[h].replay \in Replays /\ Tracked(handler'[h].replay)
          \/ handler'[h] = handler[h] /\ UNCHANGED state
      BY <1>2, <1>10, <2>1
    <3> QED
      BY <1>10, <2>1, <3>1, <3>2 DEF FailingNotDone, HandlerAt
  <2>2. CASE g # h
    BY <1>8, <1>10, <2>2 DEF FailingNotDone, StepMatchesKind, HandlerAt, TypeOK, RowTypeOK
  <2> QED BY <2>1, <2>2
<1>11. LinkedExists'
  BY DEF LinkedExists, TypeOK, RowTypeOK
<1> QED
  BY <1>3, <1>4, <1>5, <1>6, <1>7, <1>9, <1>10, <1>11
  DEF CompletingNotFailed, FailingNotDone, HandlerAt

LEMMA EsdbKeepsRInv ==
  ASSUME RInv, IInv', PatientEsdb, NEW q \in Replays, EsdbStep(q)
  PROVE  RInv'
<1> USE DEF RInv
<1>1. TypeOK
  BY DEF IInv
<1> USE <1>1, EsdbEffect
<1>2. UnpostedHasNoJob'
  <2>1. \A v \in Uploads : \A i \in DOMAIN Files[v] : Files[v][i] \in Replays
    BY FilesAssumption
  <2> QED
    BY <2>1 DEF UnpostedHasNoJob
<1>3. OneOutcome'
  <2>1. \A h \in Handlers, r \in Replays : Serves(h, r)' = Serves(h, r)
    BY DEF Serves, HandlerAt
  <2>2. ASSUME NEW r \in Replays
        PROVE  /\ Pending(r, "complete")' \/ Pending(r, "error")' => job'[r] = "over"
               /\ ~(Pending(r, "complete")' /\ Pending(r, "error")')
    BY <2>1 DEF OneOutcome, Pending
  <2> QED
    BY <2>2 DEF OneOutcome
<1>4. /\ NotHandledYet' /\ WaitingIsUploading' /\ StepMatchesKind'
      /\ CompletingNotFailed' /\ FailingNotDone' /\ LinkedExists'
  BY DEF NotHandledYet, WaitingIsUploading, StepMatchesKind, CompletingNotFailed,
         FailingNotDone, LinkedExists, Serves, HandlerAt, File
<1> QED
  BY <1>2, <1>3, <1>4

LEMMA RInvStep ==
  ASSUME RInv, PatientEsdb, [Next]_vars
  PROVE  RInv'
<1>1. IInv'
  BY IInvStep DEF RInv
<1>2. CASE UNCHANGED vars
  BY <1>1, <1>2
  DEF RInv, vars, NotHandledYet, WaitingIsUploading, UnpostedHasNoJob, OneOutcome, Pending,
      StepMatchesKind, CompletingNotFailed, FailingNotDone, LinkedExists, Serves, HandlerAt,
      File
<1>3. CASE Next
  BY <1>1, <1>3, UploadKeepsRInv, CallbackKeepsRInv, EsdbKeepsRInv
  DEF Next, CallbackStep, EsdbStep
<1> QED
  BY <1>2, <1>3

-------------------------------------------------------------------------------
(* Every step is a transition of the declared machine, or none. *)
LEMMA LifecycleStep ==
  ASSUME RInv, [Next]_vars
  PROVE  [Lifecycle!Next]_state
<1> USE DEF Lifecycle!Next, Lifecycle!Create, Lifecycle!uploaded, Lifecycle!processed,
            Lifecycle!failure, Lifecycle!Move
<1>1. TypeOK
  BY DEF RInv, IInv
<1>2. ASSUME NEW u \in Uploads, UploadStep(u) \/ RejectFile(u) \/ UploadDies(u)
      PROVE  [Lifecycle!Next]_state
  <2>1. File(u) \in Replays
    BY <1>1, FileType
  <2>2. CASE CreateReplay(u)
    <3>1. state[File(u)] = "absent"
      BY <1>1, <2>2, DistinctFiles DEF CreateReplay, RInv, IInv, LaterFilesAbsent, File
    <3> QED
      BY <2>1, <2>2, <3>1 DEF CreateReplay
  <2>3. CASE Uploaded(u)
    BY <2>1, <2>3 DEF Uploaded, RInv, WaitingIsUploading, UploadAt
  <2>4. CASE UploadFailure(u)
    BY <2>1, <2>4 DEF UploadFailure, RInv, WaitingIsUploading, UploadAt
  <2>5. CASE ~(CreateReplay(u) \/ Uploaded(u) \/ UploadFailure(u))
    BY <1>2, <2>5 DEF UploadStep, RejectFile, UploadDies, PostToEsdb, PostFails,
       ReceiveJobId, ReceiveReplay, StoreJobId, UploadedRaises, UploadFailureRaises, row
  <2> QED
    BY <2>2, <2>3, <2>4, <2>5
<1>3. ASSUME NEW h \in Handlers, CallbackStep(h)
      PROVE  [Lifecycle!Next]_state
  <2> DEFINE p == handler[h].replay
  <2>1. \/ UNCHANGED state
        \/ handler[h].step = "finish" /\ state' = [state EXCEPT ![p] = "done"]
        \/ handler[h].step = "fail" /\ state' = [state EXCEPT ![p] = "failed"]
    BY <1>1, <1>3, CallbackEffect
  <2>2. handler[h].step \in {"finish", "fail"} => p \in Replays
    BY <1>1, CopyType DEF HandlerAt
  <2>3. handler[h].step = "finish" => state[p] \in {"processing", "done"}
    BY DEF RInv, StepMatchesKind, CompletingNotFailed, HandlerAt
  <2>4. handler[h].step = "fail" => state[p] \in {"uploading", "processing", "failed"}
    BY DEF RInv, FailingNotDone, HandlerAt
  <2>5. \A r \in Replays : state = [state EXCEPT ![r] = state[r]]
    BY <1>1 DEF TypeOK, RowTypeOK
  <2> QED
    BY <2>1, <2>2, <2>3, <2>4, <2>5
<1>4. ASSUME NEW q \in Replays, EsdbStep(q)
      PROVE  UNCHANGED state
  BY <1>4 DEF EsdbStep, EsdbReports, EsdbFinishes, EsdbReruns, LoseCall, row
<1> QED
  BY <1>2, <1>3, <1>4 DEF Next, CallbackStep, EsdbStep, vars

LEMMA RInvInit == Init => RInv
<1> SUFFICES ASSUME Init PROVE RInv
  OBVIOUS
<1>1. IInv
  BY IInvInit
<1>2. \A h \in Handlers, r \in Replays : ~Serves(h, r)
  BY DEF Init, Serves, HandlerAt, IdleHandler
<1>3. \A u \in Uploads : File(u) \in Replays
  BY <1>1, FileType DEF IInv
<1>4. \A u \in Uploads : \A i \in DOMAIN Files[u] : Files[u][i] \in Replays
  BY FilesAssumption
<1>5. NotHandledYet /\ OneOutcome
  BY <1>2, <1>3 DEF Init, NotHandledYet, OneOutcome, Pending
<1>6. StepMatchesKind /\ CompletingNotFailed /\ FailingNotDone
  BY DEF Init, StepMatchesKind, CompletingNotFailed, FailingNotDone, HandlerAt, IdleHandler
<1> QED
  BY <1>1, <1>3, <1>4, <1>5, <1>6
  DEF Init, RInv, WaitingIsUploading, UnpostedHasNoJob, LinkedExists

(* With a patient ESDB the pipeline implements the declared state machine,   *)
(* whatever pushes fail and whatever workers die, however many serve the     *)
(* callbacks and however often each arrives.                                 *)
THEOREM LifecycleImplemented ==
  ASSUME PatientEsdb
  PROVE  Spec => FollowsLifecycle
<1>1. Init => Lifecycle!Init
  BY DEF Init, Lifecycle!Init
<1>2. RInv /\ [Next]_vars => RInv'
  BY RInvStep, PatientEsdb
<1>3. RInv /\ [Next]_vars => [Lifecycle!Next]_state
  BY LifecycleStep
<1> QED
  BY <1>1, <1>2, <1>3, RInvInit, PTL DEF Spec, FollowsLifecycle, Lifecycle!Spec
-------------------------------------------------------------------------------
(* What the browser was told, when one worker serves the callbacks. *)

OneWorker == \A g, h \in Handlers : g = h

(* The copy a worker holds is the row as it is. *)
CopyIsCurrent ==
  \A h \in Handlers : ~HandlerAt(h, "idle") => handler[h].state = state[handler[h].replay]

(* The last message agrees with the row, or there was none and none was due. *)
Told(r) ==
  \/ published[r].state = state[r]
  \/ published[r].state = "absent" /\ state[r] \in {"absent", "uploading"}

BInv == RInv /\ CopyIsCurrent /\ \A r \in Listened : Told(r)

LEMMA UploadTells ==
  ASSUME BInv, "death" \notin Faults, NEW u \in Uploads,
         UploadStep(u) \/ RejectFile(u) \/ UploadDies(u)
  PROVE  CopyIsCurrent' /\ \A r \in Listened : Told(r)'
<1>1. /\ TypeOK /\ RInv /\ File(u) \in Replays /\ Listened \subseteq Replays
      /\ published \in [Replays -> Messages] /\ state \in [Replays -> RowStates]
  BY FileType, ReplaysAssumption DEF BInv, RInv, IInv, TypeOK, RowTypeOK, OutsideTypeOK
<1>2. CopyIsCurrent'
  BY <1>1, UploadFrame, ServedRowKept DEF BInv, CopyIsCurrent, HandlerAt
<1>3. CASE CreateReplay(u)
  <2>1. state[File(u)] = "absent"
    BY <1>1, <1>3, DistinctFiles DEF CreateReplay, RInv, IInv, LaterFilesAbsent, File
  <2> QED BY <1>1, <1>2, <1>3, <2>1 DEF CreateReplay, BInv, Told
<1>4. CASE Uploaded(u)
  BY <1>1, <1>2, <1>4 DEF Uploaded, Publish, BInv, Told
<1>5. CASE UploadFailure(u)
  BY <1>1, <1>2, <1>5 DEF UploadFailure, Publish, BInv, Told
<1>6. CASE ~(CreateReplay(u) \/ Uploaded(u) \/ UploadFailure(u))
  <2>1. UNCHANGED <<state, published>>
    BY <1>6 DEF UploadStep, RejectFile, UploadDies, PostToEsdb, PostFails, ReceiveJobId,
          ReceiveReplay, StoreJobId, UploadedRaises, UploadFailureRaises, row
  <2> QED BY <1>2, <2>1 DEF BInv, Told
<1> QED BY <1>3, <1>4, <1>5, <1>6

LEMMA CallbackTells ==
  ASSUME BInv, "death" \notin Faults, OneWorker, NEW h \in Handlers, CallbackStep(h)
  PROVE  CopyIsCurrent' /\ \A r \in Listened : Told(r)'
<1>1. /\ Listened \subseteq Replays /\ handler \in [Handlers -> Callbacks]
      /\ published \in [Replays -> Messages] /\ state \in [Replays -> RowStates]
      /\ ~HandlerAt(h, "idle") => handler[h].replay \in Replays
  BY ReplaysAssumption DEF BInv, RInv, IInv, TypeOK, RowTypeOK, OutsideTypeOK, HandlerTypeOK
<1>2. \A g \in Handlers : g = h
  BY DEF OneWorker
<1>3. ~HandlerAt(h, "idle") => handler[h].state = state[handler[h].replay]
  BY DEF BInv, CopyIsCurrent
<1>4. ASSUME NEW r \in Replays, NEW kind \in CallKinds,
             FindNothing(h, r, kind) \/ Find(h, r, kind)
      PROVE  CopyIsCurrent' /\ \A q \in Listened : Told(q)'
  <2>1. UNCHANGED <<state, published>>
    BY <1>4 DEF FindNothing, Find, row
  <2>2. handler'[h] = handler[h] \/ handler'[h].state = state[handler'[h].replay]
    BY <1>1, <1>4 DEF FindNothing, Find
  <2> QED BY <1>2, <1>3, <2>1, <2>2 DEF BInv, Told, CopyIsCurrent, HandlerAt
<1>5. CASE SaveProgress(h)
  <2>1. /\ UNCHANGED <<state, published>>
        /\ handler'[h].state = handler[h].state /\ handler'[h].replay = handler[h].replay
    BY <1>1, <1>5 DEF SaveProgress
  <2> QED BY <1>2, <1>3, <1>5, <2>1 DEF BInv, Told, CopyIsCurrent, HandlerAt, SaveProgress
<1>6. ASSUME NEW st \in {"done", "failed"}, NEW match \in MatchIds,
             ~HandlerAt(h, "idle"),
             state' = [state EXCEPT ![handler[h].replay] = st],
             handler'[h].state = st, handler'[h].replay = handler[h].replay,
             Publish(handler[h].replay, st, match)
      PROVE  CopyIsCurrent' /\ \A q \in Listened : Told(q)'
  <2>1. CopyIsCurrent'
    BY <1>1, <1>2, <1>6 DEF CopyIsCurrent
  <2>2. \A q \in Listened : Told(q)'
    BY <1>1, <1>6 DEF BInv, Told, Publish
  <2> QED BY <2>1, <2>2
<1>7. CASE Processed(h)
  BY <1>1, <1>6, <1>7 DEF Processed, HandlerAt, MatchIds
<1>8. CASE HandlerFailure(h)
  BY <1>1, <1>6, <1>8 DEF HandlerFailure, HandlerAt, MatchIds
<1>9. ASSUME Respond(h), UNCHANGED state,
             \/ UNCHANGED published
             \/ ~HandlerAt(h, "idle")
                /\ Publish(handler[h].replay, handler[h].state, handler[h].match_id)
      PROVE  CopyIsCurrent' /\ \A q \in Listened : Told(q)'
  <2>1. CopyIsCurrent'
    BY <1>1, <1>2, <1>9 DEF CopyIsCurrent, Respond, IdleHandler, HandlerAt
  <2>2. \A q \in Listened : Told(q)'
    BY <1>1, <1>3, <1>9 DEF BInv, Told, Publish
  <2> QED BY <2>1, <2>2
<1>10. CASE FailureRefused(h) \/ PublishAgain(h) \/ HandlerRaises(h)
  BY <1>9, <1>10 DEF FailureRefused, PublishAgain, HandlerRaises, HandlerAt, row
<1> QED
  BY <1>4, <1>5, <1>7, <1>8, <1>10 DEF CallbackStep, HandlerStep, HandlerDies

(* With one worker, a patient ESDB and no worker that dies, and however often  *)
(* pushes raise and callbacks come again or not at all, the browser has been   *)
(* told the state of every row.                                                *)
THEOREM BrowserAgrees ==
  ASSUME PatientEsdb, "death" \notin Faults, OneWorker
  PROVE  Spec => []BrowserAgreesWithRow
<1>1. Init => BInv
  BY RInvInit, ReplaysAssumption DEF Init, BInv, CopyIsCurrent, Told, HandlerAt, IdleHandler
<1>2. BInv => BrowserAgreesWithRow
  BY DEF BInv, Told, BrowserAgreesWithRow
<1>3. BInv /\ [Next]_vars => BInv'
  <2> SUFFICES ASSUME BInv, [Next]_vars PROVE BInv'
    OBVIOUS
  <2>1. RInv'
    BY RInvStep, PatientEsdb DEF BInv
  <2>2. ASSUME UNCHANGED <<state, handler, published>>
        PROVE  CopyIsCurrent' /\ \A r \in Listened : Told(r)'
    BY <2>2 DEF BInv, CopyIsCurrent, Told, HandlerAt
  <2>3. ASSUME NEW q \in Replays, EsdbStep(q)
        PROVE  UNCHANGED <<state, handler, published>>
    BY <2>3 DEF EsdbStep, EsdbReports, EsdbFinishes, EsdbReruns, LoseCall, row
  <2> QED
    BY <2>1, <2>2, <2>3, UploadTells, CallbackTells
    DEF BInv, Next, CallbackStep, EsdbStep, vars
<1> QED
  BY <1>1, <1>2, <1>3, PTL DEF Spec
===============================================================================
