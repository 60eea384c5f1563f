------------------------- MODULE ReplayPipelineProofs -------------------------
(***************************************************************************)
(* Proofs about ReplayPipeline, for any number of files, requests, workers *)
(* and any set of faults.  The invariant that is inductive, IInv, says who *)
(* can still write a row: it follows a file through its upload request and *)
(* the handlers that hold a copy of its row.                               *)
(***************************************************************************)
EXTENDS ReplayPipeline, TLAPS

(* Before the job id is stored the row is as it was created, and no callback *)
(* can have found it.                                                        *)
UntrackedIsNew ==
  \A u \in Uploads : upload[u].step \in {"post", "answer", "track"} =>
    state[File(u)] = "uploading" /\ esdb_id[File(u)] = "none"

(* Between the job id and uploaded! an error callback may have failed it. *)
TrackedBeforeUploaded ==
  \A u \in Uploads : UploadAt(u, "transition") =>
    state[File(u)] \in {"uploading", "failed"} /\ Tracked(File(u))

(* A file the loop has not come to has no row. *)
LaterFilesAbsent ==
  \A u \in Uploads : \A i \in DOMAIN Files[u] :
    i > upload[u].next \/ (i = upload[u].next /\ UploadAt(u, "create")) =>
      state[Files[u][i]] = "absent" /\ esdb_id[Files[u][i]] = "none"

(* A handler that holds a copy found the row by its job id. *)
HandledIsLinked ==
  \A h \in Handlers : ~HandlerAt(h, "idle") =>
    esdb_id[handler[h].replay] \in {"job", "match"}

(* A handler that is completing a replay found it processing: its upload     *)
(* request is past uploaded! and will not write the row again.               *)
CompletingIsUploaded ==
  \A h \in Handlers : handler[h].step \in {"save", "finish"} =>
    state[handler[h].replay] \in {"processing", "done", "failed"}

NoUploadedAfterCompleting ==
  \A h \in Handlers, u \in Uploads :
    handler[h].step \in {"save", "finish"} /\ UploadAt(u, "transition") =>
      handler[h].replay # File(u)

(* Only the handler that completed a replay holds a done copy. *)
DoneCopyNamesMatch ==
  \A h \in Handlers : handler[h].state = "done" => handler[h].match_id = "match"

(* A row that links its match has reached its end. *)
MatchedIsFinal ==
  \A r \in Replays : esdb_id[r] = "match" => state[r] \in Final

IInv == /\ TypeOK
        /\ UntrackedIsNew
        /\ TrackedBeforeUploaded
        /\ LaterFilesAbsent
        /\ HandledIsLinked
        /\ CompletingIsUploaded
        /\ NoUploadedAfterCompleting
        /\ DoneCopyNamesMatch
        /\ MatchedIsFinal
        /\ DoneLinksMatch
        /\ ProcessingIsTracked
        /\ DoneMessageNamesMatch
-------------------------------------------------------------------------------
(* Type correctness.  First what each kind of assignment preserves. *)

LEMMA UnchangedType ==
  ASSUME TypeOK
  PROVE  /\ UNCHANGED row => RowTypeOK'
         /\ UNCHANGED upload => UploadTypeOK'
         /\ UNCHANGED handler => HandlerTypeOK'
         /\ UNCHANGED <<job, calls, published>> => OutsideTypeOK'
  BY DEF TypeOK, row, RowTypeOK, UploadTypeOK, HandlerTypeOK, OutsideTypeOK, HandlerAt

(* The current file of a request is a replay. *)
LEMMA FileType ==
  ASSUME TypeOK, NEW u \in Uploads
  PROVE  File(u) \in Replays
  BY FilesAssumption DEF TypeOK, UploadTypeOK, File

LEMMA UploadGoesType ==
  ASSUME TypeOK, NEW u \in Uploads, NEW step \in UploadSteps, UploadGoes(u, step)
  PROVE  UploadTypeOK'
  BY DEF TypeOK, UploadTypeOK, UploadGoes

(* The position of a request in its files stays inside them. *)
LEMMA NextFileType ==
  ASSUME TypeOK, NEW u \in Uploads, NextFile(u)
  PROVE  UploadTypeOK'
<1>1. Files[u] \in Seq(Replays) /\ Len(Files[u]) \in Nat
  BY FilesAssumption
<1>2. upload[u].next \in 1 .. Len(Files[u]) /\ upload[u].next \in Nat
  BY DEF TypeOK, UploadTypeOK
<1> QED
  BY <1>1, <1>2 DEF TypeOK, UploadTypeOK, NextFile, UploadSteps

(* A worker that serves a callback of a replay. *)
LEMMA ServeType ==
  ASSUME TypeOK, NEW h \in Handlers, NEW c \in Callbacks, c.replay \in Replays,
         handler' = [handler EXCEPT ![h] = c]
  PROVE  HandlerTypeOK'
  BY DEF TypeOK, HandlerTypeOK, HandlerAt

LEMMA RespondType ==
  ASSUME TypeOK, NEW h \in Handlers, Respond(h)
  PROVE  HandlerTypeOK'
<1>1. IdleHandler \in Callbacks /\ IdleHandler.step = "idle"
  BY DEF IdleHandler, Callbacks, HandlerSteps, CallKinds, RowStates, Percents, MatchIds
<1> QED
  BY <1>1 DEF TypeOK, HandlerTypeOK, HandlerAt, Respond

(* What Publish leaves is a message for every replay. *)
LEMMA PublishType ==
  ASSUME TypeOK, NEW r, NEW st \in RowStates, NEW match \in MatchIds,
         Publish(r, st, match), UNCHANGED <<job, calls>>
  PROVE  OutsideTypeOK'
  BY DEF TypeOK, OutsideTypeOK, Publish, Messages

(* A callback taken off the wire. *)
LEMMA ReceiveType ==
  ASSUME TypeOK, NEW h \in Handlers, NEW r \in Replays, NEW kind \in CallKinds,
         Receive(h, r, kind), UNCHANGED <<job, published>>
  PROVE  OutsideTypeOK'
  BY DEF TypeOK, OutsideTypeOK, Receive

(* The copy a worker that is not idle holds. *)
LEMMA CopyType ==
  ASSUME TypeOK, NEW h \in Handlers
  PROVE  /\ handler[h] \in Callbacks
         /\ handler[h].state \in RowStates
         /\ handler[h].match_id \in MatchIds
         /\ ~HandlerAt(h, "idle") => handler[h].replay \in Replays
  BY DEF TypeOK, HandlerTypeOK, Callbacks

(* Steps of an upload request preserve TypeOK. *)
LEMMA UploadTypeStep ==
  ASSUME TypeOK, NEW u \in Uploads, UploadStep(u) \/ RejectFile(u) \/ UploadDies(u)
  PROVE  TypeOK'
<1> USE FileType, UnchangedType, UploadGoesType, NextFileType, PublishType
    DEF row, UploadSteps, States, RowStates, MatchIds
<1>1. CASE CreateReplay(u)
  <2>1. RowTypeOK'  BY <1>1 DEF CreateReplay, TypeOK, RowTypeOK
  <2> QED           BY <1>1, <2>1 DEF CreateReplay, TypeOK
<1>2. CASE RejectFile(u)
  BY <1>2 DEF RejectFile, TypeOK
<1>3. CASE PostToEsdb(u)
  <2>1. OutsideTypeOK'  BY <1>3 DEF PostToEsdb, TypeOK, OutsideTypeOK
  <2> QED               BY <1>3, <2>1 DEF PostToEsdb, TypeOK
<1>4. CASE PostFails(u)
  BY <1>4 DEF PostFails, TypeOK
<1>5. CASE ReceiveJobId(u)
  BY <1>5 DEF ReceiveJobId, TypeOK
<1>6. CASE ReceiveReplay(u)
  BY <1>6 DEF ReceiveReplay, TypeOK
<1>7. CASE StoreJobId(u)
  <2>1. RowTypeOK'  BY <1>7 DEF StoreJobId, TypeOK, RowTypeOK, EsdbIds
  <2> QED           BY <1>7, <2>1 DEF StoreJobId, TypeOK
<1>8. CASE Uploaded(u)
  <2>1. RowTypeOK'  BY <1>8 DEF Uploaded, TypeOK, RowTypeOK
  <2> QED           BY <1>8, <2>1 DEF Uploaded, TypeOK
<1>9. CASE UploadedRaises(u)
  BY <1>9 DEF UploadedRaises, TypeOK
<1>10. CASE UploadFailure(u)
  <2>1. RowTypeOK'  BY <1>10 DEF UploadFailure, TypeOK, RowTypeOK
  <2> QED           BY <1>10, <2>1 DEF UploadFailure, TypeOK
<1>11. CASE UploadFailureRaises(u)
  BY <1>11 DEF UploadFailureRaises, TypeOK
<1>12. CASE UploadDies(u)
  BY <1>12 DEF UploadDies, TypeOK
<1> QED
  BY <1>1, <1>2, <1>3, <1>4, <1>5, <1>6, <1>7, <1>8, <1>9, <1>10, <1>11, <1>12
  DEF UploadStep

(* Steps of ESDB and of the wire preserve TypeOK. *)
LEMMA EsdbTypeStep ==
  ASSUME TypeOK, NEW r \in Replays,
         EsdbReports(r) \/ EsdbFinishes(r) \/ EsdbReruns(r) \/ LoseCall(r)
  PROVE  TypeOK'
<1>1. OutsideTypeOK'
  <2> USE DEF TypeOK, OutsideTypeOK, CallKinds
  <2>1. CASE EsdbReports(r)   BY <2>1 DEF EsdbReports
  <2>2. CASE EsdbFinishes(r)  BY <2>2 DEF EsdbFinishes
  <2>3. CASE EsdbReruns(r)    BY <2>3 DEF EsdbReruns
  <2>4. CASE LoseCall(r)      BY <2>4 DEF LoseCall
  <2> QED                     BY <2>1, <2>2, <2>3, <2>4
<1> QED
  BY <1>1, UnchangedType
  DEF TypeOK, row, EsdbReports, EsdbFinishes, EsdbReruns, LoseCall

(* Steps of a callback preserve TypeOK. *)
LEMMA HandlerTypeStep ==
  ASSUME TypeOK, NEW h \in Handlers,
         \/ \E r \in Replays, kind \in CallKinds :
              FindNothing(h, r, kind) \/ Find(h, r, kind)
         \/ HandlerStep(h) \/ HandlerDies(h)
  PROVE  TypeOK'
<1> USE UnchangedType, CopyType, RespondType, PublishType
    DEF row, HandlerAt, States, RowStates, MatchIds
<1>1. ASSUME NEW r \in Replays, NEW kind \in CallKinds, FindNothing(h, r, kind)
      PROVE  TypeOK'
  BY <1>1, ReceiveType DEF FindNothing, TypeOK
<1>2. ASSUME NEW r \in Replays, NEW kind \in CallKinds, Find(h, r, kind)
      PROVE  TypeOK'
  <2> DEFINE c == handler'[h]
  <2>1. /\ handler' = [handler EXCEPT ![h] = c]
        /\ c \in Callbacks /\ c.replay \in Replays
    BY <1>2 DEF Find, TypeOK, RowTypeOK, HandlerTypeOK, Callbacks, HandlerSteps
  <2> QED
    BY <1>2, <2>1, ServeType, ReceiveType DEF Find, TypeOK
<1>3. CASE SaveProgress(h)
  <2>1. Percent(handler[h].kind) \in Percents
    BY DEF Percent, Percents
  <2>2. RowTypeOK'
    BY <1>3, <2>1 DEF SaveProgress, TypeOK, RowTypeOK
  <2> DEFINE c == handler'[h]
  <2>3. handler' = [handler EXCEPT ![h] = c]
    BY <1>3 DEF SaveProgress, TypeOK, HandlerTypeOK
  <2>4. c = [step |-> c.step, replay |-> handler[h].replay, kind |-> handler[h].kind,
             state |-> handler[h].state, progress |-> Percent(handler[h].kind),
             match_id |-> handler[h].match_id]
    BY <1>3 DEF SaveProgress, TypeOK, HandlerTypeOK, Callbacks
  <2>5. c.step \in HandlerSteps
    BY <1>3 DEF SaveProgress, TypeOK, HandlerTypeOK, Callbacks, HandlerSteps
  <2>6. c \in Callbacks /\ c.replay \in Replays
    BY <1>3, <2>1, <2>4, <2>5 DEF SaveProgress, Callbacks
  <2> QED
    BY <1>3, <2>2, <2>3, <2>6, ServeType DEF SaveProgress, TypeOK
<1>4. CASE Processed(h)
  <2>1. RowTypeOK'
    BY <1>4 DEF Processed, TypeOK, RowTypeOK, EsdbIds, Percents
  <2> DEFINE c == handler'[h]
  <2>2. handler' = [handler EXCEPT ![h] = c]
    BY <1>4 DEF Processed, TypeOK, HandlerTypeOK
  <2>3. c = [step |-> "publish", replay |-> handler[h].replay, kind |-> handler[h].kind,
             state |-> "done", progress |-> 0, match_id |-> "match"]
    BY <1>4 DEF Processed, TypeOK, HandlerTypeOK, Callbacks
  <2>4. c \in Callbacks /\ c.replay \in Replays
    BY <1>4, <2>3 DEF Processed, Callbacks, HandlerSteps, Percents
  <2> QED
    BY <1>4, <2>1, <2>2, <2>4, ServeType DEF Processed, TypeOK
<1>5. CASE HandlerFailure(h)
  <2>1. RowTypeOK'
    BY <1>5 DEF HandlerFailure, TypeOK, RowTypeOK
  <2> DEFINE c == handler'[h]
  <2>2. /\ handler' = [handler EXCEPT ![h] = c]
        /\ c \in Callbacks /\ c.replay \in Replays
    BY <1>5 DEF HandlerFailure, TypeOK, HandlerTypeOK, Callbacks, HandlerSteps
  <2> QED
    BY <1>5, <2>1, <2>2, ServeType DEF HandlerFailure, TypeOK
<1>6. CASE FailureRefused(h)
  BY <1>6 DEF FailureRefused, TypeOK
<1>7. CASE PublishAgain(h)
  BY <1>7 DEF PublishAgain, TypeOK
<1>8. CASE HandlerRaises(h)
  BY <1>8 DEF HandlerRaises, TypeOK
<1>9. CASE HandlerDies(h)
  BY <1>9 DEF HandlerDies, TypeOK
<1> QED
  BY <1>1, <1>2, <1>3, <1>4, <1>5, <1>6, <1>7, <1>8, <1>9 DEF HandlerStep

LEMMA TypeStep == TypeOK /\ [Next]_vars => TypeOK'
<1> SUFFICES ASSUME TypeOK, [Next]_vars PROVE TypeOK'
  OBVIOUS
<1>1. CASE UNCHANGED vars
  BY <1>1, UnchangedType DEF vars, row, TypeOK
<1>2. CASE Next
  BY <1>2, UploadTypeStep, EsdbTypeStep, HandlerTypeStep DEF Next
<1> QED
  BY <1>1, <1>2

LEMMA TypeInit == Init => TypeOK
<1> SUFFICES ASSUME Init PROVE TypeOK
  OBVIOUS
<1>1. RowTypeOK /\ OutsideTypeOK
  BY DEF Init, RowTypeOK, OutsideTypeOK, RowStates, EsdbIds, Percents, Messages, MatchIds
<1>2. UploadTypeOK
  BY FilesAssumption DEF Init, UploadTypeOK, UploadSteps
<1>3. HandlerTypeOK
  BY DEF Init, HandlerTypeOK, HandlerAt, IdleHandler, Callbacks, HandlerSteps, CallKinds,
         RowStates, Percents, MatchIds
<1> QED
  BY <1>1, <1>2, <1>3 DEF TypeOK

(* The type invariant holds for any number of requests, files and workers. *)
THEOREM TypeCorrect == Spec => []TypeOK
  BY TypeInit, TypeStep, PTL DEF Spec
-------------------------------------------------------------------------------
(* The inductive invariant. *)

(* Different positions hold different files. *)
LEMMA DistinctFiles ==
  ASSUME TypeOK, NEW u \in Uploads
  PROVE  /\ upload[u].next \in DOMAIN Files[u]
         /\ \A v \in Uploads \ {u} : File(v) # File(u)
         /\ \A v \in Uploads : \A i \in DOMAIN Files[v] :
              Files[v][i] = File(u) => v = u /\ i = upload[u].next
<1>1. \A v \in Uploads : upload[v].next \in DOMAIN Files[v]
  BY FilesAssumption DEF TypeOK, UploadTypeOK
<1> QED
  BY <1>1, FilesAssumption DEF File

LEMMA UploadGoesEffect ==
  ASSUME TypeOK, NEW u \in Uploads, NEW step, UploadGoes(u, step)
  PROVE  /\ UploadAt(u, step)' /\ \A v \in Uploads : File(v)' = File(v)
         /\ \A v \in Uploads : upload'[v].next = upload[v].next
         /\ \A v \in Uploads \ {u} : upload'[v] = upload[v]
  BY DEF TypeOK, UploadTypeOK, UploadGoes, UploadAt, File

LEMMA NextFileEffect ==
  ASSUME TypeOK, NEW u \in Uploads, NextFile(u)
  PROVE  /\ \/ UploadAt(u, "create")' /\ upload'[u].next = upload[u].next + 1
            \/ UploadAt(u, "answered")' /\ upload'[u].next = upload[u].next
         /\ \A v \in Uploads \ {u} : upload'[v] = upload[v] /\ File(v)' = File(v)
  BY DEF TypeOK, UploadTypeOK, NextFile, UploadAt, File

(* What a step of request u does to others: nothing. *)
LEMMA UploadFrame ==
  ASSUME TypeOK, NEW u \in Uploads, UploadStep(u) \/ RejectFile(u) \/ UploadDies(u)
  PROVE  /\ UNCHANGED handler
         /\ \A v \in Uploads \ {u} : /\ upload'[v] = upload[v]
                                     /\ File(v)' = File(v) /\ File(v) # File(u)
         /\ \A q \in Replays \ {File(u)} : /\ state'[q] = state[q]
                                           /\ esdb_id'[q] = esdb_id[q]
<1>1. \A v \in Uploads \ {u} : File(v) # File(u)
  BY DistinctFiles
<1>2. (\E step \in UploadSteps : UploadGoes(u, step)) \/ NextFile(u)
  BY DEF UploadStep, RejectFile, UploadDies, CreateReplay, PostToEsdb, PostFails,
         ReceiveJobId, ReceiveReplay, StoreJobId, Uploaded, UploadedRaises, UploadFailure,
         UploadFailureRaises, UploadSteps
<1>3. \A v \in Uploads \ {u} : upload'[v] = upload[v] /\ File(v)' = File(v)
  BY <1>2, UploadGoesEffect, NextFileEffect
<1>4. UNCHANGED handler
  BY DEF UploadStep, RejectFile, UploadDies, CreateReplay, PostToEsdb, PostFails,
         ReceiveJobId, ReceiveReplay, StoreJobId, Uploaded, UploadedRaises, UploadFailure,
         UploadFailureRaises, row
<1>5. \A q \in Replays \ {File(u)} : state'[q] = state[q] /\ esdb_id'[q] = esdb_id[q]
  BY DEF UploadStep, RejectFile, UploadDies, CreateReplay, PostToEsdb, PostFails,
         ReceiveJobId, ReceiveReplay, StoreJobId, Uploaded, UploadedRaises, UploadFailure,
         UploadFailureRaises, row, TypeOK, RowTypeOK
<1> QED
  BY <1>1, <1>3, <1>4, <1>5

(* What it does to its own file, as the steps it goes from and to. *)
LEMMA UploadEffect ==
  ASSUME TypeOK, NEW u \in Uploads, UploadStep(u) \/ RejectFile(u) \/ UploadDies(u)
  PROVE
    LET r == File(u)
        Stays(from, to) == /\ upload[u].step \in from /\ upload'[u].step \in to
                           /\ upload'[u].next = upload[u].next /\ File(u)' = File(u)
        MovesOn(from) == /\ upload[u].step = from
                         /\ \/ /\ upload'[u].step = "create"
                               /\ upload'[u].next = upload[u].next + 1
                            \/ /\ upload'[u].step = "answered"
                               /\ upload'[u].next = upload[u].next
        Writes(st, id) == state'[r] = st /\ esdb_id'[r] = id
    IN \/ Stays({"create"}, {"post"}) /\ Writes("uploading", esdb_id[r])
       \/ Stays({"track"}, {"transition"}) /\ Writes(state[r], "job")
       \/ Stays({"post", "answer"}, {"answer", "track"}) /\ Writes(state[r], esdb_id[r])
       \/ /\ Stays(UploadSteps, {"rejected", "rescue", "aborted", "died"})
          /\ Writes(state[r], esdb_id[r])
       \/ MovesOn("answer") /\ Writes(state[r], esdb_id[r])
       \/ MovesOn("transition") /\ Writes("processing", esdb_id[r])
       \/ MovesOn("rescue") /\ Writes("failed", esdb_id[r])
<1> USE FileType, UploadGoesEffect, NextFileEffect DEF TypeOK, RowTypeOK, UploadAt, row
<1>1. CASE CreateReplay(u)          BY <1>1 DEF CreateReplay
<1>2. CASE RejectFile(u)            BY <1>2 DEF RejectFile, UploadSteps
<1>3. CASE PostToEsdb(u)            BY <1>3 DEF PostToEsdb
<1>4. CASE PostFails(u)             BY <1>4 DEF PostFails, UploadSteps
<1>5. CASE ReceiveJobId(u)          BY <1>5 DEF ReceiveJobId
<1>6. CASE ReceiveReplay(u)         BY <1>6 DEF ReceiveReplay
<1>7. CASE StoreJobId(u)            BY <1>7 DEF StoreJobId
<1>8. CASE Uploaded(u)              BY <1>8 DEF Uploaded
<1>9. CASE UploadedRaises(u)        BY <1>9 DEF UploadedRaises, UploadSteps
<1>10. CASE UploadFailure(u)        BY <1>10 DEF UploadFailure
<1>11. CASE UploadFailureRaises(u)  BY <1>11 DEF UploadFailureRaises, UploadSteps
<1>12. CASE UploadDies(u)           BY <1>12 DEF UploadDies, UploadTypeOK
<1> QED
  BY <1>1, <1>2, <1>3, <1>4, <1>5, <1>6, <1>7, <1>8, <1>9, <1>10, <1>11, <1>12
  DEF UploadStep

(* A step of an upload request preserves the parts about requests ... *)
LEMMA UploadKeepsUploads ==
  ASSUME IInv, TypeOK', NEW u \in Uploads, UploadStep(u) \/ RejectFile(u) \/ UploadDies(u)
  PROVE  UntrackedIsNew' /\ TrackedBeforeUploaded' /\ LaterFilesAbsent'
<1> USE UploadFrame, UploadEffect, FileType DEF IInv
<1>1. ASSUME NEW v \in Uploads, upload'[v].step \in {"post", "answer", "track"}
      PROVE  state'[File(v)'] = "uploading" /\ esdb_id'[File(v)'] = "none"
  <2>1. CASE v # u
    BY <1>1, <2>1 DEF UntrackedIsNew
  <2>2. CASE v = u
    <3>1. File(u) \in Replays /\ (UploadAt(u, "create") => esdb_id[File(u)] = "none")
      BY DistinctFiles DEF LaterFilesAbsent, File
    <3> QED
      BY <1>1, <2>2, <3>1 DEF UntrackedIsNew, UploadAt
  <2> QED BY <2>1, <2>2
<1>2. ASSUME NEW v \in Uploads, upload'[v].step = "transition"
      PROVE  state'[File(v)'] \in {"uploading", "failed"} /\ esdb_id'[File(v)'] = "job"
  <2>1. CASE v # u
    BY <1>2, <2>1 DEF TrackedBeforeUploaded, UploadAt, Tracked
  <2>2. CASE v = u
    BY <1>2, <2>2 DEF UntrackedIsNew
  <2> QED BY <2>1, <2>2
<1>3. ASSUME NEW v \in Uploads, NEW i \in DOMAIN Files[v],
             i > upload'[v].next \/ (i = upload'[v].next /\ upload'[v].step = "create")
      PROVE  state'[Files[v][i]] = "absent" /\ esdb_id'[Files[v][i]] = "none"
  <2>1. i \in Nat /\ Files[v][i] \in Replays /\ upload[v].next \in Nat
    BY FilesAssumption DEF TypeOK, UploadTypeOK
  <2>2. Files[v][i] # File(u)
    <3>1. ~(v = u /\ i = upload[u].next)
      BY <1>3, <2>1
    <3> QED BY <3>1, DistinctFiles
  <2>3. i > upload[v].next \/ (i = upload[v].next /\ upload[v].step = "create")
    BY <1>3, <2>1
  <2> QED
    BY <2>1, <2>2, <2>3 DEF LaterFilesAbsent, UploadAt
<1> QED
  BY <1>1, <1>2, <1>3 DEF UntrackedIsNew, TrackedBeforeUploaded, LaterFilesAbsent,
                          UploadAt, Tracked

(* ... the parts about callbacks ... *)
LEMMA UploadKeepsHandlers ==
  ASSUME IInv, TypeOK', NEW u \in Uploads, UploadStep(u) \/ RejectFile(u) \/ UploadDies(u)
  PROVE  /\ HandledIsLinked' /\ CompletingIsUploaded'
         /\ NoUploadedAfterCompleting' /\ DoneCopyNamesMatch'
<1> USE UploadFrame, UploadEffect, FileType, CopyType DEF IInv
<1>1. File(u) \in Replays /\ (UploadAt(u, "create") => esdb_id[File(u)] = "none")
  BY DistinctFiles DEF LaterFilesAbsent, File
<1>2. HandledIsLinked'
  BY <1>1 DEF HandledIsLinked, HandlerAt, UploadAt
<1>3. ASSUME NEW h \in Handlers, handler[h].step \in {"save", "finish"}
      PROVE  /\ state'[handler[h].replay] \in {"processing", "done", "failed"}
             /\ \A v \in Uploads : upload'[v].step = "transition" =>
                  handler[h].replay # File(v)'
  <2>1. /\ handler[h].replay \in Replays
        /\ esdb_id[handler[h].replay] \in {"job", "match"}
        /\ state[handler[h].replay] \in {"processing", "done", "failed"}
    BY <1>3 DEF HandledIsLinked, CompletingIsUploaded, HandlerAt
  <2>2. state'[handler[h].replay] \in {"processing", "done", "failed"}
    BY <1>1, <2>1 DEF UploadAt
  <2>3. ASSUME NEW v \in Uploads, upload'[v].step = "transition"
        PROVE  handler[h].replay # File(v)'
    BY <1>3, <2>1, <2>3 DEF NoUploadedAfterCompleting, UntrackedIsNew, UploadAt
  <2> QED BY <2>2, <2>3
<1>4. DoneCopyNamesMatch'
  BY DEF DoneCopyNamesMatch
<1> QED
  BY <1>2, <1>3, <1>4 DEF CompletingIsUploaded, NoUploadedAfterCompleting, UploadAt

(* ... and the properties of the rows and of the messages. *)
LEMMA UploadKeepsRows ==
  ASSUME IInv, TypeOK', NEW u \in Uploads, UploadStep(u) \/ RejectFile(u) \/ UploadDies(u)
  PROVE  /\ MatchedIsFinal' /\ DoneLinksMatch' /\ ProcessingIsTracked'
         /\ DoneMessageNamesMatch'
<1> USE UploadFrame, UploadEffect, FileType DEF IInv
<1>1. File(u) \in Replays /\ (UploadAt(u, "create") => esdb_id[File(u)] = "none")
  BY DistinctFiles DEF LaterFilesAbsent, File
<1>2. ASSUME NEW r \in Replays
      PROVE  /\ esdb_id'[r] = "match" => state'[r] \in Final
             /\ state'[r] = "done" => esdb_id'[r] = "match"
             /\ state'[r] = "processing" => esdb_id'[r] = "job"
  <2>1. CASE r # File(u)
    BY <2>1 DEF MatchedIsFinal, DoneLinksMatch, ProcessingIsTracked, Tracked
  <2>2. CASE r = File(u)
    BY <1>1, <2>2 DEF MatchedIsFinal, DoneLinksMatch, ProcessingIsTracked, Tracked,
          TrackedBeforeUploaded, UntrackedIsNew, UploadAt, Final
  <2> QED BY <2>1, <2>2
<1>3. \A r \in Replays : published'[r] = published[r] \/ published'[r].state # "done"
  BY DEF UploadStep, RejectFile, UploadDies, CreateReplay, PostToEsdb, PostFails,
         ReceiveJobId, ReceiveReplay, StoreJobId, Uploaded, UploadedRaises, UploadFailure,
         UploadFailureRaises, Publish, TypeOK, OutsideTypeOK
<1> QED
  BY <1>2, <1>3 DEF MatchedIsFinal, DoneLinksMatch, ProcessingIsTracked, Tracked,
                    DoneMessageNamesMatch

(* A step of worker h, of any kind. *)
CallbackStep(h) ==
  \/ \E r \in Replays, kind \in CallKinds : FindNothing(h, r, kind) \/ Find(h, r, kind)
  \/ HandlerStep(h) \/ HandlerDies(h)

(* What it does to its copy and to the row it serves, and to nothing else. *)
LEMMA CallbackEffect ==
  ASSUME TypeOK, NEW h \in Handlers, CallbackStep(h)
  PROVE
    LET p == handler[h].replay
        c == handler'[h]
        KeepsRows == UNCHANGED <<state, esdb_id>>
        Goes(from, to) == handler[h].step = from /\ c.step = to /\ c.replay = p
    IN /\ UNCHANGED upload
       /\ \A g \in Handlers \ {h} : handler'[g] = handler[g]
       /\ \/ KeepsRows /\ c = handler[h]
          \/ KeepsRows /\ c = IdleHandler
          \/ /\ KeepsRows /\ c.replay \in Replays /\ Tracked(c.replay)
             /\ c.state = state[c.replay] /\ c.step \in {"save", "publish", "fail"}
             /\ c.step = "save" => state[c.replay] = "processing"
          \/ /\ KeepsRows /\ Goes("save", c.step) /\ c.step \in {"finish", "publish"}
             /\ c.state = handler[h].state /\ c.match_id = handler[h].match_id
          \/ /\ Goes("finish", "publish") /\ c.state = "done" /\ c.match_id = "match"
             /\ state' = [state EXCEPT ![p] = "done"]
             /\ esdb_id' = [esdb_id EXCEPT ![p] = "match"]
          \/ /\ Goes("fail", "publish") /\ c.state = "failed"
             /\ state' = [state EXCEPT ![p] = "failed"]
             /\ esdb_id' = esdb_id
<1> USE DEF TypeOK, HandlerTypeOK, HandlerAt, row
<1>1. ASSUME NEW r \in Replays, NEW kind \in CallKinds, FindNothing(h, r, kind)
      PROVE  UNCHANGED <<state, esdb_id, upload, handler>>
  BY <1>1 DEF FindNothing
<1>2. ASSUME NEW r \in Replays, NEW kind \in CallKinds, Find(h, r, kind)
      PROVE  /\ UNCHANGED <<state, esdb_id, upload>>
             /\ \A g \in Handlers \ {h} : handler'[g] = handler[g]
             /\ handler'[h].replay = r /\ Tracked(r) /\ handler'[h].state = state[r]
             /\ handler'[h].step \in {"save", "publish", "fail"}
             /\ handler'[h].step = "save" => state[r] = "processing"
  BY <1>2 DEF Find
<1>3. CASE SaveProgress(h)
  BY <1>3 DEF SaveProgress, Callbacks
<1>4. CASE Processed(h)
  BY <1>4 DEF Processed, Callbacks
<1>5. CASE HandlerFailure(h)
  BY <1>5 DEF HandlerFailure, Callbacks
<1>6. ASSUME FailureRefused(h) \/ PublishAgain(h) \/ HandlerRaises(h) \/ HandlerDies(h)
      PROVE  /\ UNCHANGED <<state, esdb_id, upload>> /\ handler'[h] = IdleHandler
             /\ \A g \in Handlers \ {h} : handler'[g] = handler[g]
  BY <1>6 DEF FailureRefused, PublishAgain, HandlerRaises, HandlerDies, Respond
<1> QED
  BY <1>1, <1>2, <1>3, <1>4, <1>5, <1>6 DEF CallbackStep, HandlerStep

(* A step of a worker preserves the parts of IInv about requests ... *)
LEMMA CallbackKeepsUploads ==
  ASSUME IInv, TypeOK', NEW h \in Handlers, CallbackStep(h)
  PROVE  UntrackedIsNew' /\ TrackedBeforeUploaded' /\ LaterFilesAbsent'
<1> USE CallbackEffect, FileType DEF IInv
<1> DEFINE p == handler[h].replay
<1>1. \A v \in Uploads : File(v)' = File(v)
  BY DEF File
<1>2. handler[h].step # "idle" => p \in Replays /\ esdb_id[p] \in {"job", "match"}
  BY CopyType DEF HandledIsLinked, HandlerAt
<1>3. \A r \in Replays : esdb_id[r] = "none" => state'[r] = state[r] /\ esdb_id'[r] = "none"
  BY <1>2 DEF TypeOK, RowTypeOK
<1>4. UntrackedIsNew'
  BY <1>1, <1>3 DEF UntrackedIsNew
<1>5. ASSUME NEW v \in Uploads, UploadAt(v, "transition")
      PROVE  state'[File(v)] \in {"uploading", "failed"} /\ esdb_id'[File(v)] = "job"
  <2>1. handler[h].step = "finish" => p # File(v)
    BY <1>5 DEF NoUploadedAfterCompleting
  <2> QED
    BY <1>2, <1>5, <2>1 DEF TrackedBeforeUploaded, Tracked, TypeOK, RowTypeOK
<1>6. TrackedBeforeUploaded'
  BY <1>1, <1>5 DEF TrackedBeforeUploaded, Tracked, UploadAt
<1>7. LaterFilesAbsent'
  <2>1. \A v \in Uploads : \A i \in DOMAIN Files[v] : Files[v][i] \in Replays
    BY FilesAssumption
  <2> QED
    BY <1>3, <2>1 DEF LaterFilesAbsent, UploadAt
<1> QED
  BY <1>4, <1>6, <1>7

(* ... the parts about callbacks ... *)
LEMMA CallbackKeepsHandlers ==
  ASSUME IInv, TypeOK', NEW h \in Handlers, CallbackStep(h)
  PROVE  /\ HandledIsLinked' /\ CompletingIsUploaded'
         /\ NoUploadedAfterCompleting' /\ DoneCopyNamesMatch'
<1> USE CallbackEffect, FileType, CopyType DEF IInv
<1> DEFINE p == handler[h].replay
<1>1. IdleHandler.step = "idle" /\ IdleHandler.state = "absent"
  BY DEF IdleHandler
<1>2. \A r \in Replays : esdb_id[r] \in {"job", "match"} => esdb_id'[r] \in {"job", "match"}
  BY DEF TypeOK, RowTypeOK
<1>3. \A r \in Replays : state[r] \in {"processing", "done", "failed"} =>
                         state'[r] \in {"processing", "done", "failed"}
  BY DEF TypeOK, RowTypeOK
<1>4. ASSUME NEW g \in Handlers, handler'[g].step # "idle"
      PROVE  esdb_id'[handler'[g].replay] \in {"job", "match"}
  BY <1>1, <1>2, <1>4 DEF HandledIsLinked, HandlerAt, Tracked
<1>5. ASSUME NEW g \in Handlers, handler'[g].step \in {"save", "finish"}
      PROVE  /\ state'[handler'[g].replay] \in {"processing", "done", "failed"}
             /\ \A v \in Uploads : UploadAt(v, "transition") => handler'[g].replay # File(v)
  <2>1. \/ handler[g].step \in {"save", "finish"} /\ handler'[g].replay = handler[g].replay
        \/ handler'[g].replay \in Replays /\ state[handler'[g].replay] = "processing"
    BY <1>1, <1>5
  <2> QED
    BY <1>3, <1>5, <2>1 DEF CompletingIsUploaded, NoUploadedAfterCompleting,
                            TrackedBeforeUploaded, HandlerAt
<1>6. ASSUME NEW g \in Handlers, handler'[g].state = "done"
      PROVE  handler'[g].match_id = "match"
  BY <1>1, <1>6 DEF DoneCopyNamesMatch, DoneLinksMatch, Tracked
<1> QED
  BY <1>4, <1>5, <1>6 DEF HandledIsLinked, CompletingIsUploaded, NoUploadedAfterCompleting,
                          DoneCopyNamesMatch, HandlerAt, UploadAt, File

(* ... and the properties of the rows and of the messages. *)
LEMMA CallbackKeepsRows ==
  ASSUME IInv, TypeOK', NEW h \in Handlers, CallbackStep(h)
  PROVE  /\ MatchedIsFinal' /\ DoneLinksMatch' /\ ProcessingIsTracked'
         /\ DoneMessageNamesMatch'
<1> USE CallbackEffect, CopyType DEF IInv
<1>1. ASSUME NEW r \in Replays
      PROVE  /\ esdb_id'[r] = "match" => state'[r] \in Final
             /\ state'[r] = "done" => esdb_id'[r] = "match"
             /\ state'[r] = "processing" => esdb_id'[r] = "job"
  BY DEF MatchedIsFinal, DoneLinksMatch, ProcessingIsTracked, Tracked, Final,
         TypeOK, RowTypeOK
<1>2. \A r \in Replays : \/ published'[r] = published[r]
                         \/ published'[r].state # "done"
                         \/ published'[r].match_id = "match"
  <2>1. \/ UNCHANGED published
        \/ \E st \in RowStates, match \in MatchIds :
             /\ st = "done" => match = "match"
             /\ Publish(handler[h].replay, st, match)
    BY DEF CallbackStep, FindNothing, Find, HandlerStep, SaveProgress, Processed,
           HandlerFailure, FailureRefused, PublishAgain, HandlerRaises, HandlerDies,
           DoneCopyNamesMatch, RowStates, States, MatchIds
  <2>2. published \in [Replays -> Messages]
    BY DEF TypeOK, OutsideTypeOK
  <2>3. ASSUME NEW st \in RowStates, NEW match \in MatchIds, NEW r \in Replays,
               st = "done" => match = "match", Publish(handler[h].replay, st, match)
        PROVE  \/ published'[r] = published[r]
               \/ published'[r].state # "done"
               \/ published'[r].match_id = "match"
    BY <2>2, <2>3 DEF Publish
  <2> QED
    BY <2>1, <2>3
<1> QED
  BY <1>1, <1>2 DEF MatchedIsFinal, DoneLinksMatch, ProcessingIsTracked, Tracked,
                    DoneMessageNamesMatch

-------------------------------------------------------------------------------
LEMMA IInvInit == Init => IInv
<1> SUFFICES ASSUME Init PROVE IInv
  OBVIOUS
<1>1. \A u \in Uploads : \A i \in DOMAIN Files[u] : Files[u][i] \in Replays
  BY FilesAssumption
<1> QED
  BY <1>1, TypeInit
  DEF Init, IInv, UntrackedIsNew, TrackedBeforeUploaded, LaterFilesAbsent, HandledIsLinked,
      CompletingIsUploaded, NoUploadedAfterCompleting, DoneCopyNamesMatch, MatchedIsFinal,
      DoneLinksMatch, ProcessingIsTracked, DoneMessageNamesMatch, HandlerAt, UploadAt,
      Tracked, IdleHandler

LEMMA IInvStep == IInv /\ [Next]_vars => IInv'
<1> SUFFICES ASSUME IInv, [Next]_vars PROVE IInv'
  OBVIOUS
<1>1. TypeOK'
  BY TypeStep DEF IInv
<1>2. ASSUME NEW u \in Uploads, UploadStep(u) \/ RejectFile(u) \/ UploadDies(u)
      PROVE  IInv'
  BY <1>1, <1>2, UploadKeepsUploads, UploadKeepsHandlers, UploadKeepsRows DEF IInv
<1>3. ASSUME NEW h \in Handlers, CallbackStep(h)
      PROVE  IInv'
  BY <1>1, <1>3, CallbackKeepsUploads, CallbackKeepsHandlers, CallbackKeepsRows DEF IInv
<1>4. ASSUME UNCHANGED <<state, esdb_id, upload, handler, published>>
      PROVE  IInv'
  BY <1>1, <1>4
  DEF IInv, UntrackedIsNew, TrackedBeforeUploaded, LaterFilesAbsent, HandledIsLinked,
      CompletingIsUploaded, NoUploadedAfterCompleting, DoneCopyNamesMatch, MatchedIsFinal,
      DoneLinksMatch, ProcessingIsTracked, DoneMessageNamesMatch, HandlerAt, UploadAt,
      Tracked, File
<1>5. ASSUME NEW r \in Replays,
             EsdbReports(r) \/ EsdbFinishes(r) \/ EsdbReruns(r) \/ LoseCall(r)
      PROVE  UNCHANGED <<state, esdb_id, upload, handler, published>>
  BY <1>5 DEF EsdbReports, EsdbFinishes, EsdbReruns, LoseCall, row
<1> QED
  BY <1>2, <1>3, <1>4, <1>5 DEF Next, CallbackStep, vars

(* Whatever requests, callbacks and failures interleave: a done row links its *)
(* match, a processing row can be found by its job, and no message says done  *)
(* without the match.                                                         *)
THEOREM RowsStayLinked ==
  Spec => [](DoneLinksMatch /\ ProcessingIsTracked /\ DoneMessageNamesMatch)
<1>1. IInv => DoneLinksMatch /\ ProcessingIsTracked /\ DoneMessageNamesMatch
  BY DEF IInv
<1> QED
  BY IInvInit, IInvStep, <1>1, PTL DEF Spec

(* The parts of it that runs check by name: a processing row can be found ... *)
THEOREM ProcessingTracked == Spec => []ProcessingIsTracked
  BY RowsStayLinked, PTL

(* ... and the browser is never told of a match without its id.                *)
THEOREM DoneNamesMatch == Spec => []DoneMessageNamesMatch
  BY RowsStayLinked, PTL

(* No step takes the match id out of a row. *)
LEMMA MatchIdStays ==
  ASSUME IInv, [Next]_vars, NEW r \in Replays, esdb_id[r] = "match"
  PROVE  esdb_id'[r] = "match"
<1>1. ASSUME NEW u \in Uploads, UploadStep(u) \/ RejectFile(u) \/ UploadDies(u)
      PROVE  esdb_id'[r] = "match"
  <2>1. upload[u].step = "create" => esdb_id[File(u)] = "none"
    BY DistinctFiles DEF IInv, LaterFilesAbsent, File, UploadAt
  <2>2. upload[u].step = "track" => esdb_id[File(u)] = "none"
    BY DEF IInv, UntrackedIsNew
  <2> QED
    BY <1>1, <2>1, <2>2, UploadFrame, UploadEffect DEF IInv
<1>2. ASSUME NEW h \in Handlers, CallbackStep(h)
      PROVE  esdb_id'[r] = "match"
  BY <1>2, CallbackEffect DEF IInv, TypeOK, RowTypeOK
<1>3. ASSUME NEW q \in Replays,
             EsdbReports(q) \/ EsdbFinishes(q) \/ EsdbReruns(q) \/ LoseCall(q)
      PROVE  UNCHANGED esdb_id
  BY <1>3 DEF EsdbReports, EsdbFinishes, EsdbReruns, LoseCall, row
<1> QED
  BY <1>1, <1>2, <1>3 DEF Next, CallbackStep, vars

(* Once linked, a match stays linked and its replay ended. *)
THEOREM MatchLinkStays == Spec => MatchLinkIsPermanent
<1> DEFINE Keeps == \A r \in Replays : esdb_id[r] = "match" =>
                      esdb_id'[r] = "match" /\ state'[r] \in Final
<1>1. IInv /\ [Next]_vars => Keeps
  BY MatchIdStays, IInvStep DEF IInv, MatchedIsFinal
<1>2. IInv /\ [Next]_vars => [Keeps]_vars
  BY <1>1
<1> QED
  BY IInvInit, IInvStep, <1>2, PTL DEF Spec, MatchLinkIsPermanent
-------------------------------------------------------------------------------
(* The two transactions of the last progress callback. *)

(* Neither a push that raises nor a dying worker ends a request early. *)
SteadyWorkers == Faults \cap {"redis", "death"} = {}

Completing(r) == \E h \in Handlers : handler[h].replay = r /\ HandlerAt(h, "finish")

(* 100 % were saved by a worker that is about to complete the replay or has.   *)
FullIsFinishing ==
  \A r \in Replays : progress[r] = 100 => esdb_id[r] = "match" \/ Completing(r)

(* A step that leaves the progress of r and the workers alone. *)
LEMMA FullKept ==
  ASSUME IInv, [Next]_vars, FullIsFinishing, NEW r \in Replays,
         progress'[r] = progress[r],
         \A h \in Handlers : handler[h].replay = r /\ HandlerAt(h, "finish") => handler'[h] = handler[h]
  PROVE  progress'[r] = 100 => esdb_id'[r] = "match" \/ Completing(r)'
<1> SUFFICES ASSUME progress'[r] = 100
             PROVE  esdb_id'[r] = "match" \/ Completing(r)'
  OBVIOUS
<1>1. CASE esdb_id[r] = "match"
  BY <1>1, MatchIdStays
<1>2. CASE Completing(r)
  <2>1. PICK h \in Handlers : handler[h].replay = r /\ HandlerAt(h, "finish")
    BY <1>2 DEF Completing
  <2>2. handler'[h] = handler[h]
    BY <2>1
  <2>3. handler'[h].replay = r /\ handler'[h].step = "finish"
    BY <2>1, <2>2 DEF HandlerAt
  <2> QED BY <2>3 DEF Completing, HandlerAt
<1> QED BY <1>1, <1>2 DEF FullIsFinishing

LEMMA FullStep ==
  ASSUME IInv, IInv', SteadyWorkers, FullIsFinishing, [Next]_vars
  PROVE  FullIsFinishing'
<1>0. TypeOK /\ progress \in [Replays -> Percents] /\ handler \in [Handlers -> Callbacks]
  BY DEF IInv, TypeOK, RowTypeOK, HandlerTypeOK
<1>1. ASSUME UNCHANGED <<progress, handler>>
      PROVE  FullIsFinishing'
  BY <1>1, FullKept DEF FullIsFinishing
<1>2. ASSUME NEW u \in Uploads, UploadStep(u) \/ RejectFile(u) \/ UploadDies(u)
      PROVE  UNCHANGED <<progress, handler>>
  BY <1>2 DEF UploadStep, RejectFile, UploadDies, CreateReplay, PostToEsdb, PostFails,
         ReceiveJobId, ReceiveReplay, StoreJobId, Uploaded, UploadedRaises, UploadFailure,
         UploadFailureRaises, row
<1>3. ASSUME NEW q \in Replays,
             EsdbReports(q) \/ EsdbFinishes(q) \/ EsdbReruns(q) \/ LoseCall(q)
      PROVE  UNCHANGED <<progress, handler>>
  BY <1>3 DEF EsdbReports, EsdbFinishes, EsdbReruns, LoseCall, row
<1>4. ASSUME NEW h \in Handlers, CallbackStep(h), NEW r \in Replays, progress'[r] = 100
      PROVE  esdb_id'[r] = "match" \/ Completing(r)'
  <2>1. CASE ~HandlerAt(h, "finish") /\ UNCHANGED progress
    <3>1. \A g \in Handlers \ {h} : handler'[g] = handler[g]
      BY <1>0, <1>4 DEF CallbackStep, HandlerStep, Find, FindNothing, SaveProgress, Processed,
            HandlerFailure, FailureRefused, PublishAgain, HandlerRaises, HandlerDies, Respond
    <3> QED BY <1>4, <2>1, <3>1, FullKept DEF HandlerAt
  <2>2. CASE SaveProgress(h)
    <3>1. CASE handler[h].replay = r /\ Percent(handler[h].kind) = 100
      <4>1. handler'[h].replay = r /\ handler'[h].step = "finish"
        BY <1>0, <2>2, <3>1 DEF SaveProgress
      <4> QED BY <4>1 DEF Completing, HandlerAt
    <3>2. CASE ~(handler[h].replay = r /\ Percent(handler[h].kind) = 100)
      <4>1. progress'[r] = progress[r]
        BY <1>0, <1>4, <2>2, <3>2 DEF SaveProgress, Percent, Percents
      <4>2. \A g \in Handlers : HandlerAt(g, "finish") => handler'[g] = handler[g]
        BY <1>0, <2>2 DEF SaveProgress, HandlerAt
      <4> QED BY <1>4, <4>1, <4>2, FullKept
    <3> QED BY <3>1, <3>2
  <2>3. CASE Processed(h)
    <3>1. CASE handler[h].replay = r
      BY <1>0, <1>4, <2>3, <3>1 DEF Processed
    <3>2. CASE handler[h].replay # r
      <4>1. progress'[r] = progress[r]
        BY <1>0, <2>3, <3>2 DEF Processed
      <4>2. \A g \in Handlers \ {h} : handler'[g] = handler[g]
        BY <1>0, <2>3 DEF Processed
      <4> QED BY <1>4, <3>2, <4>1, <4>2, FullKept
    <3> QED BY <3>1, <3>2
  <2>4. ~HandlerRaises(h) /\ ~HandlerDies(h)
    BY DEF HandlerRaises, HandlerDies, PushRaises, SteadyWorkers
  <2> QED
    BY <1>4, <2>1, <2>2, <2>3, <2>4 DEF CallbackStep, HandlerStep, Find, FindNothing,
          HandlerFailure, FailureRefused, PublishAgain, Receive, HandlerAt, row
<1>5. ASSUME NEW h \in Handlers, CallbackStep(h)
      PROVE  FullIsFinishing'
  BY <1>4, <1>5 DEF FullIsFinishing
<1>6. CASE UNCHANGED vars
  BY <1>1, <1>6 DEF vars
<1> QED
  BY <1>1, <1>2, <1>3, <1>5, <1>6 DEF Next, CallbackStep

(* With Redis up and workers alive, and however many of them race: a row that  *)
(* is processing at 100 % has a worker that is about to complete it.           *)
THEOREM FullMeansDone ==
  ASSUME SteadyWorkers
  PROVE  Spec => []FullProgressMeansDone
<1>1. Init => FullIsFinishing
  BY DEF Init, FullIsFinishing
<1>2. IInv /\ FullIsFinishing => FullProgressMeansDone
  BY DEF IInv, ProcessingIsTracked, Tracked, FullIsFinishing, FullProgressMeansDone, Completing
<1>3. IInv /\ IInv' /\ FullIsFinishing /\ [Next]_vars => FullIsFinishing'
  BY FullStep
<1> QED
  BY IInvInit, IInvStep, <1>1, <1>2, <1>3, PTL DEF Spec
===============================================================================
