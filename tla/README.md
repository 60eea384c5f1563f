# A verification project for ggtracker

ggtracker is the web site where StarCraft II players keep their replays: a Rails
application (`app/`), a single-page Angular front end (`app/assets/javascripts/`), a Redis
push server (Juggernaut) and, behind them, ESDB, the service that parses replays and scrapes
Battle.net profiles. ESDB is not in the repository: it is modelled from how the code uses it
and marked external.

This file says what the system consists of, which parts are modelled and how, what TLC and
TLAPS establish about them, and what is not modelled and why.

## 1. Inventory

| component | state | operations | correct when |
|---|---|---|---|
| replay pipeline: `replay.rb`, `replays_controller.rb`, `esdb_controller.rb` | rows of `replays` (state, esdb_id, progress), in-memory copies of them, jobs and callbacks of ESDB, pushed messages | `drop`, `s3_drop`, `process!`, the callback (progress, last progress, error), `uploaded!`, `processed!`, `failure!`, `publish_progress!` | a done row links its match; the row follows its state machine; the browser's last message agrees with the row; every replay ends |
| upload page: `gg.js:266-361`, `directives/uploads.js`, `directives/fadey.js`, layout | list of uploads, a 60-second timer per upload, the throttled digest, list still shown | message, timer, digest, fade-out, redirect | the user is never left staring at the page; it leaves for the right match |
| account authentication: `account.rb`, `accounts_controller.rb`, `esdb_controller.rb:42-50` | rows of `accounts` (state, portrait, expected_portrait, authenticated_at) | create, update, destroy, `sync_identity!`, `identity_update` | authed means the portrait matched; an authenticated account is shown as such |
| notifications: `notification.rb`, `user.rb:97-112` | unacknowledged notifications | notify, ack, ack all | one current notice per account state |
| Pro subscription: `payment_controller.rb`, `home_controller.rb`, `players_controller.rb:25-36`, `user.rb:71` | prolevel, pro_cancelled_at, paypal_profile_id | PayPal's notifications, local cancellation, gift month | who pays is pro, who cancelled is pro for the rest of the month |
| access tokens: `user.rb:18-69`, `application_controller.rb:10-36` | token column | reset, sign-in by token | a token names one user |
| primary account: `user.rb:35-49,114-120`, `accounts_controller.rb:33-45` | primary_account_id | choose, destroy account | the reference is to an account of the user |
| match notes: `matchnotes_controller.rb` | rows of `matchnotes` | get, post | one note per user and match |
| match view: `resources/match.js`, `directives/armychart.js`, `army.js`, `matchmap.js`, `controllers/match.js` | frame under the mouse, frozen or not, freeze line; armies and locations the match remembers; a throttle per panel and one for the minimap | move, click, URL hash, collapse, throttled panel and minimap | panels, totals and minimap show the frame chosen; what is remembered equals the direct computation |
| search filter and lists: `services/url_filter.js`, `services/resource.js`, `directives/matchessearch.js`, `matches.js`, `players.js`, `raceselect.js`, `unpaginate.js` | URL, parameters, widgets, timer, requests and answers on their way, list shown | click a widget, a column or a page, visit a URL, refresh, answer | the three copies of the filter agree; the list shows the answer to it |
| HTTP cache: `config/app.development.vcl`, `application_controller.rb:116-130` | session, logged-in cookie, cached pages | sign in, sign out, fetch | a page of a signed-in user is not served from the cache |
| hiring leaderboard: `home_controller.rb:40-75` | a Redis set and a sorted set, a per-process copy | visit, read | the board counts the visits |
| match pages | none of their own | forward to ESDB | – |
| pages, charts, mail; vendored libraries | none | presentation | – |

How they interact. A browser posts files to `drop`; the web worker creates the rows and posts
each file to ESDB. ESDB calls `esdb/callback` over HTTP, where any other web worker serves it.
Both sides change the row through the ActiveRecord state machine, and each event pushes the
row's new state through Redis to the browser, which keeps its own copy of every upload.
Accounts go the same way with `identity_update`. Nothing in the application locks a row.

What is hard. Web workers hold copies of a row across several statements and write back only
the columns they changed; ESDB's callbacks may overtake the request that posted the file, be
repeated or lost; a push may raise inside a transaction; workers are killed (unicorn's
timeout). In the browser one callback runs at a time, but pushed messages, timers, throttled calls,
animations and answers come in any order, and the watches of Angular's digest copy state in circles.
`PROJECT.json` lists each hazard at its line.

| component | status | module |
|---|---|---|
| replay pipeline | modelled | `ReplayPipeline`, `ReplayLifecycle` |
| upload page | modelled | `UploadPage`, `UploadScreen` |
| account authentication, notifications | partly | `AccountAuth` |
| search filter and lists | partly | `MatchList`, `SearchFilter` |
| match view | partly | `MatchView` |
| the others | not modelled | see section 5 |

The modules meet where the program's parts do: what `ReplayPipeline` promises of `published`
(`DoneMessageNamesMatch`: only a message that names the match says done) is what `UploadPage` takes as its input
(`Messages`); what the page needs and the server does not promise (`BrowserAgreesWithRow`) the page gets by its timer.

## 2. Modules

| module | models | kind |
|---|---|---|
| `ReplayLifecycle` | the declared state machine of a replay (`replay.rb:36-53`) | abstract specification |
| `ReplayPipeline` | `replays#drop`, `s3_drop`, `Replay#process!`, `esdb#callback`, ESDB, Redis | detailed specification |
| `MCReplayPipeline` | constants of the runs | for TLC |
| `ReplayPipelineProofs` | its type invariant and what no interleaving breaks | for TLAPS |
| `ReplayOutcomeProofs` | answered requests; the refinement of `ReplayLifecycle`; what one worker tells the browser | for TLAPS |
| `AccountAuth` | `Account` and its state machine, the settings page's requests, `identity_update`, notices | detailed specification |
| `MCAccountAuth` | constants of the runs | for TLC |
| `AccountAuthProofs` | its type invariant and what no stale copy breaks | for TLAPS |
| `AccountSerialProofs` | what agrees when one worker serves the requests one after the other | for TLAPS |
| `UploadScreen` | what the upload page promises its user (`gg.js:270-273`) | abstract specification |
| `UploadPage` | messages, timers, digest, fade-out and redirect of the upload page | detailed specification |
| `MCUploadPage` | constants of the run | for TLC |
| `UploadPageProofs` | its invariants and the refinement of `UploadScreen` | for TLAPS |
| `SearchFilter` | what the filter of a list is to its user: one value, changed "all at once" (`raceselect.js:49-51`) | abstract specification |
| `MatchList` | the filter of the searchable lists and their requests | detailed specification |
| `MCMatchList` | constants of the run | for TLC |
| `MatchListProofs` | that every digest settles, its invariants and the refinement of `SearchFilter` | for TLAPS |
| `MatchView` | army chart, panels, totals and minimap of a match's page | detailed specification |
| `MCMatchView` | constants of the run | for TLC |
| `MatchViewProofs` | what chart, panels, estimated frame, locations and minimap never do wrong | for TLAPS |

### ReplayPipeline: state and actions against the code

* `state`, `esdb_id`, `progress` are the columns of the table. `esdb_id` is the job id after
  `StoreJobId` and the match id after `Processed`, as `replay.rb:121-124` explains; the two kinds of id
  are never confused (job ids are random, match ids are numbers), so `Tracked` is "holds the job id".
* `upload[u]` is a request to `drop` (or `s3_drop`, which has one file): the file it is at and
  the point of `process!` it has reached. The copy of the row it holds is determined by that point.
  `handler[h]` is a web worker serving a callback, with its copy.
* `job[r]`, `calls[r]`: what ESDB does with a file and the callbacks on the wire. `published[r]`
  is the last message pushed for a replay.

| code | actions |
|---|---|
| `drop` 54-74, `s3_drop` 96-108: `Replay.new`, `save!` | `CreateReplay`, `RejectFile` |
| `process!` 133, the post to ESDB and its answer | `PostToEsdb`, `PostFails`, `ReceiveJobId`, `ReceiveReplay` |
| `process!` 136 | `StoreJobId` |
| `process!` 139, `uploaded!` with `after_uploading` | `Uploaded`, `UploadedRaises` |
| `process!` 142-144, `failure!` with `after_the_fail` | `UploadFailure`, `UploadFailureRaises` |
| `callback` 10-12, 35-37: find the row | `Find`, `FindNothing` |
| `callback` 13-18: progress | `SaveProgress` |
| `callback` 19-31: `processed!` with `after_processing` | `Processed` |
| `callback` 38: `failure!` | `HandlerFailure`, `FailureRefused` |
| `callback` 53: the last push | `PublishAgain` |
| Redis down, worker killed | `HandlerRaises`, `UploadDies`, `HandlerDies` |

What one step is. AASM 3.0.23 (Gemfile.lock) runs an event with a bang, its callbacks and its
save in one database transaction, so an event with its push is one step that commits, is rolled
back because the push raised, or is lost with the worker after the push went out. `update_attribute(s)`
is a transaction of its own. ActiveRecord writes the columns the copy changed, not the row.

What is abstracted. Percentages below 100 are one value; the message text, the file name and the
user play no part in the properties; two callbacks on the wire that are alike are one. Requests refused before
they create anything (`sc2gears` with a bad signature: 403; an unknown kind of request: 406) change no
state and are left out.

### AccountAuth: state and actions against the code

* `table`, `account` are the row (one account; accounts do not meet in this code). `linked` stands for
  `esdb_id`, `authenticated` for `authenticated_at`; the columns that only describe the player are left out.
* `worker[w]` is a web worker serving a request, with the copy of the row it loaded, the JSON of the request,
  what ESDB told it, and the notifications its first push loaded (`ack_all_notifications!` works on those:
  the association is cached in the copy of the user).
* `browser` is the account as the settings page shows it and sends back; `esdb`, `worn` and `calls` are outside.

| code | actions |
|---|---|
| `create` 24-30, `update` 9-16, `destroy` 33-45 | `Create`, `BeginUpdate`, `SaveJson`, `Destroy` |
| `sync_identity!` 71-97 | `Sync`, `SyncFails` |
| `callback` 42-50 (`identity_update`) | `IdentityUpdate` |
| `update_from_esdb!` 104-131 | `Apply` |
| 133-138: `queued! unless queued?`, `authenticated?` | `Queue`, `LeaveAsIs` |
| 140-144: portraits match, `auth!` | `ConfirmPortrait`, `Auth`, `NoEvent` |
| 149-152: `set_expected_portrait!`, `unauth!` | `ExpectPortrait`, `Unauth`, `NoEvent` |
| 145-146, 153-154: `ack_all_notifications!`, `notify` | `Notify` |
| Redis down, worker killed | `PushRaises`, `Dies` |
| the player, ESDB's scraper, the page | `Wear`, `Scrape`, `LoseCall`, `LoadPage`, `AckNotice` |

`update` saves everything the page sends (`attr_protected false`): `state` and `authenticated_at` are among it
(`strip_attributes`, 70-72, takes out only what is computed), so a page that is out of date writes old values back.
`destroy` also resets the primary account, which belongs to the user and is left out;
`destroy_all_matches` changes only ESDB's data.

A worker that dies (`Dies`) may have sent the push of an event, or of the notice, whose transaction is then not committed: the page has
heard of a state the row is not in. `Due` says which event a worker is about to fire, `PushOf` what the page hears of it.

Assumed of ESDB: it answers `sync_identity!` and calls back with an identity that has an id, so that `Apply` always stores one
(`account.rb:106` stores whatever it is). The "empty object" of a first sync (comment at `account.rb:65-67`) is read as an identity that has
not been scraped: it tells nothing but its id, by which the callback that the comment announces finds the account. An answer without an id is not
modelled; after one, no callback could find the account, and `LeftNewIsLinked` would not hold.

### UploadPage: state and actions against the code

* A file is its place in `allreplays`. `state`, `match` and `timer` are `replay.state`, whether `match_id` and
  `ident_ids` are set, and whether `forgetAboutIt` is; `listed` is `creplays`.
* `seen` is what the watch of `replay.state` saw last, `fading` the elements whose `fadeOut` is under way.
* `throttle` is the state of `_.throttle`: no call lately, within the interval, or a call owed at its end.
* `connected` is the push channel. The page subscribes before it connects, so that Juggernaut sends the
  subscription again on every connect (`juggernaut.js:3254-3272`).

| code | actions |
|---|---|
| layout 76-91: `$.extend(replay, data)`, throttled digest | `Hear` |
| a push while nobody is subscribed; `ondisconnect`, `onconnect` | `Miss`, `Disconnect`, `Connect` |
| `setState` 280-291: the 60-second timer | `Forget` |
| `fadey.js:19-32`, `uploads.js:9-19` | `Digest` (begins the fade-out), `Clear` (its end) |
| `uploads.js:21-36`, `urlAfterUploading` | `LeaveWhenEmpty`, `urlAfterUploading` |
| `throttledUploadDigest` 353-361 | `throttledUploadDigest`, `IntervalEnds` |

Details of the code the model follows. A message names a file by its name, and the first of two files of one name
hears all of them (`Find`); the other one leaves by its timer. A message overwrites the match with null as well, so one that
is out of date takes a match away: `told` is the last word, and `MatchIsShown` is about it. `Forget` runs in `$apply`,
and its own call of the throttle, when it digests at once, raises because a digest is in progress; `$apply` catches that
and digests at the end. The comment at `gg.js:270` says that every change of the state resets the timer; the path through
`$.extend` does not, and the promise the comment makes (nobody is left staring at the page) holds nevertheless:
a timer that was set stays set until it fires. The picker of files that filled the list is not in the repository; the model starts where
every file has been given its first state.

### MatchList: state and actions against the code

* Three copies of the filter: `scope` (the widgets), `params` (`$urlFilter.params`) and `url` (`$location.search()`).
  A key deleted from the parameters (`Gone`), one that is absent (`Any`) and a choice taken back (`Null`) differ, as in the code.
* `Pass` is one traversal of the watches in the order Angular 1.1.0 runs them (the root scope first, in each
  scope the one registered first): URL to parameters, parameters to URL and widgets, widgets to parameters, winners. `Digest` repeats it while a watch fires (`Again`), at most
  ten times after the first (`FiveMore`, twice), and `settled` says whether the last one fired none.
* `sorted` is `_order`, what the list of players was sorted by last: a direction and a column (`Orders`). A click on that column turns the
  direction round, one on another column starts over (`Clicked`).
* `timer`, `requests`, `sent`, `shown` are the 300 ms timer, the requests waiting for an answer and the list on the screen.

| code | actions |
|---|---|
| `raceselect.js:40-59` | `SelectRace`, `toggleWinner` |
| `url_filter.js:61-101` | `order` |
| `unpaginate.js:10-22` | `nextPage`, `prevPage` |
| back, forward, links | `Visit` |
| `matchessearch.js:64-94` | `Refresh` |
| `resource.js:28-65` | `Answer`, `Fail` |

Details of the code the model follows, or leaves out. A column is sorted descending first (`_`), against the comment of
`order` in `url_filter.js`. The watch of the URL is called for the URL the filter has just written, too, and reads it back. A
URL written by hand that names both winners keeps both; `Links`, the URLs the user follows, has none, and on each of the two lists only keys that list has
(`LinksAssumption`). The hidden key `identity_id` of a player's page, the replay list (which waits 200 ms instead of 300)
and `toPage`, which no template calls, are left out; the passes that only carry values through isolate scopes are not counted against the limit of ten.

`SearchFilter` is what all this amounts to: `ImplementsSearch` maps its one variable `filter` to the parameters (by `CopiesAgree` the URL and the widgets are the
same), and every event with the whole digest after it to one step. The events differ in what the watches make of them – a visited URL keeps the page it names
although the watch of every widget it changes sets the page to 1; a chosen side takes the other one back by a deleted key that comes round as the default – and requests
and answers are stutters.

What the code does not promise, and no property says: answers that arrive out of order leave the older list on
the screen (`NewestListIsCurrent` is conditional), and `nextPage`, offered by a list that is out of date or exactly fills its
page, may lead to an empty page, which reads "Sorry, we have no matches" (`search.jst.ejs:24`).

### MatchView: state and actions against the code

* `frame`, `frozen`, `lines` are the chart's; `current` is `frame` as of the last digest, which the panels watch.
  `framee` and `seen` are the frame estimated from the mouse and the ranges it is interpolated from.
* `clicked` is the global variable `frame`: `toggle_freeze` assigns it without declaring it, `unfreeze` and the watch of
  `condensed` read it. `raised` remembers whether it was read before a click had assigned it, which is a `ReferenceError`.
* `army`, `gate` are a panel's army (by its frame) and throttle; `armiesAt`, `armies` the frames whose armies the match remembers (from
  the start those of all points of the chart, which `Match#series` asks for to draw it: `match.js:726,814`) and
  the one that is current in it, from which the teams' totals are taken.
* `stored`, `upTo`, `drawn`, `mapGate` are the remembered locations, up to which slice, what the minimap shows, and its throttle.

| code | actions |
|---|---|
| `armychart.js:87-109` | `SetFrame` |
| `armychart.js:50-68` | `MouseMove` |
| `armychart.js:161-183` with `freeze`, `unfreeze` 115-158 | `ToggleFreeze`, `SetFrozen` |
| `armychart.js:404-410` | `VisitHash` |
| `armychart.js:367-398`, `match.js:56-59` (controller) | `ToggleCondensed` |
| any other click that ends in a digest | `ClickElsewhere` |
| `army.js:12-21`, `computeArmiesAt` | `Watched`, `Asked`, `PanelInterval` |
| `matchmap.js:38-60, 135`, `computeLocationsUpTo` | `updateCameras`, `WatchMap`, `MapInterval` |

What the code does around its own promises. Freezing by a second numeric hash before any click calls `unfreeze`, which reads the
undeclared variable and raises after it has reset `frozen`: the chart is not frozen and keeps its line, though
`armychart.js:122` says "unfreeze first, to remove the line". Collapsing a chart frozen by its hash loses the line in the same way, and
after a click elsewhere on the chart it moves the frozen moment to the last click. `LineMarksFrame` therefore promises its line only while
`~raised`. A hash that is a time ("5:00") does nothing: `Sc2.timeToFrame` has no parameter `expansion` (`sc2.js:274-284`) and
raises. No panel asks for the armies of frame 0 (`army.js:15`), where `PanelsAgree` promises nothing. Clicks on the chart and the trailing
calls of a throttle run outside of a digest, so the screen may lag until the next one; the properties are about the model, not the pixels.

Left out: seeking in the video (`theGGYTplayer`), the time bar's width, the series and curves of the charts, the winner, the
note, the tables of `sc2.js` and `paginate.js`, which no template uses.

## 3. Runs

| run | instance | question |
|---|---|---|
| `pipeline_racing` | 1 file, 2 workers for callbacks, every fault | what holds whatever goes wrong |
| `pipeline_late` | 2 files in a request, 2 workers, all faults but early calls and jobs run twice | does the table implement `ReplayLifecycle`; has an answered request disposed of its files |
| `pipeline_calm` | 2 files, 1 worker, calls repeat, fairness | browser agreement, no row stuck at 100 %, every replay ends |
| `pipeline_redis` | 2 files, Redis may be down | finding: a file without a row |
| `pipeline_early` | 1 file, callbacks may overtake `process!` | finding: failed → processing |
| `pipeline_stale_push` | 1 file, 2 workers, no fault | finding: the browser's last message is out of date |
| `account_racing` | 2 workers, 1 save of the page, every fault | what no stale copy and no fault can break |
| `account_serial` | 1 worker, 4 portraits, 2 saves of the page, no fault, fairness | state, authenticated_at and notices agree; a queued account leaves that state |
| `account_new` | 1 worker, Redis may be down | finding: `auth!` is asked for in state new |
| `upload_page` | 3 files, 2 of one name, 5 messages, a channel that fails and comes back, fairness | does the page implement `UploadScreen`, liveness included; are matches shown |
| `match_list` | one race, two columns, links to every page but the first, 3 events | do the circular watches settle and agree; do they implement `SearchFilter`; is the list on the screen the one asked for last |
| `match_view` | 2 panels, 3 points (the last at the end), 3 pixels, 4 slices, 5 events | are chart, panels, totals and minimap at one frame, and is what is remembered right |

Why the bounds are enough. Replays first: the row of a file is touched by the one request that created it and by callbacks of its
own job; files meet only in the loop of `drop`, which two files exercise (an earlier and a later one). The races are
between a request and a callback or between two callbacks: two workers show all pairs, and a third
would only repeat a write of one of them. A worker serves any number of callbacks one after the other, and
`calls` may be refilled without bound, so sequences are not bounded at all. The state spaces are
finite without any constraint. The workers are interchangeable: symmetry is used in the runs
that check safety only.

Accounts: `MaxUpdates` bounds the saves of the page, and with them ESDB's answers, scrapes and callbacks. A request
beside a callback, or two callbacks, are what can race over the one row; a second save (`account_serial`) lets the page come
back after the account is authed. Two portraits are enough for the races; `account_serial` has the code's four, of
which `rand(length - 1)` never picks the last.

Upload page: files meet in the list, in the throttle, and where two have the same name; three files with two of one name have all of it, and
give `urlAfterUploading` a player in two matches, a single match and none. Five messages let one file change its state back and forth while
another one is heard of for the first time. Three names of players are enough for the counts 1 and 2 between which the code decides.

Lists: a winner, a race, a sort order and a page meet in one digest; three events (on any of the start URLs) let a choice, a page and a way back follow each
other in every order, with up to four requests answered in every order. Two columns are enough for a click on the sorted one and on the
other one. Six matches make three full pages, three matches of one race one and a half.

Match view: five events are enough to estimate a frame (two points and two pixels), to go back to an earlier slice after a later one, and to
compute on from a slice that is neither the first nor the last; two panels are what can disagree. The differences have a spot that is taken, left and taken again,
a slice without any, and the point at the end of the match asks for the last slice.

The faults. `Faults` names what the environment may do, so that each run says under which
trouble its properties hold: `redis`, `death`, `repeat`, `loss`, `rerun`, `early`; for accounts also `late`: the page misses a push, which is
also what a request that was sent before a push and is served after it amounts to.

Fairness (`pipeline_calm` and `account_serial`). A request being served goes on (`WF` of its steps), ESDB ends the
jobs and scrapes it queued (`WF`), and a callback on the wire is served in the end (`SF`): unicorn keeps requests in a
first-in first-out backlog, so a busy worker delays a callback, it does not overtake it for ever.
No fairness is assumed of faults, of the browser's requests, or of the choice between an
answer and a failure.

Fairness (`upload_page`). A timer that is set fires, a fade-out ends, an interval of the throttle passes: the browser's `setTimeout` and jQuery's animation
promise that (`WF` of `Forget`, `Clear`, `IntervalEnds`). Nothing is assumed of the server, the connection or the messages: that the
user is not left staring at the page "even if we have bugs or a huge queue on the server side" (`gg.js:272`) is what is checked.
The lists and the match view have no liveness property; their runs assume no fairness.

What the findings mean:

* **Redis down ends the drop.** `failure!` in the rescue clause of `process!` pushes too. It raises again, its own
  change is rolled back, and the exception ends the loop: the other files of the request get no row,
  against the expectation stated in `spec/controllers/replays_controller_spec.rb:20-21`.
* **An early error is overwritten.** `uploaded!` checks the copy in memory. A failed row goes back to
  processing and nobody will end it.
* **A stale last push.** `esdb_controller.rb:53` pushes the copy read at the start; if the last callback was
  served meanwhile the browser ends with "processing" and no match id.

* **`auth!` in state new.** `account.rb:24-26` says it should never happen. `set_expected_portrait!` is saved on its own, the
  event after it is rolled back when its push raises; the next scrape finds the portraits equal in state new, saves
  `authenticated_at`, and `auth!` raises. From then on the account is skipped as authenticated and never becomes authed.

Without the assumptions of `account_serial` its properties are not promised by the code: an old page takes an
authentication back, and two workers may leave a queued account queued or choose two portraits. The hazards say where.

## 4. Proofs

### Replays

`ReplayPipelineProofs` proves for every set of requests, files, workers and every set of faults:

* `TypeCorrect`: `Spec => []TypeOK`.
* `RowsStayLinked`: `Spec => [](DoneLinksMatch /\ ProcessingIsTracked /\ DoneMessageNamesMatch)`.
* `MatchLinkStays`: `Spec => MatchLinkIsPermanent`.
* `ProcessingTracked`, `DoneNamesMatch`: the two other parts of `RowsStayLinked` by themselves.
* `FullMeansDone`: `Spec => []FullProgressMeansDone` under `SteadyWorkers` (Redis is up and no worker dies), for any number of workers.

`ReplayOutcomeProofs` proves, from the same assumptions:

* `AnsweredDisposes`: `Spec => []AnsweredMeansDisposed`.
* `LifecycleImplemented`: `Spec => FollowsLifecycle` under `PatientEsdb`, that is, when no callback comes before
  `process!` is done with the file and no job runs twice. `pipeline_early` shows that this is needed.
* `BrowserAgrees`: `Spec => []BrowserAgreesWithRow` under `PatientEsdb`, `OneWorker` and no death of a worker.
  `pipeline_stale_push` shows that two workers break it.

Assumed: `FaultsAssumption`, `ReplaysAssumption` and `FilesAssumption` (each file of each request is a row of its own), which TLC
evaluates in every run.

The argument. None of the properties is inductive: a handler writes to a row it read some time ago. The invariant
`IInv` says what a copy may still assume. A row without a job id is one whose request has not passed `StoreJobId`, so
no handler holds it (`UntrackedIsNew`, `HandledIsLinked`); a request about to fire `uploaded!` has stored the job id,
or another handler has put the match id over it (`TrackedBeforeUploaded`); a handler about to complete a replay found
it processing, which is after `uploaded!`, and so no `uploaded!` is to come for it (`CompletingIsUploaded`,
`NoUploadedAfterCompleting`) – the reason why a match link, once stored, cannot be reopened by the request even with early
callbacks. The copy a handler publishes says done only if it completed the replay itself (`DoneCopyNamesMatch`).
For each kind of step a lemma states its effect on one replay point by point; the preservation of each group of
conjuncts follows from those lemmas.

`FullMeansDone` needs to know who wrote the 100 %: a worker that goes on to `finish`, or one that has put the match id into the row
(`FullIsFinishing`). The only steps in between that could end such a worker are a push that raises and its death, which `SteadyWorkers` excludes;
a match id, once there, stays (`MatchIdStays`), and a row with a match id is not processing.

An answered request (`DInv`): besides the current file (`CurrentExists`), every earlier file of the loop has a row whose
upload is over or has been rejected (`EarlierDisposed`); callbacks never take a row away.

The refinement (`RInv`): that every write is a transition of the state machine means that the state in the
copy is the state in the row when the event is saved. While a request is at a file no handler holds its row
(`NotHandledYet`, which needs `PatientEsdb`), so its copy is the row (`WaitingIsUploading`, `UnpostedHasNoJob`). Afterwards ESDB
ends a job once, with a match or with an error (`OneOutcome`): a handler that completes a replay and one that fails it never
exist for the same job (`StepMatchesKind`, `CompletingNotFailed`, `FailingNotDone`), and progress callbacks do not write the state.

`BrowserAgrees` (`BInv`): with one worker the copy it holds is the row (`CopyIsCurrent`), so that what it pushes, be it an event or the copy
it read at the start, is what the row says (`Told`); a push that raises takes its change of the row back.

### Accounts

`AccountAuthProofs` proves, for any number of workers and saves, any portraits and any faults (assumed: `AccountFaultsAssumption`,
`PortraitsAssumption`, `MaxUpdatesAssumption`):

* `AccountTypes`: `Spec => []TypeOK`.
* `AskedFirst`: `Spec => []AuthenticatedWasAsked`.
* `LinkedFirst`: `Spec => []LeftNewIsLinked`.

The argument (`AInv`): copies may be out of date, and the page even ahead of the row in its state (a worker that died between a push and its commit),
but none is ahead in the two respects that matter. As long as the row has no expected
portrait, no copy of it (a worker's, a request's JSON, the page) has one, claims to be authenticated or is about to fire `auth!`
(`NoCopyAsked`); as long as it has no `esdb_id`, every copy is new and no worker is past `Apply` (`NoCopyLinked`).
Neither column is ever emptied again, because a save writes only what the copy changed (`SaveColumns`, `SaveSound`).
And both are saved before any event is pushed, so that the page a dying worker leaves behind is no exception (`DiesKeeps`).

`AccountSerialProofs` proves the safety properties of `account_serial` under `Serial` (one worker; no fault but lost callbacks), for any
portraits and any number of saves:

* `AuthedImpliesAuthenticated`, `AuthenticatedImpliesAuthed`, `NoticesFit`: `Spec => []P` for `AuthedIsAuthenticated`,
  `AuthenticatedIsAuthed` and `NoticeFits`.
* `AuthenticationKept`: `Spec => AuthenticationStays`.

The argument (`SInv`): the copy of the request being served, the JSON it carries and the page all are the row (`CopyIsRow`, `JsonIsRow`,
`PageIsRow`; the page may be behind only between the save of `authenticated_at` and `auth!`). So the page saves what is stored, and
every decision is taken on the row. That `auth!` is legal when it is fired (`AuthFollows`) needs `AskedLeavesNew`: an expected portrait is saved before
`unauth!`, and unless that is rolled back an account with one has left state new. `account_new` shows the rollback.

### Upload page

`UploadPageProofs` proves, for any number of files and messages, any names and any players (assumed: `SizeAssumption`, `NamesAssumption`,
`SignedInAssumption`):

* `UploadTypes`: `Spec => []TypeOK`. That `page` is one of `Targets` needs that `urlAfterUploading` returns a player of one of the matches or a match:
  that a set of numbers that is not empty has a smallest one (`MinNat`, from the well-foundedness of `<`), and a finite one a greatest.
* `TimedOrFading`, `UndrawnOwed`, `FinalLeaves`, `MatchShown`: `Spec => []P` for the four safety properties.
* `ScreenImplemented`: `Spec => Screen!Spec`, step by step: `Clear` is the step of the screen, every other action is a stutter.

The argument (`UInv`). `FinalIsLeaving` is not inductive: a digest compares with what it saw last, and does nothing for a final state it has seen. The strengthening
(`SeenFinalFades`) says that a file on the screen that was last seen in a final state is fading out; with `UndrawnIsOwed` a final state is either
seen, and fading, or owed. A file loses its timer only in `Forget`, which digests. For `MatchShown`, the match of a file is set exactly if the last message named one (`ToldIsMatched`).

### Lists

`MatchListProofs` proves, for any races, links, numbers of matches and of events (assumed: `MatchListAssumption`, which keeps the special values apart, and `LinksAssumption`):

* `DigestsSettle`, `CopiesAlwaysAgree`, `AtMostOneWinner`, `PagesFollowClicks`, `NewestAnswerIsCurrent`: `Spec => []P` for `DigestSettles`, `CopiesAgree`,
  `OneWinner`, `ClicksTurnPages` and `NewestListIsCurrent`; `ListTypes`: `Spec => []TypeOK`.
* `SearchImplemented`: `Spec => Search!Spec`, step by step.

The argument. What a digest does is shown without unfolding its eleven passes. A lemma for each watch, then one for each of the three kinds of pass
(`PassParams`: the parameters are not what their watch saw last; `PassWidgets`: a widget is not; `PassUrl`: neither is), say what a pass makes of its record. Two states matter. In `Loaded` everything
but the parameters is the filter `p` that will result, and the URL is about to be read once more; two passes later (`LoadedSettles`) all copies are `p` and no watch
fires (`Settled`), and further passes change nothing (`SettledStays`). A pass in which the parameters' watch fires leads to `Loaded`, at once, or, if a key was deleted or a choice taken back,
after one more in which it comes round as the default (`ParamsSettle`); a widget's change first makes such a change of the parameters (`WidgetsDigest`). So every digest rests after five
passes of the eleven it may have. For each event a lemma then names the `p` it leads to (`VisitFilter`, `PageFilter`, `OrderFilter`, `RaceFilter`, `WinnerFilter`), which
is the step of `SearchFilter`.

The invariant (`ListInv`): between events all copies are one filter with nothing deleted in it (`FilterInv`), which is where the lemmas about events start from, and a sort order in it is the
one `sorted` remembers, so that reading the URL back changes nothing. `NewestListIsCurrent` is not inductive: what holds of the newest answer must hold of the newest request as long as the timer does not run
(`NewestIsCurrent`), and an event that leaves the timer alone has left the filter alone (`EventKeepsInv`).

### Match view

`MatchViewProofs` proves, for any players, points, pixels, differences and numbers of slices and events (assumed: `MatchViewAssumption`):

* `LineMarked`: `Spec => []LineMarksFrame`, which is inductive.
* `PanelsAgreeing`: `Spec => []PanelsAgree`. The invariant says the same of each panel by the state of its throttle: a panel that is not owed a call has the army of the
  last digest's frame, and then so have the totals. A digest may bring two frames, one after the other (`DigestAgrees`), and in each the panels that are open ask while the others
  come to be owed a call (`WatchedAgrees`).
* `EstimateSeen`: `Spec => []EstimateIsSeen`. The part of a range that belongs to a part of another range, rounded down, lies within it (`PartOf`); the two ranges only widen
  (`WidenedRange`), so an earlier estimate stays inside.
* `LocationsTrue`, `MinimapFollowing`: `Spec => []LocationsAreTrue`, `Spec => []MinimapFollows`. The loop of `computeLocationsUpTo` is a function that refers to itself. `Loop` names it,
  and `LoopIs` shows what it is without an induction theorem: the sums of the differences (`LocationsAt`) solve its equation, so there is a solution; and if the one that is chosen
  were wrong at some slice, it would be wrong at a smallest one (`LeastOf`), which is neither the first (the loop starts there from what is remembered) nor a
  later one (`PatchedIs`: the differences of a slice put into the sums up to the slice before it, or into its own a second time, are its own sums). What a slice adds at a spot is the greatest
  change so far (`LocationIs`, `GreatestOf`). The invariant `MapInv` adds that the slice under the mouse is one the match has (`IndexIn`), which follows from `EstimateIsSeen` and
  from the chart having a last point.
* `MatchViewTypes`: `Spec => []TypeOK`, from the invariants above, the chart's own types and that the current armies are remembered ones (`Remembered`).

### Only model-checked

Every safety property that a passing run checks is also a theorem. What stays with TLC:

* Liveness (`ReplaySettles`, `QueuedClears`, `NeverLeftStaring`): liveness under fairness and `ENABLED` are out of the prover's reach.

## 5. Not modelled

Most lines of JavaScript in the repository are third-party code: three versions of Angular with its mocks and scenario runner, jQuery with plug-ins, Highcharts,
Juggernaut with socket.io, select2. They are modelled only where the application's behaviour hangs on them (the digest, the throttle of underscore, the subscriptions
of Juggernaut).

* **Pro subscription.** Every notification of PayPal overwrites the columns. Repeated, delayed or reordered notifications turn a cancelled subscription on
  again, and reloading the page of a cancellation moves its date; the code promises nothing about these, and in order and once the properties are the assignments themselves.
* **Access tokens and sign-in.** Sessions belong to devise and warden, which are not in the repository.
* **Primary account, match notes.** Two statements of one request over one row, without a lock or an index: what one would like to state (the account is the
  user's, one note per match) holds for requests one at a time and fails as soon as two race; the hazards give the lines.
* **HTTP cache.** Its behaviour rests on Varnish's built-in rules and on Rails' and devise's headers; the configuration in the repository says
  that it does not work with the version deployed (`app.development.vcl:4-6`).
* **Hiring leaderboard.** An approximate count in Redis that nothing depends on.
* **Match pages, charts, tables, mail, layout.** No state that outlives a request or a drawing.
