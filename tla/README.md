# dastaanAi: TLA+ specifications

dastaanAi turns a prompt or a document into a narrated audio or video episode. A FastAPI service
(`services/api`) takes requests and writes rows; Celery workers (`services/agent`) write the story with language
models, fan out the media work, assemble the episode and answer side requests; a sidecar on a Mac
(`services/music`) renders the background score one job at a time; the web client follows a story through a
Redis stream and lets the listener fork, edit and export it; the admin console reviews stories and sets what the
workers read. This directory holds models of the parts where concurrency, redelivery, failure and the order of
answers decide what is correct, the TLC configurations that check them, and proofs.

## Inventory

Paths below are relative to `src/`; `agent/`, `api/`, `common/`, `music/` stand for the Python package of each
service, `web/` for `apps/web/src/`.

| Component | State it keeps | Operations | Interacts with | Hard behaviour | What makes it correct |
|---|---|---|---|---|---|
| Plot Hole Hunter (`api/routers/consistency.py`, `agent/tasks.py` 1398-1672) | `consistency_checks` rows: status, run token, active key, start time | request, dispatch, claim, call, finish, fail, retry, wakeup | Celery broker, model provider | at-least-once delivery, leases, two-tab races, lost workers, time limits | one paid call at a time, a finished review is final, every review ends |
| Media fan-out (`agent/tasks.py` 249-1044, `agent/repo.py`) | `media_assets` rows (placeholder or stored), chord counters, job rows | fan_out, tts_line, gen_image, gen_avatar, gen_music, assemble, compose_video | Celery chord, Redis, object store, providers | redelivery, claims left by a crash, a failing member of a chord | nothing is paid twice, the episode has every line, the story leaves `generating` |
| Story lifecycle (`api/routers/stories.py`, `feedback.py`, `agent/tasks.py` 188-201, 1047-1395) | `stories.status`, `current_version_id`, versions, feedback rows | create, regenerate, feedback, interpret, pipeline end and failure | all pipelines of a story | late completions of old branches, redelivered interpreters, crash between commit and dispatch | a branch that was superseded changes nothing, a story does not stay `generating` |
| TTS semaphore (`agent/tasks.py` 249-290) | one Redis counter per story | enter, poll, leave | tts_line tasks of a story | three separate Redis commands per side | at most `TTS_MAX_CONCURRENCY` calls, no slot leaks |
| Music sidecar (`music/main.py`, `store.py`, `agent/music.py`) | SQLite job rows, an in-memory queue, output files | submit, claim, finish, fail, requeue, recover, delete, clean up | gen_music through HTTP | restart between steps, duplicate submits, delete of a running job | one inference at a time, one job for an idempotency key, no lost job |
| Version forking (`common/versions.py`, `contracts/stages.py`) | child version state and its inherited assets | plan_stages, invalidated_dedupe_keys, carry_over_assets | regenerate, interpret_feedback | which assets are stale under each scope | nothing stale is inherited, nothing fresh is redone |
| Agent graph (`agent/graph.py`, `nodes.py`) | `state_json`, job rows | stages 1-7, two branches in parallel | run_pipeline | two branches save whole states | the merged state holds both branches |
| Progress events (`common/events.py`, `api/routers/progress.py`, `apps/web/src/live.ts`) | Redis stream, fan-out counters | open, advance, publish, read, resume | fan-out tasks, browser | counter reset against increments, double counting | the bar never lies about being done |
| Video editor and sharing (`api/routers/video_editor.py`, `share.py`, `agent/tasks.py` 1860-1955) | `video_edits`: manifest, status, object key, share token | create, update, render, share, revoke | render task, object store | edits while a render runs, duplicate renders | a shared cut is the one that was rendered |
| Ingest (`api/routers/ingest.py`, `agent/tasks.py` 2061-2195) | `ingests` status and text | upload, extract, clean, fail | create_story | redelivery after success | a ready document stays ready |
| Analyses: writers' room, cliffhanger, genome (`agent/tasks.py` 2197-2334) | one result row each | request, run, fail | model provider | retries without an idempotency guard | a finished result is not overwritten |
| Exports (`api/routers/exports.py`, `agent/tasks.py` 1679-1858) | export asset rows | request, transcode, download | object store | duplicate requests, stale transcodes | an export matches its master |
| Model gateway and cache (`agent/gateway.py`, `common/cache.py`) | ledger rows, Redis entries, blobs | structured, speech, image, moderate | providers | retries of a paid call | what is paid is recorded once |
| Guards (`api/guards.py`) | ledger and audit counts | rate limit, budget | every mutating request | count then insert | limits hold up to the number of concurrent requests |
| Admin API (`api/routers/admin.py`, `api/analytics.py`) | stories' review columns, roles, audit entries, settings | review, change a role, save a setting, derive a run | stories | flag against a running pipeline | clearing a flag restores the status |
| Studio page (`web/views/Studio.tsx`, `web/api.ts`, `web/live.ts`) | the last answers to four GETs, an overlay folded from the stream, timers | open, receive, poll, refresh, respeak, note | API, Redis stream, browser | answers out of order, replay of the whole stream, dropped streams | the page ends up showing the story as it is |
| Studio forks (`StoryTimeMachine`, `DirectorControls`, `AlternateEndings`) | branch source, its detail, drafts, `busy` | pick a version, branch, direct, choose an ending | `regenerate`, another page | lost answers, versions read while others fork | what is shown is what is branched from; one branch per view |
| Player (`web/components/AudioPlayer.tsx`) | a media element, refs, effects | play, seek, drag, speed, swap of the mix | the studio page, browser events | effects and events in any order around a swap | the listener's position, speed and play state are carried over |
| Admin console (`apps/admin/src/views/`) | lists, the open row, drafts | load, open, decide, poll, save | admin API | lists and details answered in any order, other admins | what is shown is what was saved |

## Plan

What is done, in the order it was done:

1. `ConsistencyLease`: the lease protocol of the Plot Hole Hunter, with `ReviewSlot` as what it promises; its
   safety, its findings and its signals are proved.
2. `MediaFanout`: claims, the chord and its callback under redelivery and failure; that a slot has one
   generator, that what is kept is not paid for again, what a ready story may lack and what the bars show is
   proved.
3. `StoryLifecycle`: status, current version, notes, the administrator's review and the ends of old branches;
   that no fork is lost, a note forks once and a ready story has its episode is proved.
4. `StudioProgress`: the Redis stream, its replay and the page that follows a story through it; that the overlay
   tells the truth is proved.
5. `CutRender` and, on top of it, `CutEditor`: the rows and the pool of the video editor, and the tab that
   edits, saves, exports and shares cuts; that no row claims bytes of another manifest, and that what is called
   exported is what is shown unless a race is lost, is proved. `EditorPreview`: the preview and its trim strip,
   with a proof for every length.
6. `StudioForks`, `EpisodePlayer`, `AnalysisPanels`, composed in `MCStudio` with the preview: the other parts of
   the studio; the Time Machine's two properties and the player's are proved.
7. `ReviewDesk`, `RunsDesk`, `AccountsDesk`, `RuntimeSettings`, `Downloads`, `Ingest`, composed in `MCPages`:
   the admin console, the download panels and the dropzone with their handlers and workers; every invariant of
   theirs that the run checks is proved.

What is left, the most worthwhile first: the music sidecar (job store, worker and client, composed with the
claim of `gen_music`, against an abstract FIFO of jobs); the semaphore of `tts_line` against a counting
semaphore; the carry-over of assets as a function of the parent's rows; the two branches of the agent graph that
save whole states. Proofs worth doing: `FlagKept` of `ReviewDesk` and `AdminRemains` of `AccountsDesk`, stated
beside the checked properties; and, for the cuts, an abstract row (asked, encoded, shared) that `CutRender`
implements.

## Conventions

* A component has a module with its variables, one action per operation or step, `Next`, `Spec` and the
  properties; an `MC` module extends it and names the model values and the symmetry, or composes components that
  share no state and of which one is used at a time; one `.cfg` per question; `<component>_proofs` holds
  theorems and proofs (`CutEditor_proofs` those of `CutRender` too; `Pages_proofs` and `Studio_proofs` those of
  what `MCPages` and `MCStudio` compose). A module that another one extends prefixes its `Next` and `Spec`
  (`PreviewSpec`, `SettingsSpec`).
* One action is one database transaction, one broker operation or one call, with everything the code does in it.
  Where the code reads in one transaction and writes in the next, there are two actions. In the clients, one
  action is what runs without an `await`: a handler up to its request, an answer with the state it sets and the
  effects that follow from it (in `EpisodePlayer` the effects are apart, since events come between).
* A request in flight is a record in a set or a sequence, which the server answers and the client applies in
  steps of their own; unless said otherwise, requests are answered and applied in any order.
* Every environment fault is named. `Faults` (a subset of `FaultKind`), `MaxFaults` or `MaxEvents` say which
  ones an instance commits, so that a run says under which faults a property holds.
* `races` (and `crossed`, `overtaken`, ...) are history variables: they record that the code lost a race which
  nothing in it repairs, at the step where it is lost, so that a property can name it as its exception. Each
  module lists its races with a comment.
* An operator that follows the word "Mutant" in its comment, or is named for what it forgets, is the form some
  definition would have under a plausible bug. It is used nowhere in the specification.
* `CHECK_DEADLOCK FALSE` everywhere: each of these systems really stops, once every request is answered, every
  message acknowledged and nobody asks for anything more.
* Every module states its types (`TypeOK` or a name like it). They are theorems of `ConsistencyLease`,
  `MediaFanout`, `StoryLifecycle`, `CutRender` and `CutEditor`; the proofs about the other modules carry the
  part they need.

## ConsistencyLease (Plot Hole Hunter)

| TLA+ | Code |
|---|---|
| `row[c]` | a `consistency_checks` row: `status`, `active_key` (as `active`, all rows being of one version), `run_token`, `started_at` (as the age of the lease), and whose findings it holds |
| `queue[m]` | copies of each Celery message in the broker, with its retry count and countdown |
| `task[w]` | what a worker is executing of `check_story_consistency` |
| `request[a]` | a `POST /consistency-checks` handler |
| `Lookup`, `Insert`, `Decline`, `Dispatch`, `DispatchError`, `RecordRefusal`, `ApiCrash` | `create_consistency_check`: the look at the newest row, the insert under the unique key, the three answers, the `UPDATE` after a failed dispatch, a crash after the commit |
| `Deliver`, `Load`, `ClaimWins`, `ClaimLoses`, `ClaimCollides` | delivery, the first read, and the conditional `UPDATE` that takes the lease, or loses it, or meets the unique key |
| `Yield` | scheduling a wakeup for the end of the current lease |
| `Succeed`, `Discard`, `CallFails`, `SetupFails`, `LateError` | the model call and the conditional `UPDATE` with its result; an error before, in or after it |
| `RecordFailure`, `FailureUnrecorded`, `Retry`, `Ack` | `_record_consistency_failure`, autoretry, acknowledgement |
| `WorkerLost`, `HardLimitKill`, `Tick` | loss of a process, `task_time_limit`, passing time |

`ReviewSlot` is what the protocol promises: reviews of a version open one at a time, at most one call is in
progress, a review ends once, and with a result only if a call was in progress. `ConsistencyRefinement` maps
rows to phases and the calling tasks to calls.

Runs:

* `consistency_safety`: two rows, two workers, two handlers, a lease of two ticks against a limit of one, one
  retry, one lost worker, and hard limits, setup errors, unrecorded failures and API crashes. One paid call at a
  time, live workers keep their lease, the key marks active rows, finished rows are final, and `ReviewSlot` is
  implemented. Two of each is what the protocol can tell apart: a holder and a contender, a review and its
  successor.
* `consistency_recovery`: a lease as short as the limit, so that live workers *are* superseded; two workers,
  errors after the durable result, and a broker that accepts a message while reporting an error. `RecoveryInit`
  starts either after a review that has ended, with two workers to lose, or with a review that was just
  dispatched, which the next one may follow and collide with, and no worker to lose: both at once are out of
  TLC's reach. The findings still come from the last holder, somebody still knows of every unfinished review,
  every review ends, and a reported failure does not turn into a result. But for the end of every review, which
  is liveness, these are proved.

Fairness: a started task goes on, a committed request goes on to dispatch, a due message is delivered, time
passes. These are weak fairness, of processes that run and of a broker that is a FIFO. `RecoverySpec` adds that
a worker whose calls are attempted again and again is answered at last (strong fairness of `Succeed`). The code
does not bound the number of wakeups, whose retry count starts again each time, so a provider that is down for
ever can keep a review alive for ever when two deliveries hand each other wakeups (`tasks.py:1435`): under
`FairSpec` alone `EventuallySettles` fails with that lasso.

Three limits of the recovery show when a fault is added to an instance:

* `"late_error"` with two rows: an error after the result committed sets a succeeded row back to pending while
  its key is gone (`tasks.py:1524`, against `models.py:202`), so `ActiveKeyMarksActive` fails.
* `"hard_limit"` with `EventuallySettles`: a task killed at its hard limit is acknowledged, and nothing reclaims
  its lease (`celery_app.py:34` against `tasks.py:1403`).
* `"setup_error"` with lost workers: a worker lost while calling, then an error of the redelivered task before
  it can schedule a wakeup (`tasks.py:1418`) uses up the last message, and the review stays `running`.
  `consistency_recovery` therefore leaves setup errors out, and the proof of `SignalKept` does too.

## MediaFanout (media work and assembly)

| TLA+ | Code |
|---|---|
| `asset[s]` | the `media_assets` row of a slot: none, a placeholder with an empty object key, stored |
| `fanout` | the `fan_out` message and the slots it found missing |
| `job[k][s]` | the `tts_line`, `gen_image`, `gen_avatar` or `gen_music` task of a slot in chord `k` |
| `chord[k]` | the chord and its callback (`assemble`, then `compose_video`), with the clips it read |
| `episode`, `story` | the lines of the episode on record, `Story.status` |
| `bar[g]` | the fan-out counters in Redis |
| `paid[s]`, `unheard[s]` | history: how often a provider delivered for the slot, and how many of these deliveries the code did not keep |
| `Expand`, `Launch`, `AckFanout`, `ExpandFails`, `FanoutLost` | `fan_out`: queries and counters, the chord, acknowledgement, failure, redelivery |
| `Find`, `Claim`, `Load` | a media task up to its call: fast path, placeholder insert, `load_state` outside the `try` |
| `Called`, `Repeated`, `Recorded`, `Store` | the provider's delivery, one that timed out on the way back and is asked for again by the gateway's own retry, the rest of the `try` (decoding, ledger, cache), upload and record |
| `Blocked`, `CallFails`, `RecordFails`, `StoreFails`, `JobLost` | moderation; a failure in the `try` before or after the delivery, which releases the placeholder; a failure outside the `try`, which leaves it; redelivery |
| `FindScore`, `NoScore`, `ScoreFails` | `gen_music`, which resumes its placeholder and may end without a score |
| `Join`, `AssembleStart`, `AssembleDone`, `AssembleFails`, `VideoStart`, `VideoDone`, `VideoFails`, `CallbackUnmarked`, `CallbackLost` | the chord body and the video; a callback that fails outside its `try`, or whose handler has no database, marks nothing |

Abstractions: a job's end, its count in the chord and its acknowledgement are one step, and so are a retry's
publication and the acknowledgement of the attempt. The version stays current (StoryLifecycle is about what
happens when it does not). A fork may start with any rows of its parent, placeholders too, since
`carry_over_assets` copies both (`versions.py:219-236`): `Init` allows any value for every slot. Portraits
follow the code path of pictures. ffmpeg is a step that succeeds or fails.

Runs:

* `media_errors`: two lines, a picture, a score, a video in a chain, one retry and one lost worker; transient,
  permanent and moderation failures, failing stores, a failing `fan_out`, failing assemblies, a sidecar that is
  down. One delivery of `fan_out`, from every set of inherited rows. A ready story plays every clip on record,
  and a line is missing only where an orphaned placeholder stands for it (`OnlyOrphansMissing`); when the
  callback is sent the line bar is full, and the picture bar is short by the refused pictures alone, but for a
  report too many of each lost worker (`BarsTell`).
* `media_redelivery`: one line, two chords, two lost workers, which may be that of `fan_out`, with failing
  calls, stores and ledger. One generator per slot (`OneGenerator`); a delivery that the code keeps is the last
  one for its slot (`PaidOnce`); and the story leaves `generating` unless its work ended where nobody watches
  (`SettlesUnlessAbandoned`).
* `media_lost_line`: see the findings. It is why `OnlyOrphansMissing` names its exception.

What the properties do not say is what the code does not do, each of it a step of the model:

* A provider may be paid more than once for a line. The ledger's commit, the duration probe or the decoding may
  fail after the delivery, inside the `try` that then releases the claim (`gateway.py:168-193`, `421`,
  `tasks.py:385-411`), and a call that timed out after its delivery is repeated (`gateway.py:72`, `390`).
  `PaidOnce` counts these apart as `unheard`; what it excludes is a second payment for what is on record.
* A failed line is a ChordError that nobody handles (`tasks.py:706` is "deliberately tolerant", and is never
  reached); a `fan_out` that fails, and a callback that fails outside its `try`, mark nothing either. The story
  stays generating, which `Settles` says and `SettlesUnlessAbandoned` excepts as `Abandoned`.
* A picture refused by moderation releases its claim and returns without advancing the bar (`tasks.py:499`,
  against the docstring of `_report_fanout`), which is the shortfall in `BarsTell`.
* An inherited placeholder is counted as complete (`Expand`, against `tasks.py:213-214`) and as the clip
  (`Find`); nobody generates it again.
* A redelivered `fan_out` builds a second chord, whose assembly may run while the first is generating
  (`tasks.py:912` has one chord "so assembly runs exactly once"). `OnlyOrphansMissing` and `BarsTell` speak of
  stories with one chord (`OneBuilt`): with two, the second restarts the bars, and its assembly leaves a line
  out that the first is still making.

Two lines tell a complete episode from a partial one; two chords and two losses give every overlap of a first
delivery with a redelivery. Fairness is weak fairness of each task, of each callback and of `fan_out`: every
queue has workers, and no task blocks for ever (provider calls have time limits).

## StoryLifecycle (status, versions, notes, branches)

| TLA+ | Code |
|---|---|
| `status`, `current` | `Story.status`, `Story.current_version_id` |
| `number`, `origin` | `StoryVersion.version_number`, `created_from_feedback_id` |
| `lock`, `latest` | the holder of the story row under `FOR UPDATE`, and the greatest number it has read |
| `request[x]` | a `regenerate` or `feedback` handler, or whether an administrator has reviewed |
| `note[n]`, `task[n]` | a `Feedback` row, and its `interpret_feedback` task |
| `branch[v]` | the work of a version: its stages, its media and assembly, and how it ended |
| `episode` | versions with an episode on record |
| `hides`, `decision[a]` | `Story.status_before_flag`; the columns a review is about to write |
| `races` | history: races that have been lost, which properties name as their exceptions |
| `RegenerateLock/Commit/Refused`, `Dispatch`, `DispatchLost` | `regenerate` (and the dispatch of `create_story`) |
| `FeedbackCheck/Commit/Dispatch/DispatchLost` | `submit_feedback` |
| `Flag`, `Unflag`, `ReviewCommit` | the review of `admin.py`: the flag hides the status, clearing it or deciding restores it; the read and the `UPDATE` of the columns that changed are two steps |
| `InterpretLock/Superseded/Commit/Send/Refused/Fails/SendFails/Ack/Lost`, `FailRead`, `FailWrite`, `FailUnrecorded` | `interpret_feedback` and `_fail_feedback`, which swallows its own database error |
| `StagesDone/Fail/Refused`, `WorkUnsent`, `Assembled`, `AssemblyFails`, `MediaBroken`, `BranchRetry/Over/Lost` | `run_pipeline` or the chain of a fork, then its media with `assemble` and `compose_video` as one step; `Refused` and `Broken` end with nobody marking the story |
| `MarkRead`, `MarkWrite` | `_mark_story` |

The error callback of a chain has no action. It is linked as an immutable signature (`tasks.py:1198`), so Celery
calls it without the request, the exception and the traceback that it requires (`tasks.py:1055`): it raises
`TypeError` before it reads the story. A branch that breaks off before its own last `except` ends `unmarked`.

Postgres runs at READ COMMITTED. A transaction with the row under `FOR UPDATE` makes other *writes* of it wait
(`lock = {}` in their guards), and plain reads go on; so an unlocked read and the write that follows are two
steps, and a fork fits between them. A read that leads to the value the row already has writes nothing, because
SQLAlchemy sends no `UPDATE`: hence `MarkRead` goes on to `writing` only if the status changes.
`submit_feedback`'s message names the version that is current after its commit, since the commit expired the
loaded row. The base of a regenerate matters to its plan and not to its number (numbering is chronological for
the story), so it is left out; `expected_current_version_id` can only refuse a request. A version id is taken
from `Version`, which bounds the forks of one behaviour.

Runs:

* `story_requests`: three versions, one retry, one fault (a lost worker or a lost dispatch at any point), and
  two of a note, a regenerate and an administrator who flags and clears the story as often as he likes (`Mixes`;
  all three at once are out of TLC's reach). Labels are unique and the pointer is at the newest version, a note
  forks at most once, ready means an episode of the current version, every note is answered, and the story
  leaves `generating`.
* `story_stale_mark`: see the findings.

Three versions are the first one and a fork by each of the two requesters: enough for a branch, its successor,
and a third that supersedes both. One fault at any of the steps, with retries around it, is what the redelivery
code is written for.

The safety property and the liveness properties have exceptions, which are what the code loses. Three are races,
in `Race`:

* `stale_mark`: a fork commits between `_mark_story`'s read of the pointer (or `_fail_feedback`'s) and its
  write.
* `stale_flag`: a fork commits while a flag, or a review about to be written, remembers that the story was
  ready. A ready story is flagged and regenerated, the new version fails, the flag is cleared: the story is
  ready again, and its current version has no episode (`admin.py:720`).
* `stale_submit`: a note commits onto a story that is no longer the one the handler read (`feedback.py` reads
  without a lock): the story is set to `generating` by a note whose interpreter will find it superseded.

The others are ends that nobody repairs, read off the state. Work that was never sent (`lost`): the process or
the broker fails between the commit of a version or note and its dispatch, and no sweep sends it again. A branch
that ended `unmarked`: a stage that fails outside its last retry, a broken chord, a `fan_out` or `assemble` that
fails outside its `try`. A note whose failure could not be recorded (`unrecorded`). Such a story stays
`generating`, and such a note stays pending; `EventuallySettles` excepts them only while the current version, or
a note about it, is the one concerned.

Fairness: a handler that has committed or holds the lock goes on, each interpreter and each branch is executed.
Nobody has to make a request or review, and nothing has to fail or succeed: retries are bounded by the code.

## StudioProgress (the page that follows a story)

| TLA+ | Code |
|---|---|
| `story` | the story row, its current version with the stage it starts from, its jobs, and the clips made so far |
| `log` | the Redis stream of the story (`common/events.py`) |
| `detail`, `progress` | the last answers applied of `GET /stories/{id}` and `GET /stories/{id}/jobs` |
| `live`, `stream` | the overlay, and the EventSource with the id it has seen (`web/live.ts`, `web/api.ts`) |
| `timers`, `reads` | the timers of `watchProgress`; the refreshes in flight, whose GETs are answered one by one |
| `command`, `awaiting` | the listener's request; the version a respeak was asked from (`seekLine` waits for it) |
| `StartJob`, `FinishUnit`, `FinishJob`, `Complete`, `FailJob`, `MarkFailed`, `Forked`, `Interpret`, `InterpretFails` | the pipeline: a row is written and its event published in one step, which a publish that is lost leaves out (`Publish`) |
| `ReadDetail`, `ReadProgress`, `Apply`, `ReadFails`, `Rewatch`, `Jump` | the refresh of `Studio.tsx`: each GET reads the database when it is answered, all are applied together, and effects start or stop the watch |
| `Open`, `Drop`, `Receive`, `ApplyEvent`, `Fire` | the stream: a new EventSource replays from the start, a dropped one resumes; polling meanwhile; a refresh is coalesced |
| `RespeakLine`, `SendNote`, `Regenerate`, `SubmitFeedback`, `Refuse`, `Accepted`, `Refused` | the listener's two requests and their handlers |

Run `studio_watch`: two stages, one line, one request of the listener (so two versions), one refresh in flight
and one fault of any kind: a failed stage, a dropped stream, a failed read, a lost publish or a refusal. A
replay over a newer version needs two versions; a torn read needs two stages. Once the stream is read to its
end, the overlay tells the truth of what the current version has begun (`OverlayFresh`); the page ends up
current (`EventuallyCurrent`), and a respoken line is jumped to or given up (`RespeakAnswered`). Exceptions, in
`Race`: a refresh whose GETs straddle a change of status (the story is read generating and its jobs ready, the
watch ends, the page stays), one applied after a later one, a failed read after the last event, and a publish
that was lost. A failed story is announced by no event.

Fairness: workers, API and browser go on (weak); the browser opens a dropped stream again for ever and a pending
poll is sent at last (strong, since other reads may keep taking their turn). Nobody has to click.

## CutRender and CutEditor (the video editor)

| TLA+ | Code |
|---|---|
| `row[c]` | a `video_edits` row: manifest, status, the manifest its bytes were made from (`asset`), the digest it records (`hash`), whether a link is in force |
| `queue`, `pool` | messages for the assembly queue by cut and attempt; the one task its process runs, with the manifest it captured |
| `CreateCut`, `DeleteCut`, `ShareCut`, `RevokeShare`, `ShareExpires` | handlers of `api/routers/video_editor.py` and `share.py` that one step describes |
| `UpdateCut`, `RenderCut`, `Commit`, `DispatchRender` | `update_cut` and `render_cut`: the columns they set on the row they have read, the `UPDATE` of those columns, and the message that `render_cut` sends after its commit |
| `BeginMissing`, `BeginCached`, `BeginRender`, `ClaimRender`, `FinishRender`, `FailRender`, `Crash`, `Retried` | `render_video_edit` (`tasks.py:1860`): a cut that is gone (never retried), one whose bytes are right already, the manifest it captures, the commit of `rendering`, the end, failures and loss of the encode |
| `edits`, `selected`, `manifest`, `timer`, `flushable`, `saving`, `polls` | the state of `VideoEditor.tsx`: the list as last answered, the open cut and what is on screen, the one debounce timer, the pending polls |
| `flight` | requests in flight: handled in any order, answered in any order |
| `Change`, `FireSave`, `SelectCut`, `CreateCutClick`, `RemoveCut`, `ExportClick`, `ShareClick`, `UploadClick`, `FirePoll` | what the listener and the timers do |
| `ReadCut`, `CommitCut`, `DispatchCut` | a save or an export at the server: `owned_edit` reads the row without a lock, the handler commits, and an export dispatches; anything may happen in between |
| `CreateCutRow`, `HandlePlain`, `HandleFails` | the other handlers, and a request that fails: before its commit, or an export after it, whose cut is then queued without a message |
| `Saved`, `Created`, `Removed`, `Polled`, `Shared`, `Uploaded`, `Failed` | the answer folded into the list (`SavedUnmerged` is the mutant that forgets to) |

`CutRender` leaves cuts, manifests and the instant of a call arbitrary; `CutEditor` extends it with the tab, so
that every row change has a request behind it. Bytes stand for the manifest they were made from.

Run `cut_editor`: two cuts (a save pending for one while the other is open), two moves of a control, one other
click, two requests in flight and one fault. No row claims bytes of another manifest and a link in force finds
bytes (`ExportHonest`); with nothing pending, what is called exported is what is on screen (`ExportedAsShown`);
every move ends up in its own cut's row (`EventuallySaved`); the panel does not say exporting for ever
(`ExportFollowed`). The exceptions are the editor's races, in `Race`:

* `torn`: a handler's write and a worker's claim, one of them read before the other was committed. A cut is
  exported, moved and moved back; the last save reads *queued*, the worker commits *rendering* with the manifest
  in between, and the save writes the first manifest and *ready* over it: polling stops, and what the panel
  calls exported gets other bytes. Without this exception `ExportedAsShown` is violated, in this run too.
  `ExportHonest` and `ExportFollowed` hold across it.
* `refused`: a request that failed is not repeated; and a broker that fails after the commit of *queued*
  (`video_editor.py:463-467`) leaves a cut that nothing renders, which the panel polls until its deadline.
* `crossed`: a save reads the row before an older one of its cut has written.
* `unsaved`: a save pending for a cut is dropped when a control of another is moved within the debounce.
* `reverted`: an older manifest is put back on screen.
* `overtaken`: an older answer is folded in after a newer one, which brings a deleted cut back into the list.

Fairness: requests are handled and answered, timeouts fire, the pool goes on. `ExportHonest` and
`ExportedAsShown` are proved, for any number of cuts, moves, clicks and requests.

## EditorPreview (the preview and its trim strip)

`trim`, `card`, `mix`, `cutTime`, `playing`, `audio` and `local` are the state and refs of `EditorPreview.tsx`;
`elapsed` is the wall time since its anchor. `Frame` is one call of its `requestAnimationFrame` loop
(`OnTheCard`, `Unaccompanied`, `OnTheMix`: on the title card, without a mix, driven by the mix); `Play`,
`Pause`, `Seek`, `SeekEpisode`, `StartHere`, `EndHere`, `ResetTrim`, `ClipScene`, `SetCard`, `Hide` and `Return`
are the controls, each with the effect that clamps the playhead to the new duration (`Clamped`). Time is counted
in frames and a line lasts one.

`Resumed` is the element as a frame leaves it: one that it finds paused is started from the trim, as when the
card has held it back. An element that comes to its end is paused by the browser, before the next frame or after
it (`Heard`).

Checked in `studio_page` (below) with a mix as long as its lines, which is what assembly makes of them
(`assembly.py:109-123`, and the timeline of `editing.py`): `FrameInCut` (and proved), that what is on screen is
in the cut, and `PlayEnds`, that a preview left alone comes to its end unless its cut plays to the end of the
mix (`PlaysOut`). An untrimmed cut does: the element has paused at its end, the frame takes it for one to be
started and rewinds it (`EditorPreview.tsx:148-151`), so the preview may begin again as often as the pause comes
first.

## StudioForks (branches, directions, endings)

| TLA+ | Code |
|---|---|
| `story` | the scripts of the versions, the last one current, and the status |
| `detail`, `base`, `baseDetail`, `loading` | `Studio.tsx`: the current version as last read, `baseVersionId`, the version read for the Time Machine, the read in flight |
| `form`, `draft` | the director controls' scope and target; a decision written in the Time Machine |
| `requests` | requests to fork; `held` says whether the panel holds `busy` |
| `SelectBaseVersion`, `VersionRead`, `VersionLost` | the history list and its read |
| `RespeakLine`, `SubmitControls`, `ChooseEnding`, `SubmitBranch` | the four panels |
| `Regenerate`, `Refuse`, `ForkElsewhere`, `Finish` | `regenerate` with the current version it expects, another page's forks, the pipeline's end |
| `Accepted`, `Refused`, `Refresh`, `Watch` | the answers and what the page does with them |

A fork may be accepted and its answer lost; the draft is kept and may be sent again. A refresh is read and
applied in one step here (`StudioProgress` has its reads apart). `RightTimeline` and `OneBranchPerView` are
checked in `studio_page`, with three versions, one fork made elsewhere and one lost answer, and proved.
`studio_vanished` is a finding.

## EpisodePlayer (the player)

`el` is the media element (time, rate, paused, loading or ready), `mix` and `clips` the props the player was
given, `effects` the React effects the last commit has left to run, and the rest its refs and state
(`AudioPlayer.tsx`). `NewClips` and `NewMix` are a revision that arrives; `RunEffects` runs the pending effects
(`RunEffectsForgetting` is the mutant that loses the position); `Metadata`, `Tick` and `Rewound` are events of
the element, of which the `timeupdate` at zero that follows a load may come at any moment; `Button`, `Speed`,
`PointerDown`, `Drag`, `CommitScrub` and `SeekLine` are the listener.

`CarriedOver` is checked in `studio_page` with two swaps of the mix and three moves over three lines, and
proved: the settled element is where the listener was or asked to be, at their speed, and plays if the button
says so. Exceptions: a second swap before the first was settled (`swapped_twice`), the rewind event read between
the commit and its effects (`rewound`), a browser that refuses to play.

## AnalysisPanels (writers' room, cliffhanger, genome, plot holes)

`jobs` are the rows of a story with what the queue has of each; `known` is what the open panel has heard;
`reads` are lists in flight. `Accept`, `AcceptUnsent`, `AcceptExisting` and `Refuse` are the handlers (only the
plot hole hunter answers with a review that is under way, only it records a dispatch that failed); `Begin`,
`Finish`, `Fail`, `Die` and `Redeliver` the task; `Click`, `Fire`, `Answer`, `Apply`, `ReadFails` and `Revisit`
the panel. The four panels are records that say how each of them differs (what it polls, what it may order while
one is under way).

`EventuallyShown` in `studio_page`, with two rows, one of which may come from another tab, two lists in flight
and one fault: a row the panel started is shown as it ended. Exceptions: a list older than the click arrives
last and ends the interval (`stale`), a list that shows the end of an attempt which is retried (`early`), a
finished row that is delivered again (`rerun`: these tasks have no guard), a failed list while no interval runs,
and a task that was lost with its message (`Stranded`). One fault against two attempts means that a row started
here is retried and not exhausted; one that was there before may have failed for good.

## Run `studio_page`

`MCStudio` composes the four modules above; they share no state, one is used (`open`), and the others stay as
they are, so that one run explores all of them with their fairness: the preview's frames are drawn, the server
answers, timers fire, tasks that are queued are run.

## ReviewDesk (editorial review)

`story[s]` is a row with its review columns (`flagged`, `review`, and `before`, what a flag has hidden),
`review` and `other` a decision in flight at this desk and at another one, `queue` and `detail` what the desk
shows, `lists` and `opens` its GETs. `ReviewStory` and `ReviewElsewhere` apply a decision as
`api/routers/admin.py` does: read, check, and write back the columns that changed, without a lock, so that
another writer may come between (`Read`, `Written`). `Regenerate` and `MarkStory` are the owner and the
pipeline. `Load`, `ApplyList`, `OpenStory`, `ApplyOpen`, `BackToQueue`, `SaveReview`, `Decided`, `ShownAgain`
and `Refused` are `StoriesTab.tsx`.

`ShownAsSaved` (run `pages`, and proved): with nothing in flight, queue and page show this desk's last decision
or a later one, unless an older answer came last (`overtaken`: a queue asked for before the decision, or a page
answered after *Back*). `FlagKept` is stated with it and not part of a run: outside of decisions handled at the
same time, clearing a flag gives the review back.

## RunsDesk (runs and spend)

`job[r]` is how far the jobs of a version are; `DeriveStatus` is `_derive_status` (`api/analytics.py`).
`LoadRuns`, `LoadRunDetail`, `PollRuns`, `PollRun`, `OpenRuns`, `OpenSpend`, `Refresh`, `SetStatusFilter`,
`OpenRun`, `Back` and `SetAutoRefresh` are `RunsTab.tsx` and `App.tsx`; `Serve` and `Answer` the API and the
answers, in any order. `RunFollowed` (run `pages`): a run shown at work is followed until it shows an end,
unless it is closed or paused. Fairness: the worker, the API and the ten-second timers.

## AccountsDesk (accounts and audit trail)

`changes` are role changes, which are checked (`SetRole`) and written (`CommitRole`, `RefuseRole`) in two steps,
with an entry of `trail`; `ChangeElsewhere` is another admin; the rest is `UsersTab.tsx` and `AuditTab.tsx`.
`AuditTells` (run `pages`, and proved): the entries about an account follow from one another up to the role it
has (`Follows`), unless two changes were handled at the same time. `AdminRemains`, stated with it, is
`NoLockout` under the same exception.

## RuntimeSettings (settings)

`stored` is `admin_settings`; `puts` and `loads` are the saves and lists in flight; `rows`, `draft` and
`advanced` are the list, the forms and the advanced editor of `SettingsTab.tsx`; `worker` is a job with the
settings it began with and those its last call resolved (`agent/gateway.py`). `RowsTold` (run `pages`, and
proved): what is listed as saved is what the workers read, for every setting that was not saved elsewhere, by
two requests at a time or across a list (`crossed`), nor by a request whose answer was lost.

## Downloads (episode, video and score)

`master` and `converted` say per version which version a master and its conversion were made for; `Inherited` is
what a fork carries over (`common/versions.py`; `InheritedAll` is the mutant). `Convert`, `Begin`, `Finish`,
`Fail` are `api/routers/exports.py` and the task, which leaves no row when it fails; `Download`, `Accepted`,
`Poll`, `Ready`, `Polled`, `Failed`, `Reopen` the three panels, whose pending chains go on when the panel is
closed and opened again. `RightFile` (proved) and `ClickAnswered` (run `pages`), over one regeneration: nothing
is handed over on a page that was left; an episode or a video comes from the master of the version that offers
it, a score from that version's or an earlier one's (`Sources`: the conversions of a score are carried over,
which `RightScore` below denies and the code does); and a click is answered, if only by the deadline. Fairness:
requests are answered and time passes; no conversion has to succeed.

## Ingest (documents)

`uploads[i]` is an ingest row with what the queue has of its task (`Extract`, `Clean`, `Ready`, `Fail`, `Die`);
`job`, `upload`, `error` and `chains` are `UploadDropzone.tsx`: the row shown, the request, timer and read that
follow it; `text` and `form` are the form around it (`Compose.tsx`). `NeverStuck` (run `pages`, and proved): a
dropzone that is closed for a file is followed by exactly one chain, of the file it shows, or offers a way out.

## Run `pages`

`MCPages` composes these six modules like `MCStudio`: one page is open. Two clicks, or three for runs and
accounts; two requests in flight, so that two answers cross; one event behind the page's back (another admin's
decision or save, a regeneration, a failed request). With two clicks a decision crosses a list, a save crosses a
save, and a download crosses a closed panel; the third click is *Back* after opening.

## Findings

Each is a run that violates what a comment of the repository says.

| Run | Source | What happens |
|---|---|---|
| `media_lost_line` | `tasks.py:349` | a lost worker's placeholder counts as the clip; the story is ready without the line |
| `story_stale_mark` | `tasks.py:198` | a branch marks a story ready on a pointer that has moved since |
| `studio_vanished` | `Studio.tsx:121` | after any fork but a branch, the Time Machine's source is a version that was never read, and the panel is gone until the page is reloaded |

Other statements of the repository that the models contradict. Each is a definition beside the checked
properties, in no run; give it to TLC as `INVARIANT` (or `PROPERTY`, for `SeekExact`) of the run that has its
module; the two of `ReviewDesk` need `ReviewDesk` alone, with three clicks and three events.

| Definition | Statement | What the code does |
|---|---|---|
| `StudioProgress!OverlayNewer` | "the overlay is always the newer of the two" (`events.py:22-23`; also `Studio.tsx:137-138`) | a new EventSource replays earlier versions, whose overlay hides a newer base until the events of the new one come |
| `CutEditor!ExportWaits` | "True while there are unsaved manifest changes" (`EditorExport.tsx:29-30`) | the flag is raised by the move, and lowered by the answer to an earlier save while a later one waits for its debounce (`VideoEditor.tsx:111`) |
| `EditorPreview!TrimOrdered` | "trim end_ms must be greater than start_ms" (`contracts/editing.py:150`) | *End here* before the start and *Start here* after the end make a trim the API refuses |
| `StudioForks!NoCompetingForks` | "preventing competing forks" (`AlternateEndings.tsx:61`) | the director controls keep their flag to themselves, so an ending can be chosen beside them; the API refuses the second |
| `EpisodePlayer!SeekExact` | "so seek math stays accurate during a regen" (`Studio.tsx:81-82`) | the clips merged in are of the next mix; a line is sought where it will start, in a mix where it starts elsewhere |
| `Downloads!RightScore` | "must never expose a parent's mix, video, or downloaded transcode" (`versions.py:31-32`) | the conversions of a score are carried over, also to a child whose score is made anew |
| `MediaFanout!Settles` | "Deliberately tolerant: if some lines failed every retry, the episode is built from the ones that succeeded" (`tasks.py:706-707`) | a failed member turns the callback into a ChordError (`Join`), and nobody builds or marks anything |
| `ReviewDesk!ReadyIsComplete` | "Never claim readiness without a complete, verifiable current version" (`admin.py:720`) | a flag hides the status of its moment; cleared after a regenerate, it gives *ready* back to an unfinished version |
| `ReviewDesk!PanelWhole` | the open story is the one decided on | two stories opened in a row, and a decision before both are answered, leave the row of one over the script of the other |
| `RuntimeSettings!JobKeepsSettings` | "Existing jobs keep the settings they started with" (`SettingsTab.tsx:248-249`) | every call resolves its model anew (`gateway.py:149-163`) |
| `RuntimeSettings!DraftTold` | a form shows what is stored | a save in the advanced editor does not reach the form, which sends the old value when it is saved |
| `RunsDesk!RunShown` | a run that is shown to have succeeded is over | the jobs of later stages do not exist yet when the earlier ones have succeeded (`analytics.py:42-58`) |
| `AccountsDesk!NoLockout` | an admin remains | two admins who demote each other both pass their check |

Others are contradicted by steps of the models, which the properties name as exceptions or leave room for:

| Step | Statement | What the code does |
|---|---|---|
| `MediaFanout!FanoutLost` | "so assembly runs exactly once, after both media kinds finish" (`tasks.py:912-913`) | a redelivered `fan_out` builds a second chord with a callback of its own |
| `MediaFanout!Blocked` | "Called on every path that settles a line or a scene" (`tasks.py:223`) | a picture that moderation refuses returns without a report (`tasks.py:499`) |
| `MediaFanout!Expand` | "everything else `total` covers is an asset this version inherited and is therefore already complete" (`tasks.py:213-214`) | an inherited row may be a placeholder |
| `StoryLifecycle!StagesRefused`, `MediaFanout!ExpandFails` | "link_error callback: mark the story FAILED when any chained task fails" (`tasks.py:1048`) | the callback is called without the arguments it requires and never runs |
| `StoryLifecycle!Unflag` | "Never claim readiness without a complete, verifiable current version" (`admin.py:719-720`) | that is looked at only when the flag has hidden nothing but a flag; otherwise the hidden status is restored over whatever version is current |
| `CutEditor!Torn` | "but the editor now knows it is behind" (`video_editor.py:375`) | a save that crosses the worker's claim leaves *ready* over bytes that are about to be replaced |

## What is proved

By TLAPS, for every value of the constants that satisfies the assumption the module states about them (its
`ASSUME`: bounds are natural numbers, there is a first version, a line to tell, a cut to make, a mix to play,
and the manifest of a new cut is one). The theorems of `Pages_proofs` and `Studio_proofs` are about the
composition (`PagesSpec`, `StudioSpec`) or the one module it takes in whole (`Ingest`'s `Spec`, `SettingsSpec`,
`PreviewSpec`).

| Theorem | States | Further assumptions |
|---|---|---|
| `ConsistencyLease_proofs!TypeCorrect` | `TypeOK` | none |
| `ConsistencyLease_proofs!KeyMarksActive` | `ActiveKeyMarksActive` | `NoLateFaults` |
| `ConsistencyLease_proofs!FinishedForGood` | `TerminalIsFinal` | `NoLateFaults` |
| `ConsistencyLease_proofs!LiveWorkerKeepsLease` | `NeverSuperseded` | `NoLateFaults`, `HardLimit < Lease` |
| `ConsistencyLease_proofs!OnePaidCall` | `OneCaller` | the same |
| `ConsistencyLease_proofs!Implements` | `Spec` implements `ReviewSlot` | the same |
| `ConsistencyLease_proofs!FindingsOfLastLease` | `FindingsFromLease` | none |
| `ConsistencyLease_proofs!FailureStands` | `FailureNotOverwritten` | none |
| `ConsistencyLease_proofs!SignalsKept` | `SignalKept` | `SignalledFaults` |
| `MediaFanout_proofs!TypeCorrect` | `TypeOK` | none |
| `MediaFanout_proofs!SingleGenerator` | `OneGenerator` | none |
| `MediaFanout_proofs!NeverPaidAgain` | `PaidOnce` | none |
| `MediaFanout_proofs!ReadyButOrphans` | `OnlyOrphansMissing` | none |
| `MediaFanout_proofs!BarsToldRight` | `BarsTell` | none |
| `StoryLifecycle_proofs!TypeCorrect` | `TypeOK` | none |
| `StoryLifecycle_proofs!NoForkLost` | `CurrentIsNewest` | none |
| `StoryLifecycle_proofs!OneFork` | `NoteForksOnce` | none |
| `StoryLifecycle_proofs!ReadyHasEpisode` | `ReadyIsCurrent` | none |
| `StudioProgress_proofs!OverlayTrue` | `OverlayFresh` | none |
| `CutEditor_proofs!TypeCorrect` | `TypeOK` of `CutRender` | none |
| `CutEditor_proofs!Honest` | `ExportHonest`, of `CutRender` alone | none |
| `CutEditor_proofs!EditorTypeCorrect` | `EditorTypeOK` | none |
| `CutEditor_proofs!EditorHonest` | `ExportHonest`, with the tab | none |
| `CutEditor_proofs!ShownExported` | `ExportedAsShown` | none |
| `Studio_proofs!AlwaysInCut` | `FrameInCut` | none |
| `Studio_proofs!ListenerKept` | `CarriedOver` | none |
| `StudioForks_proofs!TimelineRight` | `RightTimeline` | none |
| `StudioForks_proofs!OneBranch` | `OneBranchPerView` | none |
| `Pages_proofs!OpensAgain` | `NeverStuck` | none |
| `Pages_proofs!RowsRight` | `RowsTold` | none |
| `Pages_proofs!HandsOverRight` | `RightFile` | none |
| `Pages_proofs!TrailTells` | `AuditTells` | none |
| `Pages_proofs!DecisionShown` | `ShownAsSaved` | none |

`NoLateFaults` excludes an error after the durable result, with which the first property fails, and a broker
that keeps a message it has refused: the handler then writes FAILED over whatever the row holds
(`consistency.py:224`), and the worker that got the message may write it once more. The lease of the code is
longer than its task limit (20 minutes, `tasks.py:1406`, against 15, `celery_app.py:34`); `consistency_recovery`
is the instance in which it is not.

*ConsistencyLease.* `ActiveKeyMarksActive` needs to know who may still write a row. `TaskInv` relates the step
of a task to what it has drawn and how long it has been running; `HolderInv` says that a row bearing the token
of a task which may still write it is running; `QuietInv` that nothing is on its way to a row that is absent or
not yet dispatched; `RowInv` adds the key and that one row at most is active. From these follow the key and the
finality. `LeaseInv` says that a calling worker holds its row: running, under its token, and no older than the
task has been running. With `HardLimit < Lease` that row is not stale, so nobody else's claim succeeds; since
one row is active, there is one call. The refinement uses the same facts (`FullInv`): a claim maps to
`StartCall`, a result to `Publish`, and every other step to an opening, an ending or a stutter.

That the findings are of the last holder and that a recorded failure stays hold under every fault, with any
lease. `SignalKept` says that an unfinished review has a message or a worker that will go on with it; it is
proved for `SignalledFaults`: no kill at the hard limit, no error before the claim, no failure that cannot be
recorded, no API that dies before it dispatched. Each of these can take the last signal of a review away, as the
limits above tell of the first two; lost workers, errors after the durable result, a broker that keeps what it
refused and a lease shorter than the task are all allowed. What makes it inductive (`SignalInv`) is a third
source of signals, the request that has inserted a row and not dispatched it yet (`Asked`), next to messages
(`Named`) and to workers that have the row in hand in a state from which each next step leaves a message or ends
the review (`Attends`). One row is active at a time (`OneActive`), and a running row has the key
(`RunningActive`), so a claim that meets the key of another row was for a pending one, and the failure that
follows is recorded in it or retried.

*MediaFanout.* `PaidOnce` alone is not inductive: `Called` increments the count of whatever slot it finds. The
strengthening (`Protocol`) says that a task past its claim holds a placeholder (`HoldsClaim`), that there is one
such task for a slot (`OneGenerator`), and that where no row is, and where the call is still to be made, nothing
was paid that has been kept (`NothingKept`). The unique key on `media_assets` does the work: a claim succeeds
when the slot is empty, which by `HoldsClaim` means that nobody is generating it. A claim is released only by a
failure inside the `try`, and one that comes after the delivery counts it as unheard; a slot whose payment was
lost with its worker stays claimed, so it is not paid for again; the price is `media_lost_line`.

`OnlyOrphansMissing` follows the lines through the pipeline of one delivery of `fan_out`. `Chords` says that a
chord which is not built has no tasks, and one that is past its body has none left to run; `Rows` that a line
which `fan_out` passed over, or whose task ended well, has a row; `Episode` that the clips being composed, and
the episode of a ready story, are those on record. So a line that is missing has a row that is not stored and
that nobody fills: an orphan. No assumption on faults is made, nor on the rows a fork inherits. `BarsTell`
counts: a bar shows the slots of its stage that `fan_out` passed over or that have settled with a row (`Bars`),
and up to one report more for each lost worker; when the callback is sent, only the refused pictures are left.

*StoryLifecycle.* `CurrentIsNewest` and `NoteForksOnce` are proved together with what each holder of the lock
knows (`Protocol`): a holder has read the greatest number of the moment (`Read`), and its note's version was
current when compared (`Compared`); a note that has been sent or has forked names versions that exist (`Known`,
`Sent`), and once it has forked, the version its message names is never current again (`Superseded`), because
the pointer only moves to new ids with greater numbers. A redelivered interpreter therefore fails its
comparison, however often it runs.

`ReadyIsCurrent` is about every writer of the status. A branch marks a story ready with its episode on record
(`MarkedReady`), and who is about to write has read a pointer that still holds (`WritesCurrent`,
`RestoresCurrent`), for a fork that commits in between is the race `stale_mark`. An interpreter that gives up
restores *ready*; the note's version has been shown, so it has an episode (`NotesOnEpisodes`). And a review
gives back what a flag has hidden: as long as a flag, or a review about to be written, holds *ready*, the
current version has its episode (`HiddenShown`), for a fork meanwhile is the race `stale_flag`; a flag that has
hidden nothing but a flag looks the episode up.

*StudioProgress.* Each step of the server appends at most one event, so the log tells the jobs (`StagesLogged`,
`LinesLogged`: of the events about a stage that has begun, the last one tells its status). The overlay is right,
or an event it has not read will put it right (`StagesSeen`, `LinesSeen`), and it says nothing that is not in
the log (`FromLog`), which is why a new EventSource, reading from the start, makes good what it overwrites. All
of that until a publish is lost, from which nothing recovers.

*CutRender.* With the types, `ExportHonest` is inductive: the task in the pool carries the manifest it captured,
so what it records with its bytes is what they were made from, whatever the row asks for by then; and a row
gives up its bytes only for those of a later task, so a link in force keeps finding some.

*CutEditor.* The tab's handlers make the row changes of `CutRender`, so its theorems carry over
(`EditorHonest`). `ExportedAsShown` relates four places: the screen, the timer, the requests and the rows. The
types, the honesty of the rows and what requests past their read carry (`Pending`) hold whatever is lost. The
rest holds until a race is lost. `Structure`: one timer, which keeps its flag up (`OneTimer`); a listed cut is
open while one exists (`OpenListed`); a cut that is not listed is gone, or is known to the one request that has
made it (`OnlyListedNamed`, `CreatedTold`); an answer that is not stale tells its row (`AnswersTell`); and what
a save or an export has decided still fits the row it is about to be written to (`InTurn`, which a claim in
between would break: that is `torn`). `NothingLost`: the listener's last manifest of a cut is in the timer, or
else in the newest save that has not been committed, or else in its row (`Carried`), and the list tells the row
unless the answer to a save will (`ListTells`). With no request and no timer left, screen, list and row are then
the same manifest, and by `EncodingShown` the bytes are its. `Follows` and `Remains` say how a step renumbers
the requests, which spares each case the arithmetic.

*EditorPreview.* `FrameInCut` speaks of the episode; what the actions keep is that the playhead is within the
cut (`Within`), as long as the trim is not inverted. The effect on the duration clamps the playhead after each
change of trim or card, a seek is clamped before, and a frame stops at the end of the cut.

*StudioForks.* Only the current version is ever rewritten, and only while it is generated. So what was read of a
version is right for good if it was read of an older one or of one whose pipeline had ended (`PageTrue`,
`BaseTrue`); and while a branch is on its way it holds the Time Machine, with no version being read (`Held`), so
an answer that comes late cannot show the scenes of one version under another.

*EpisodePlayer.* A settled element (`el.ready`) has neither a swap to run nor a position to restore (`Loading`),
and then it is at the listener's speed (`AtSpeed`) and place (`PlaceKept`). While it is not, the place is in the
position on screen until the swap's effect has run, in what is pending after it; and an element that plays
behind the button's back has its reason in one of the two (`Resumes`). A second swap before the first is
settled, and a rewind event read between a commit and its effects, lose the place (`PlaceLost`); a browser that
refuses to play loses the other (`Silenced`).

*Ingest.* `NeverStuck` is strengthened by what a chain knows: a request is of the upload under way
(`Uploading`), a later one of the row that is shown, which is not settled (`Following`); with no chain there is
an error or the file has ended (`GivenUp`); and a ready row has its text (`TextReady`), without which the last
answer would land nothing and leave the dropzone closed.

*RuntimeSettings.* A setting that nobody else touched has one save under way at most and no list beside it
(`Alone`); a list that is answered, and a save that is, tell what is stored (`Answers`); and what is listed is
stored unless a save's answer is still to come (`Listed`). A step that would break `Alone` is one the history
calls crossed.

*Downloads.* What makes the file right is that nothing is converted for a version that has no master yet, that a
version has one master for good (`Unmade`, `Fixed`), and that a fork carries over no conversion but a score's:
so a conversion is of a master in its version's `Sources` (`RightConverted`), those sources stay
(`SourcesStay`), and every row listed, answered or handed over tells one of them, however old it is
(`RightHeld`). Whatever is handed over was asked for on the page that is open (`OnPage`).

*AccountsDesk.* `AuditTells` is stated by `Follows`, entry by entry and up to the role, so that appending one
keeps it. A change that has been checked and not written starts from the account's role, and is the only one
(`OneHandled`); two at a time are what the history calls together.

*ReviewDesk.* Rows are stamped as they change, and stamps only grow (`StampsGrow`): a decision's answer is no
newer than the row and no older than what this desk decided last. The queue is never behind the desk's last
decision, and the open story is not unless its answer is about to be shown (`NotBehind`), as long as no older
answer was applied last. Nothing is decided before the queue has been read (`QueueFirst`).

Only model-checked: liveness (`EventuallySettles`, `SettlesUnlessAbandoned`, `NoteAnswered`,
`EventuallyCurrent`, `RespeakAnswered`, `EventuallySaved`, `ExportFollowed`, `PlayEnds`, `EventuallyShown`,
`RunFollowed`, `ClickAnswered`), which TLAPS does not prove here. Every invariant and action property of a
passing run is a theorem, under the faults named in the table.

## What is not modelled

* The music sidecar: `MediaFanout` treats a submit under the same key as the same job, and a score that cannot
  be had as no score. Its hazards (a full queue that answers an idempotency key with its failure for ever, a job
  deleted while it runs) are listed with no property.
* The agent graph: a stage is one step; two parallel branches that each save a whole state are not seen.
* The carry-over of assets as a function of the parent's rows: `StudioProgress` has the stages a child keeps,
  `Downloads` the renderings it inherits.
* The model gateway's cache, and how often it repeats a call: `MediaFanout` has a delivery, its ledger entry and
  the rest of the `try` as steps, and bounds deliveries that are repeated (`MaxRepeats`); which model a call
  resolves is in `RuntimeSettings`.
* The TTS semaphore, deletion of a story, a task killed at its hard limit under a branch of `StoryLifecycle`.
* Leaving the video editor within its debounce, which loses the last move, and a render that is retried after
  the panel has read its failure, which nothing follows; what ffmpeg draws; the bytes of an upload.
* Web navigation and signing in (`App.tsx` drops the place a URL asked for when its first bootstrap fails,
  although `App.tsx:20-22` keeps it for "the first successful bootstrap"), the library, covers, search boxes,
  charts.
* Soft guards (rate limits and budgets, `api/guards.py`) count before they insert, by design: concurrent
  requests may pass together.
* What the models write (prompts, findings, pictures, audio), ffmpeg graphs, OCR, casting, wording, tracing,
  accounts and media serving: no protocol, or data no property tells apart.
