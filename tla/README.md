# Resurrección: a TLA+ verification project

Resurrección runs market research on Kindle books as long, unattended *sessions*: a
language model drives a browser through a nine-phase methodology, deterministic code
verifies what it proposes, and the final report is written when every phase is complete.
A session lasts hours, so the code has to survive restarts, pauses, cancellations,
refused transitions, exhausted budgets and a model that changes its mind. This directory
models those parts in TLA+, model-checks them with TLC and proves their central
invariants with TLAPS.

Paths are relative to the repository's root; `research_runner.py` is in `src/app/`.

## 1. The system

One Python process (FastAPI, one asyncio event loop) with an SQLite file and a web client.
Handlers and runners are coroutines of the same loop: they interleave only at `await`.

| Component | State it keeps | Operations | What makes it hard | What makes it correct |
|---|---|---|---|---|
| Session lifecycle (`sessions.py`, `routes/sessions.py`, `runner_registry.py`, `jobs.py`, `agent.py`) | rows of sessions, jobs, agent states; tasks in memory | create, start, pause, resume, cancel, retry; spawn and done callback | routes write rows while a runner is parked at an await | no two runners of a session; rows agree with runners; final states stay |
| Autonomy (`autonomy.py`, `recovery.py`, `main.py`) | checkpoints `paused:*`, resume budget | boot recovery, orphan reconciliation, sign-in resume | a crash between any two writes; two recoveries over the same rows | nothing orphaned, nothing finished is redone |
| Methodology (`research_runner.py`, `methodology.py`) | checkpoints `phase_output:*`, `phase_progress:*`, `phase_goto(s)`, `focus_pivots`, `target_refills`, `post_p8` | phases, iterations, commits, switches, pivots, refills | a run stops between any two durable writes and must continue from what is there | no phase skipped or redone; nothing unverified is reported; it ends |
| Candidate pipeline (`filters.py`, `verification.py`, `claims.py`, `quality_gates.py`, `report_validation.py`, `research_data.py`) | rows of candidates, claims, rulings, dossiers | phase effects, verdicts, filters, audit, gates | the model's verdicts and the engine's meet in one status column, and rows are written one by one | only what the engine passed on captured pages is in a final report; no niche is lost |
| Discovery walkers (`census.py`, `frontier.py`, `adjacency.py`, `whitespace.py`, `market_memory.py`) | checkpoints of the two walks, the market memory | walk, mine, measure a neighbour, harvest | stopped in the middle, resumed by another runner; a memory several sessions write | a partial map is never taken for the whole; nothing walked or listed twice |
| Owner messages, prompts, naming (`owner_messages.py`, `prompts.py`, `naming.py`) | rows of notes; the lines a run keeps | post, claim, compose, name | a claim and the prompt that shows it are apart; the prompt's room is bounded | every prompt has every note, once, in order |
| Actions (`actions.py`, `evidence_capture.py`) | captures, screenshots, the wall met | open, look for a wall, read, shoot, store, close | the page changes or goes between two awaits | a row is of the page that was asked for |
| Model client and thoughts (`model_client.py`, `thoughts.py`) | the live buffer and the thought row, usage | stream, fall back, grow, retry, finish, cancel | a discarded answer has already been streamed to the owner | the thought shown is the answer's; every call ends |
| Browser manager (`browser_manager.py`, `camoufox_engine.py`) | the context, egress mode, refusal streak, tabs | launch, crash, navigate, recover, idle shutdown | several callers, a lock held over part of each operation | one engine on the profile; the policy on direct egress is kept |
| Interactive browser and sign-in (`interactive.py`, `amazon_auth.py`, `live_view.py`) | the owner's session and tabs | open, pop-up, finish, expire | owner and research share one browser | research does not evict the owner's tab |
| Device relay (`relay.py`, `routes/relay.py`, `scripts/relay_client.py`) | pending and live tunnels, the device's queue | attach, detach, open, data, close | two machines, reconnects, lost and reordered posts | streams are not mixed or torn; a broken path is failed over |
| Recording (`recording.py`) | the row, the capture directory, the artifacts | start, stop, capture, encode, register, unlink, settle, recover | a death anywhere between saving and telling the row; file names of one second; overlapping stops | footage is never lost |
| Reports, exports (`final_dive.py`, `report_model.py`, `report_narrative.py`, `finalist_playbook.py`, `reports.py`, `pdf_export.py`) | captures of the dive, reports with their model, PDFs | dive, build, narrate, ground, save, re-render, export | any step may fail or the process die, and a model writes part of the text | the model writes no figure of its own into the report; the verdict shown is the verdict given; the report appears |
| Backup, owner login, redaction, storage, monitoring, settings, web client, deployment | none of their own, or rows others write | reads and text | - | section 16 |

How they interact: a route writes rows and asks the *registry* for a runner; the runner
executes the *methodology* and, through it, the walkers, the model client, the actions and
the pipeline; all of them share the one browser, whose egress may be the relay; at the end
the dive and the report are made of what is durable. Boot recovery and the sign-in callback
turn rows back into runners. The durable rows are the only interface between a runner and
its successor after a stop, and they are what the properties are mostly about.

## 2. Modules

| Module | What it is |
|---|---|
| `AgentState` | the agent's transition table (`agent.py`) |
| `SessionLifecycle` | sessions, runners, registry, routes, boot (section 3) |
| `Methodology` | the nine-phase sweep of one session (section 4) |
| `TunnelService`, `Relay` | what the relay promises the browser; shim, hub, device streams and device client, implementing it (section 5) |
| `Judgement`, `Ledger` | filters, audit and gates as operators; the ledger of candidates they judge (section 6) |
| `Headroom`, `Discovery` | scores and neighbours as operators; the walkers and the market memory (section 7) |
| `Actions`, `Guidance` | one browser action; the owner's notes, the prompts and the iterations that ask for actions (section 8) |
| `Calls` | a call to the model and the thought it shows (section 9) |
| `Browser` | the one browser and its callers (section 10) |
| `Recorder` | recordings (section 11) |
| `Prose`, `Delivery` | what text may stand in a report, as operators; the last stretch of a run (section 12) |
| `MC...` | for each of these: its instances for TLC, and statements of the repository it refutes |
| `..._proofs` | theorems of `SessionLifecycle`, `Methodology`, `Relay`, `Browser`, `Recorder`, `Ledger`, `Guidance` and `Discovery`; those of `Delivery` stand after the lifecycle's, those of `Calls` after the methodology's (section 13) |

How they compose. `Ledger`, `Discovery`, `Guidance` and `Delivery` EXTEND the modules of
operators and actions they use. The others meet at named points: `SessionLifecycle` sees a
runner as a loop of awaits (`preflight`, `model`, `retry`, `action`, `adjacency`, `report`) and
does not know phases; `Methodology` opens one run up and knows of the rest only that it may
stop. `OneRunnerUntilCancelled`, proved of the first, is what lets all the others have a
single runner. `Methodology!Begin` is what `SessionLifecycle!Attempts` does before its
first phase, and `WriteReport` is `Finish`. `Ledger` opens up the `ApplyEffects` and
`RunPipeline` of `Methodology`, keeping of its sweep only the order of four phases and where
a crash resumes (which is `Methodology!Stored` and the markers); `Discovery` is the
`preflight` and `adjacency` await, `Guidance` the inside of a phase (`AskModel`,
`ModelReplies`, `Explore`), `Calls` one `model` await of it, `Delivery` the `report` await with
what `Ledger!WriteReport` found as a choice. `Browser` serves the actions of `Discovery`,
`Guidance` and `Delivery`; to them it is a page that opens, fails or is lost. `Relay` stands
apart: the browser manager only hands the shim's address to the browser.

## 3. SessionLifecycle

**State.** `status`, `error`, `agent`, `job`, `ckpt`, `report` are database rows and survive
a crash; `runner` (program counter, cancel and pause flags, self-heals left) and
`registry` are memory; `up` says whether the process serves. `wasCancelled` is history.

**Actions.** A route awaits nothing, so each route is one action: `Create`, `Start`, `Pause`,
`Resume`, `Cancel`, `Retry`. A runner action is the code from one await to the next
(`Attempts`, `PhaseHead`, `EndReply`, `EndActions`, `Finish`, ...) and ends at an await, at
a return (`ending`) or in an exception that leaves `run()` (`raised`). `Done` is the done
callback, which runs a loop turn later; this is why the registry may meanwhile hold a
newer runner. `SignIn` is the callback of a finished Amazon sign-in. `Crash` and `Boot` are
the end and the start of the process.

**Abstractions.** Only the newest job row is kept (readers take the newest). Checkpoint
keys that boot recovery does not read by name are one key, `cursor`. A phase whose loop
ends with no model call is a `model` await left at once. Agent and adjacency exceptions
that the code swallows are not modelled, nor `_pause_for_browser` (`research_runner.py:653`), which no
browser error reaches: `ActionExecutor.execute` (`actions.py:297`), the census, the frontier and
the dive turn whatever the browser raises into a result or an entry. `asyncio.CancelledError` arrives only when the
loop shuts down and is a `Crash`, as is a graceful stop. Elapsed time, events, traces and the
live view are left out. The order of a list that limits a start is any order.

**Runs.**

| Run | Instance | Shows |
|---|---|---|
| `LifecycleOne` | one session, two runner objects, one heal | rows agree with runners, one runner until a cancel, the finality of a completion, boot |
| `LifecycleRestartResumes` | as small as the case allows | refutes a statement of the documents (section 15) |

Beside the runs, `LifecycleTwo.cfg` (two sessions, cap 1, symmetric) checks the cap on
concurrent runners as long as nobody cancels, and `LifecycleLive.cfg` (fairness) that a cancel
or pause flag is eventually read and the runner ends (`FlagStopsRunner`).

Two runner objects per session are enough for the only interesting overlap (a cancelled
runner still parked at its await while its successor works); a second session is only
needed for the cap. A third session or slot adds no new kind of step.

**Fairness** (`FairSpec`): weak fairness of every runner step, because every await in the code
has a timeout (model calls, navigations, sleeps) and the loop then runs the coroutine;
weak fairness of the end of a reply, because at most six actions of it are executed; and of
`Boot`, because the process manager (PM2 or Docker) restarts the process. Routes have none.

**Proved**, for every set of sessions, slots and limits (`SessionLifecycle_proofs`): the type
invariant, `RunningHasRunner`, `OneRunnerUntilCancelled`, `CompletedHasReport`,
`CompletedIsFinal`, `CancelledIsFinal`, `BootLeavesNoOrphan`, `CapUntilCancelled`. The
inductive invariant adds that the registry names a live runner (`RegistryIsLive`: otherwise
a done callback could free a runner the registry still names), that a down process has
none, that a cancel flag comes from a cancel, that the runner of a completed session is
over (`CompletedIsOver`: otherwise it could write over the completion), and that the key
`resume_requested`, which the code reads but never writes, does not exist. Every runner
step but the done callback has one *shape* (it touches its own session's rows and leaves
`running` when it ends); the shape is proved once per action and the invariant once for
the shape. The cap needs finite-set cardinalities and is an induction of its own.

## 4. Methodology

**State.** For each phase: the pass whose output is committed (`out`), the cursor inside it
(`prog`), the pass whose rows it last wrote (`rows`). `screened` says that the integrity
pipeline has judged all that Phase 8 and the phases before it last wrote. `pivots`,
`refills`, `jumps` are the lengths of the durable lists, `goto`, `postP8`, `pausedOwner` the
other checkpoints, each with the pass it was written in. In memory: where the run is (`pc`),
the phase, where the sweep started (`from`, the code's `loop_start`), the pass, the completed
phases and the analyses. History: `fresh`, `stops`, the pass in `pausedOwner`.

**Actions.** A run begins (`Begin`), sweeps (`SkipPhase`, `EnterPhase`, `EndSweep`), works in
a phase (`AskModel`, `ModelReplies`, `Explore`, `Commits`, `Stalls`, `Switch`), hands it over
(`LeaveEmpty`, `LeaveForced`, `ApplyEffects`, `SaveOutput`, `Retire`), does the work after
Phase 8 (`RunPipeline`, `Pivot`, `Refill`, `MarkPost`) and writes the report. Each durable
write is a step of its own. That is finer than the code's awaits, but the only thing that can
come between two writes is the end of the run (`Stops`, `StopsInSwitch`, the owner's
pauses, and `Refused`, where the agent table raises), which in the code includes the
death of the process. `int(x or -1)`, which takes a stored pass 0 for none, is `Stored`.

**Abstractions.** What the gates measure (evidence counts, floors, stall counters) is a
choice between `Explore`, `Commits` and `Stalls`. Whether the time or call budget ends a loop
is a choice where `MayRunOut`; the configuration that refutes comments sets it to `FALSE`, so that
their traces need no exhausted budget. `best_output` is there exactly when the phase
has a cursor in this pass. Preflight, adjacency and the discovery walkers change none of
this state.

**Bounds.** Three phases (discovery, verification, synthesis) instead of nine: a phase
before, at and after Phase 8 are the three kinds the code tells apart. One or two iterations,
one pivot (the code's default), one refill, one or two switches, one stop. The invariants
were also checked with four phases and with two switches and two stops. The proofs need
no bound.

| Run | Shows |
|---|---|
| `MethodologyPasses` | `CompletedIsFresh`, `NothingRedone`, `ReportIsComplete`, `ReportIsScreened`; under weak fairness every session ends in its report or fails (`ResearchEnds`) |

The properties: what a run skips is committed in this pass (`CompletedIsFresh`) and is not
entered again (`NothingRedone`), unless the model switched in this pass; the report is written
on complete (`ReportIsComplete`) and, in the first pass, screened work (`ReportIsScreened`).
Proved but not run: the pass in memory is the pass the rows give (`PassIsDurable`), a marker
implies its rows (`OutputHasRows`), synthesis starts on screened work unless the model
switched to it (`SynthesisIsScreened`). Three are restricted (`goto.pass # pass`, `pass = 0`,
`from <= Adversarial`): without the restriction the code does not keep them (section 15).

**Fairness** (`FairSpec`): weak fairness of the run's own steps as one action: a stopped
session is taken up again and its coroutine is scheduled. Who takes it up is the owner or a sign-in:
boot recovery does not (section 15), so `ResearchEnds` says of a session nobody comes back to only
that no step of its own is in the way. Stops are bounded, as
the resume budget and the self-heal limit bound them in the code.

**Proved** (`Methodology_proofs`), for any number of phases, iterations, passes, switches and
stops: the type invariant and the seven safety properties. The inductive invariant `IInv`
adds: before it is at the marker of a phase, a run has written its rows (`Placed`);
everything before the sweep's position and from its start on is completed (`Swept`, which
gives `ReportIsComplete` because only a sweep from Phase 1 ends); no output is newer than
the current pass (`OutBounded`); what is fresh is committed in this pass and completed in
memory (`FreshIsCommitted`, `FreshIsCompleted`); and, in pass 0, wherever a run can be beyond
Phase 8 without a switch, the work is screened or Phase 8 is still to be run or caught up
(`Screens`).

## 5. Relay

**State.** Per request of the browser: where its handler is (`req`, in `open_tunnel` and
`_shuttle`), what carries it (`path`), its `Tunnel` (`opened`, `closed`, `inbound`), the two
pumps of the shuttle (`up`, `down`) and the browser's end (`browser`, `got`). The hub:
`_pending_open`, `_conns`, the event streams with their queues, the one it holds for the
device (`attached`) and whether the device was heard of in the last 45 s (`fresh`). The
device: the stream it reads, and per request its socket, the pump thread of that socket,
the answer to the open waiting in `upstream_buf`, and how far the origin's data has been
read (`asked`, `sent`).

**Actions.** Shim and hub are coroutines of one event loop, so an action is the code from one
await to the next: `OpenTunnel`, `DeviceOpened`, `DeviceRefused`, `OpenTimesOut`, `Dialled`,
`BrowserSends`, `GivesBrowser`, `ShuttleEnds` and so on. A post of the device is one action
of the hub (`HubOpened`, `HubOpenError`, `HubData`, `HubClosed`, from `RelayHub.upstream`);
whoever posts decides what becomes of it. `upstream_worker` puts a batch back when the call
fails, also when only the answer was lost, so `WorkerPosts` may repeat; a pump swallows the
failure, so `PumpPostsData` and `PumpPostsClosed` may lose. `Attach`, `StreamEnds` and `DeviceDrops`
are separate because the server notices the end of a stream later than the device does: the
generator of an old stream may run its `finally` when a new one is attached. `StreamSends`
delivers a message to `_handle_event` or, on a stream the device has left, loses it.

**Abstractions.** A chunk is its number; the origin sends at most `Chunks`, after the browser has
spoken, and the browser's bytes are one message. The plain-HTTP handler uses the tunnel as
the `CONNECT` handler does and is not modelled apart. A tunnel is named by the request it
serves: hub ids are unique while the process lives (a device that outlives a restart of the
server could meet an id again; that is left out). The downstream queue has room. Timers
have no length: a timeout may fire whenever what it bounds is pending. Tokens, pairing,
enabling and disabling the shim, statistics and the exit-address test are left out. The
device's back-off is the time between `DeviceDrops` and `DeviceCloses`.

**Specification implemented.** `TunnelService` knows, for each request, its stage, its exit and
what the browser was given: a request is refused or leaves by one exit for all its life, and
chunks come in order, none twice. Chunks may be missing, since the pump's posts are not
repeated. `ServiceKept` is the refinement: `waiting` and `dialling` are `connecting`, and the
exit is the path once the tunnel is open.

| Run | Instance | Shows |
|---|---|---|
| `RelayServes` | one request, two chunks, two streams of the device, fallback allowed | `OneEgress`, `OldStreamHarmless`, `ServiceKept`; under fairness every open is answered (`OpenIsAnswered`) and every close reaches the browser (`CloseReachesBrowser`) |

Requests share only the tables, the streams and `fresh`; one request with everything the others
can do to those (a drop, a new stream, staleness) therefore shows what two do. Statements of the
documents that the code refutes are comment lines at the end of `RelayServes.cfg`. `RelayTwo.cfg`
checks the invariants, `PendingIsAwaited` and `LiveIsListed` among them, with two symmetric
requests (2.7 million states). Two streams are needed for the overlap of an old and a new one, two
chunks for order and loss.

**Fairness** (`FairSpec`): weak fairness of the shim's own steps for each request, because the
event loop runs what is ready and the timer of an open fires. The device, the browser and
the origin have none: they may fall silent for ever, which is what the timer is for.

**Proved** (`Relay_proofs`), for every set of requests and all bounds: the type invariant,
`PendingIsAwaited`, `LiveIsListed`, `OneEgress`, `OldStreamHarmless`, and that `Relay`
implements `TunnelService` (`RelayImplementsService`). `OneEgress` needs to know that a
request is asked of the device once, and before the device knows anything of it (`DueOnce`,
over all queues), and that a refusal means there is no socket (`NoSocket`, `PumpHasSocket`).
The order of the chunks needs `InOrder`: what waits in `Tunnel.inbound` increases, is
beyond what the browser has, and, until the tunnel is closed, is below the number of the
next chunk that may be put there; the sentinel is above all and nothing is put behind it.

## 6. Judgement and Ledger

**State.** `Judgement` has none: the filters (`filters.py`), the audit of the claims
(`verification.py`) and the blocking gates (`quality_gates.py`) are operators over the captures
that concern a candidate and over its claims. `Ledger` keeps the candidate rows in the order of
their creation, the backlog, the stored captures (a number: captures `1 .. seen`), claims,
rulings, dossiers, the four phases' saved outputs, the counters of pivots and refills and the
standing of the report. In memory: the outputs, the output being committed and which of its
rows have had their effects, what the pipeline has still to judge.

**Actions.** `Reply` merges an answer of the model with what its phase already has and records
the overflow in the backlog. The effects are then written row by row, in the rows' order
(`ListNiche`, `Backfill`, `ApplyVerdict`, `Synthesize`), and only then is the output marked as
done (`SaveOutput`). `Judge` is the integrity pipeline on one candidate: it registers claims,
applies the filters, audits and writes the ruling. `Pivot`, `Refill` and `MarkPost` are the three
ways on after it, `WriteReport` the validation. `Crash` loses memory at any of these steps and
continues where the saved outputs say.

**Abstractions.** A label is a name with three relations to others (part of, similar to, long
enough); a capture is the set of facts a filter reads; a claim's statement is what one
contradiction check tells apart. Ages, texts, scores beyond "low" and the wording of reasons
are left out. The phases that write nothing to the ledger are left out; their order and the
crash points between them are `Methodology`'s.

**Run.** `LedgerPasses`: four labels of which two are near and one is too short, four captures,
the oldest of them a vendor's panel, of which the pipeline reads the newest three, two candidates
per output, a pivot, a refill and a crash. The replies contain what a model gets wrong: an
invented id, an id of another candidate, an estimate cited as observation, a verdict on a niche of
the wrong pass. `OneRowPerNiche`: no label has two rows, however often phases repeat.
`NothingLost`: every niche of a marked output is on the ledger, in the backlog, or stands under a
near label, as long as the backlog is not full (it has four places in the run and 200 in the code,
`research_runner.py:2465`; what comes after is dropped, see `TailIsRecorded`). `NoneLeftOpen`:
synthesis never sees a candidate nobody has decided about. `PassedOnObservation`: the engine
passes nobody on vendor estimates among the captures it reads. `FinalRestsOnPages`: a final report
has only dossiers whose candidate the engine passed so, though the status column they were made by
may say what the model said. The restriction is the code's: the pipeline learns from the newest
2000 captures which of them are estimates (`research_runner.py:3371`), while a claim may cite any
of the newest 5000 (`_valid_evidence_ids`). A claim that cites a panel older than the window
counts as observed. `NeverOnEstimates` (section 15) is the statement without it. All five are
proved (section 13).

## 7. Headroom and Discovery

**State.** `Headroom` has the score of `whitespace.py`, whose rivals are those of search results and
product pages only, and the neighbours of `adjacency.py` as operators. `Discovery` keeps the
captures of a session, the checkpoints of the two walks and of
the preflight as a whole, the ledger as far as neighbours and phases add to it, the log of the
rounds, and the market memory, which other sessions write too. In memory: the place of the
walk, the frontier's pages, its queries and what they completed to, the neighbours left.

**Actions.** `Enter` reads the checkpoints; the census visits charts and categories (`VisitChart`,
`VisitNode`, `MarketDone`, `CensusCut`, `CensusOver`); the frontier opens a page per marketplace,
asks letter by letter, goes one level deeper on the best yields and mines the phrases (`OpenPage`,
`Opened`, `Ask`, `NextRound`, `Mine`, `FrontierOver`); the checkpoint of the preflight as a whole is a
write of its own after those of its halves (`PreflightOver`); the phases capture, list and judge (`Shot`,
`List`, `Judge`); a round of adjacency measures the nearest neighbours and promotes those with
headroom (`StartRound`, `Measure`, `Overflow`, `RoundEnds`); `Harvest` and `OtherHarvest` write
the memory, where of several captures of a niche the one read last has the last word. Pages die, a
deadline passes, a stop is asked for, the process dies (`PageDies`, `DeadlinePasses`, `AskStop`,
`Halt`, `Resume`, `Crash`).

**Abstractions.** A term is a name with its words, head words and relations; the logarithmic
scale has two steps, which tell none from some from much. What a page shows is chosen from
`Charts`, `Nodes`, `Suggestions`, `Results`. `Plans` fixes per behaviour how many queries, captures,
rounds and upsets it may have, so that one run holds several small instances.

**Run.** `DiscoveryServes`: two marketplaces for the frontier and one for the census, one seed with
two levels of completions, one category; either both walks with two upsets, or the phases and
a round of adjacency after a shorter walk. `MapIsWhole`: what a stop cut short
is never checkpointed as the whole map (a deadline is no stop: the walker's own limit is part
of what it calls whole). `NothingWalkedTwice`: a finished half is never walked again.
`NeighbourOnce`: no term is promoted twice in a marketplace. `MeasuredWhenSaid`: a fact in memory
carries the time of a capture that shows it, whichever session wrote first. The four are proved (section 13).

## 8. Actions and Guidance

**State.** `Guidance` has the notes with their delivery mark, the session's name, the decisions of
the phases and the iteration that is saved; and of the runner its lines (the notes it shows),
whether it has read the journal, the streak of failures, the repairs and heals. `Actions` has
the captures, the number of screenshots, the wall the auth state shows; and the action under
way: its verb, the await it is at, its tab, what the page turned out to be.

**Actions.** The owner posts, renames and pauses at any time. A run starts or resumes (`Start`,
`Enter`, `Named`), asks (`Ask` claims the pending notes, a set of ids whose lines are then in the
order of the ids, in one transaction and composes the prompt; the claim may be refused, or stumble
half-way: `StumbleInTake`), and takes what comes: a reply that closes the phase, asks for actions,
is out of contract and repaired, unusable, or a failure (`Replied`, `Committed`, `Acts`, `Repair`,
`Unusable`, `Failed`). One action is `Begin`, `Opened`/`OpenFails`, `Check` (the wall), `Read`,
`Shoot`, `Store`, `Closed`, each at its await; `TabLost` is the browser's eviction or relaunch.
`Fall` is the death of the process. The streak of failed iterations, whose limit
ends the attempt, is reset by a usable reply and at the head of a phase, not by a heal.

**Abstractions.** A note is its size and the target it states; a phase's decisions are their size:
that is what the cuts of `prompts.py` depend on. Sixteen verbs are seven, those that do the same
being one, and an eighth stands for a request `execute` cannot handle. What a page says is left
out; that it is the page asked for, a sign-in form or a challenge is kept.

**Run.** `GuidanceServes`: two phases; three notes and no actions, or two actions (asked for together
or one by one) and a fault, or two notes, one action and a fault; a heal; a journal that returns
two rows. `PromptHasEveryNote`: every prompt has every note posted before it, once and oldest
first, but for named exceptions (a claim refused just now; what a runner has lost, because the
journal's read failed or returned the oldest 200 only, or a take stumbled after its claim).
`RowsAreOfPages`: a row of a checked verb is of the page asked for, unless the classifier or the
tab failed, and no screenshot is claimed by two rows. The type invariant stays in this run
because the bounds of the streak and of the heals are decided in different actions. All three are proved.

## 9. Calls

**State.** Per call its await, attempt, room and what the answer under way has said; the thought row
(durable) and the live buffer (memory) of it; usage. **Actions**: a call begins with its thought,
streams (`Delta`, `StreamAnswers`), the stream breaks, is rejected or gives nothing usable and a
plain request replaces it, the answer is truncated and asked for again with twice the room, is
in or out of contract, a wait between attempts ends, the caller cancels, the process dies and
boots. Every write of a thought may be refused. **Abstractions**: a text is its pieces, each named
by attempt, request and place; the one-second throttle of writes is a choice at each piece.

**Run.** `CallsServes`: two calls, two attempts, two pieces to a stream, a room that doubles once;
with one kind of upset at a time (a cancellation, a crash, a refused write, or a refused write and
a cancellation), with providers that stream or not and reason or not, and with one that spells
each piece of reasoning in two fields (`fields` of the setup). `ThoughtIsTheAnswer`: the thought
of a call that ended well shows its answer's reasoning and nothing else (a broken stream excepted,
and the provider with two fields, whose reasoning is shown twice). `StreamingIsInFlight`: nothing
shows as thinking that is not (but for a refused write or a cancellation in the sleep between
attempts). `CallEnds`, under weak fairness of each call's own steps (every request has a timeout)
and of `Boot`. Both invariants are proved.

## 10. Browser

**State.** The context (`none`, `up`, or `lost`: set, but its browser is gone), the engine's handle,
the egress of the running engine and of the launch in progress, `_egress_mode` and the forced
verdict, the refusal streak; the tabs, which of them are protected and which loaded; the owner's
session and pop-ups; the lock as the queue of its waiters; per task the await it is at and its
locals. **Actions**: from one await to the next of a research call (open, navigate, close), of
the owner's session (start, pop-up, expire, complete) and of the routes (restart, relay on or
off, shutdown, the idle guard). The launch is tear-down, choice of egress, probe, start; the
navigation climbs the ladder of a refusal: diagnose, demote to direct, space and retry,
escalate. A recovery whose launch fails goes on to the rungs that are left, if another launch went back
to the proxy meanwhile (`Climbs`). `EngineDies` may come at any time.

**Abstractions.** A proxy is up or refuses at its own will. The idle limit passes only while no
call is in flight. Which unprotected tab is evicted is left open.

**Runs.** `BrowserServes`: one research task and one janitor, three tabs, a pool of one, the code's
own four navigation attempts, escalation at the second refusal. `ProfileIsFree`: whoever starts
an engine finds none running on the profile. `NeverDirectAgainstPolicy`: without
`RELAY_ALLOW_DIRECT` nothing leaves by the server's own address. `CallEnds`: every call ends,
under weak fairness of each task's steps, every await of them having a timeout.
`BrowserOwner`: research and the owner with four interchangeable tabs; `OwnerTabStays`: the tab
given to the owner leaves only with the session or with the whole browser. A pool of one makes
every opening evict; two tasks are what the lock and each overlap need.

## 11. Recorder

**State.** Durable: the row (status, artifact), the capture directory (frames, trace), the artifact files
by name and the rows that name them. A file's name is the second its recording began in (`stamp`)
and its form, as `recording-{stamp}` in the code, and a file of that name is replaced. In memory:
the task or worker of each recording, its stop flag, the entry in the recorder's dictionary, the
stop requests that wait, whether the process is up.

**Actions.** `Start` (in a second of its own or in the one of the recording before), `Stop`, `StopReturns`,
`Capture`, `CaptureTrace`, `EndCapture`; then the worker, step by step: `Encode` puts the video, or
else the page of sampled frames, in its place; `Register` inserts its row, and a video whose row is
refused gives way to the page; `Announce` writes the trace; `Unlink` removes the directory file by
file, in any order; `Settle` tells the row; `Report` is the word recovery has for the trace after
that. `Crash` may come between any two, also during `Boot` and `Recover`. Every write may be
refused, that of a failure too (`Errs`): the row then stays what it is, and at boot the recovery
of the other recordings ends with it. History: `unsaved` (both savers refused), `torn` (the process
died with part of the directory gone and the row still `recording`).

**Abstractions.** A frame is a count; which frames a torn directory has left is not told apart. One
refusal is one write: that an encoder fails and that the store refuses are the same.

**Run.** `RecorderServes`: two recordings of two frames at the ceiling; two deaths, two refused writes, or
a death, a refusal and a stop request two at a time. `FootageIsKept`: each frame captured is in the
directory or in a file of the recording that holds all of them. `RowNamesItsArtifact`: the artifact a row
names is the recording's own and its file is whole, and a completed row of a recording with
footage names one. Both have the same named exceptions, each of which the code really loses
footage by (section 15): both savers refused (`RefusedIsKept`), a death within the removal
(`TornIsKept`: boot makes the artifact anew of what is left, over the whole one), a second
recording of the same second (`SecondIsKept`). `RecordingSettles`, under weak fairness of the loop,
the workers, waiting requests and boot (supervised process): nothing stays `recording`, unless an
error and the report of it are both refused (`ServedAreLive` is the statement without that).
`RecorderRefuted.cfg` has three recordings, three frames and a sample of two.

## 12. Prose and Delivery

**State.** `Prose` has the order of keywords and the grounding of narratives, titles and playbooks
as operators on sets: which titles are fresh, which sentences grounded, who leads in the order of
a report; a phrase that contains another counts as the same (`SamePhrase`), and figures of a title
are held to its own rule (`TitleFiguresOk`). `Delivery` keeps the captures of the dive, its
checkpoints, what memory has seen, the stored reports with their model, completion and PDFs; in
memory the place in the dive, the model being written, whose playbooks are due, the attempt.

**Actions.** The dives (`WriteFinalReport`, or `SkipDives` where they are off, no marketplace is found
or a store fails) and the dive on one candidate (`NextDive`, `MinePhrases`, `MeasureKeyword`,
`FileKeywords`, `MapCategories`, `CloseDive`, `EndDives`), the report (`BuildModel`,
`AnalystNarrative`, `FinalistPlaybook`, `EndPlaybooks`, `SaveReport`, `SaveModelJson`, `Complete`),
the owner's routes (a report of one's own of any kind, a re-rendering, a PDF). Where the code
guards a failure it is a branch of the step; where it does not (the notes, the gates, the report's
row, the journal) it is `RunFails`: the run heals and begins its report again, or fails with no heal
left, or heeds a pause. A process that dies is booted again (`ProcessBoots`), which leaves a
session that was not completed interrupted; `OwnerResumes` takes it up. (Of a report of kind
`final` the owner stores, `autonomy.py:254` could conclude that the session finished; boot has by
then marked the session interrupted, so that it is not asked.)

**Abstractions.** A sentence is the figures it cites; a search result is its count; layout is left
out, but for which text and which verdict a body or a PDF shows. What validation found is a choice.
What earlier phases wrote of a candidate and of the run (gaps, positioning, risks, rivals, readers,
ids) is a set of figures each (`CandText`, `RunText`), and so are the notes (`Noted`). These sets
matter: the digests of `report_narrative.py` and `finalist_playbook.py` admit every number they
contain, measured or not, so the grounding lets the model cite figures that earlier model text
brought in; and a body prints that text and the notes as they are (`told`).

**Run.** `DeliveryServes`: three candidates, one dossier, a dive for two, one phrase, and one upset
anywhere, or none, a report of the owner's or a re-rendering, and a PDF. `NothingInvented`: what the
model writes for a stored report brings no figure of its own: a playbook cites what was measured
for its candidate or stands in that candidate's material, the narrative what was counted, measured
or written of a dossier or of the run; never a figure of another candidate's material or of a note alone.
The promises of the code's comments, that only measured figures pass or reach the report
(`BooksAreMeasured`, `NoUnmeasuredFigure`), are refuted. `StatusKept`: a body never shows another
verdict than its row. `SectionsAreDived`: the sections are those of the candidates the dive went
to, when the dives were made and nothing failed or was stopped (`Untroubled`), wherever the two
reads reach the same candidates that may be final: the dive reads 500 of the listing, the report 300
(`DiveRead`, `ReportRead`; the listing is ordered by score). In the run both reach all three;
`DeliveryRefuted.cfg` has a report that reads fewer and refutes the statement without the condition
(`SectionsAreTheDived`). The three are proved. `ReportAppears`: under weak fairness of the run's
steps and of boot, the report is stored and the session completed, provided the session does not
stand stopped from some point on for ever. Nothing is assumed of the owner but that: a session
the process died under waits for one.

## 13. What is proved

| Module | Theorems | Assumed of the constants |
|---|---|---|
| `SessionLifecycle_proofs` | types and the seven properties of section 3 | a finite set of sessions, slots without `None`, limits in `Nat` |
| | of `Delivery`: `NothingInvented`, `StatusKept`, `SectionsAreDived` | lists of candidates, quotas in `Nat` (`DeliveryAssumption`) |
| `Methodology_proofs` | types and the seven properties of section 4 | phases, bounds in `Nat` |
| | of `Calls`: `ThoughtIsTheAnswer`, `StreamingIsInFlight` | ids, limits and setups in `Nat` (`CallsAssumption`) |
| `Relay_proofs` | types, four invariants or action properties, the refinement | bounds in `Nat` |
| `Browser_proofs` | types, `OneLaunches`, `ProfileIsFree`, `NeverDirectAgainstPolicy`, `OwnerTabStays` | disjoint kinds of tasks, at most one owner |
| `Recorder_proofs` | types, `FootageIsKept`, `RowNamesItsArtifact` | positive ceilings and sample |
| `Ledger_proofs` | `OneRowPerNiche`, `NothingLost`, `NoneLeftOpen`, `PassedOnObservation`, `FinalRestsOnPages` | replies are rows of their phases (`ReplyAssumption`), thresholds and limits in `Nat` (`LimitAssumption`), the share of supported claims at least 1 % |
| `Guidance_proofs` | types, also of the actions, `RowsAreOfPages`, `PromptHasEveryNote` | plans ask for known actions (`ActionsAssumption`), sizes and limits in `Nat` (`GuidanceAssumption`) |
| `Discovery_proofs` | `MapIsWhole`, `NothingWalkedTwice`, `NeighbourOnce`, `MeasuredWhenSaid` | lists of terms, limits in `Nat` (`WalkAssumption`), what a phase captures is a capture (`ShotAssumption`) |

All hold for every value of the constants within the named assumptions, which the code's own constants
and types satisfy and TLC evaluates on every run. The lifecycle, the methodology and the relay are
described in their sections.

`Browser_proofs`. The inductive invariant: a task that is inside a launch, tear-down or stop holds
the lock, and the lock's queue has each task at most once (`LockInv`); when no one is launching,
the handle and context say what the engine is, and each await of a launch says how far it has got
(`EngineInv`); wired, running or forced direct only where direct is allowed, and no task diagnoses
where it is not (`PolicyInv`); no research task holds or heads for a guarded tab, no pop-up is
guarded, and only the owner calls with reason start (`GuardInv`); a navigation's attempts are
bounded (`TriesInv`). `ProfileIsFree` and that two tasks are never inside the launch together
(`OneLaunches`) follow from the first two; `OwnerTabStays` from `GuardInv`, each step being looked
at for what it removes from `guarded`.

`Recorder_proofs`. Every action touches one recording's row, directory, work and file, or is the crash
or the boot. The invariant is the type invariant and, for each recording, its *story*: by where its
worker is, what of its frames is on disk or in which file, and what its row may say there.
A recording that shares its second with nobody has its file names to itself (`Shared`, and `Stamps`: one
that has not begun shares with nobody), so that what others encode replaces none of its files; the
list of artifacts only grows. From `Register` to `Settle` a worker may remove frames because the
file it has registered is whole (`Named`), or the exception that explains why it is not is on
record. The proof is one step per action for the recording it is about, and one lemma for all the
others (`Apart`).

`Ledger_proofs`. The invariant has four parts. `Types`, with the merged output gone outside the
effects. `Flow`: which phases have their output of this pass, by where the run is, and that only
synthesis finds its work after Phase 8 marked; a pivot or refill raises the pass above the mark.
`NoneForgotten`: while the pipeline runs, who is undecided is in its queue; then nobody is
undecided until the next pass, for a crash that returns to the pipeline reads the queue again.
`Rulings`: claims are finitely many and cite stored captures; who is passed rests on one; a final
report's dossiers have a passing ruling. The step that matters is `Judge`: if all the claims of a
candidate rested on estimates the engine reads, all would be unsupported and the share of the
supported ones 0, below any `SupportedPct` of at least 1. A capture that is stored later moves the
window forward only, so what has left it stays out.

A second invariant of the ledger, `LInv`, says where niches stand. `Unique`: no two rows have one
niche (`OneRowPerNiche`), and no two rows an output has still to write name the same (`Fresh`).
`Kept`: the backlog is finite, what is named is accounted for (`NothingLost`), and while an
output's effects are written each niche it names is accounted for, or a row still to be written
names it or one near it (`Underway`). Which rows of a reply are written is decided by a recursive
function (`FreshRows`): a row is fresh when no earlier fresh row is near it. That it exists is
proved by induction on the number of rows, stated as a set of lengths (`SetInduction`), since the
library's induction theorems cannot be instantiated; after that the proof uses its equation only.

`Guidance_proofs`. The invariant says what the action under way may have: a handler past its check has the
page it asked for, could not tell, or has lost its tab (`Seen`); a picture is taken once, and no row has
the picture of the action about to store it (`Own`). Each step of the executor either leaves rows and
pictures alone (`QuietStep`) or is one of the two that write them.

The invariant of the notes, `NotesInv`, adds what a runner knows. `Lined`: its lines are notes of
the session, each once, in the order of their ids; no pending note belongs before one of them,
which is what keeps the order when the next claim appends; and once the journal was read, every
note is a line, pending, or among the lost. `Prompted`: the prompt under way has every line, and
of the notes posted before it none is missing but the excepted. `Phased` and `Counted` bound the
phases' decisions, the streak, the repairs and the heals.

`Discovery_proofs`. The invariant `DInv` has four parts. `Shelves`: captures and the ledger are
sequences that only grow. `Maps`: what a checkpoint or a finished walk calls made is whole unless
a stop was asked for, a walk that was cut was cut by a stop, and a half is walked only while its
checkpoint is not made; `MapIsWhole` and `NothingWalkedTwice` follow. `Ring`: the neighbours a
round has left are on no row of the ledger and no two are one term in a marketplace, which gives
`NeighbourOnce` as each is promoted. `MeasuredWhenSaid` needs of the others only that captures
grow: a fact keeps the capture it was taken from.

*`Delivery`*. `TextInv` says that the text being written (`Writes`) and the reports that are
stored (`Stores`) cite only what was counted, measured for the candidate spoken of or written of it
before, and that a body shows its row's verdict or none; as captures are only added, what is
grounded stays so (`MoreMeasured`), and each operator of `Prose` keeps the sentences that are
(`GroundingGrounds`, `NarrativeGrounds`, `PlaybookGrounds`). The sets a reply may cite are the code's,
so the theorem is about attribution: no figure of another candidate's or of a note. `DiveInv` follows
the candidates: without an upset, who is to be dived has been, waits, or is being dived
(`Dived`), and the two functions that choose them choose the same where their reads reach the same
(`ChoicesAgree`). What is counted down is bounded by the quota (`Spent`), which is how a step knows
that no upset came before it.

*`Calls`*. `CallsInv` is a statement of each call, its row and its buffer (`Thinks`): the buffer holds what
the stream under way has said, capped; between streams it is empty; a row that is done holds the capped
reasoning of the answer; nobody streams who is not in flight. Its lemma is that capping after
every piece is capping once (`CappedGrows`). A step concerns one call (`OneCall`), except a crash and a boot.

These two stand in modules of other components and share nothing with them but the file:
`Delivery` completes the session whose lifecycle is proved before it, and `Calls` is the `model`
await of the methodology.

## 14. What TLC checks only

Every invariant and every action property of the passing runs is a theorem, for all values of the
constants. What is left to TLC:

- Liveness under fairness, which is out of the proof system's reach: `FlagStopsRunner`, `ResearchEnds`,
  `OpenIsAnswered`, `CloseReachesBrowser`, both `CallEnds`, `RecordingSettles`, `ReportAppears`.
- What the folds and sums of `Headroom`, `Judgement` and `Guidance` (`Sum`) compute for every input: the
  fold operators of the community modules take an operator, which the provers cannot reason about by
  induction. The proofs use of those results no more than their types.
- Statements that are refuted are traces by nature.

## 15. Findings

One run expects a violation. `LifecycleRestartResumes`: `lifespan` runs two boot recoveries over the
same rows (`main.py:180`). The first marks every running session interrupted; the second, which
looks for running or queued ones, finds none, writes no `resume_requested` checkpoint, and nothing
is resumed. `VPS.md:230` says that a session that was running resumes after a restart.

The other statements that the code refutes are stated in the modules and listed in
`<Module>Refuted.cfg` (for the relay, as comments in `RelayServes.cfg`): leave one line to see its
trace. Each says what a doc, a comment or the routine's evident purpose says. They are not runs of
the project, so nothing rests on them; they show where the restrictions in the properties that
hold come from, and a team would discuss each. The traces of the temporal ones use the fair
specification where the statement needs it.

| Lifecycle | Why the code does not keep it |
|---|---|
| `CancelIsDurable` | a runner back from its await writes over the row the cancel committed |
| `CapEnforced` | the cap does not count a cancelled runner, and its done callback pops its successor's entry |
| `FinishedIsCorrected` | a session whose report is final and whose completion was not written is not corrected at boot |
| `SignInResumesOnlyAuthPauses` | `update(error=None)` cannot clear the error by which a later pause is classified |
| `NeverRaisesOutward` | a refused agent transition inside the failure handler leaves `run()` |
| `SessionCap` | resuming a failed session is not counted |
| `QueuedIsTakenUp` | nothing takes up a session that a full cap left queued |

| Methodology | Why the code does not keep it |
|---|---|
| `SwitchSurvivesRestart`, `ResumesAtFirstIncomplete`, `PostWorkOnce` | pass 0 reads back as none (`or`) |
| `WholeReportScreened` | after a switch back and a crash, the stale marker masks the pipeline |
| `ScreenedBeforeSynthesis` | a switch forward skips the pipeline |
| `SwitchIsAccepted` | the agent table refuses some switches after they are recorded |
| `CursorOfThisPass` | the note of a pause is never deleted |
| `PauseKeepsPlace` | a pause notes the iteration it did not run |
| `RefillKeepsAnalyses` | a restart inside a refill pass reads only outputs keyed to the new pass |

| Ledger | Why the code does not keep it |
|---|---|
| `FinalCandidatesStand` | the dossier of an earlier pass stays when its candidate is rejected later |
| `ThinIsNotAdvanced` | soft filters only lower the score; the audit may verify what they flagged |
| `RefillKeepsRejections` | a verdict of a refill pass reopens what was rejected |
| `NeverOnEstimates` | the pipeline knows the estimates among the newest 2000 captures only; a claim on an older panel counts as observed |
| `OneDossierPerCandidate` | `known` is read once, before an output with two rows for one candidate |
| `TailIsRecorded` | the backlog takes 200 niches (`research_runner.py:2465`); what a long session overflows with after that is dropped |
| `ListedIsFollowed` | a niche listed under an id the model invented is followed nowhere: the analysis of it names no candidate |

| Relay | Why the code does not keep it |
|---|---|
| `DeviceUsedWhileConnected` | a connected device silent for 45 s counts as gone |
| `OfflineFallsBack` | an open nobody answers fails after 20 s; only a refusal falls back |
| `StreamIsWhole` | a data post that fails is swallowed, and the pump goes on |
| `DeadTunnelFails` | attaching replaces the queue without failing the old tunnels; a close before the open is answered is dropped |
| `FallbackOutlivesDevice` | fallback tunnels are in `_conns` too, and are closed with the device's |

| Browser | Why the code does not keep it |
|---|---|
| `OpenedPageIsOpen` | recovery goes on with a fresh page, and the caller gets the one it opened first |
| `NeverYanked` | busy is decided before the wait for the lock, by the pages that are open: a task about to open one is not seen |
| `SessionTabStays` | pop-ups of the owner's tab are not guarded |
| `GuardedIsInUse` | `sweep_expired` is never called: the guard of an abandoned session stays |
| `PoolIsBounded` | opening evicts one page, whatever the excess, and two may open at once |
| `VerdictHonoured` | a launch of another task that comes first consumes the forced egress mode |
| `SamePageAfterPause` | the engine may die during the pause before the retry, which goes on with a page of the dead context |
| `HandleIsStopped` | a crash forgets the context, and a launch that finds none stops nothing |

| Discovery | Why the code does not keep it |
|---|---|
| `LatestMeasurementWins` | the harvest walks newest first, so older captures overwrite |
| `StopOpensNothing` | a page is opened per marketplace before the walk in it looks at the flag |
| `NicheIsOne` | a neighbour is listed once per marketplace, or beside a listed niche |
| `DoneIsMeasured` | a census that a deadline or an error cut is recorded as done |

| Actions and Guidance | Why the code does not keep it |
|---|---|
| `NewestNoteIsShown` | the block of notes is cut at its end |
| `JournalIsWhole` | the journal is the oldest 200 rows, and is lost when its read fails or a take stumbles |
| `PriorPhasesAreShown` | eight phases at their own bound exceed the bound of the block |
| `PictureIsTheLastAction` | when the last action took no screenshot, an older one is attached |
| `ReplyIsHarmless` | an unknown marketplace raises `MarketplaceError` past the handler and costs a heal |
| `LastTargetStands` | the target of several notes is their largest |
| `OwnersNameStays` | naming overwrites a rename made while it asked the model |
| `WallIsNoEvidence` | `autocomplete`, `kdspy`, `external_source` and `capture_evidence` never look for a wall |
| `LostTabIsNoEvidence` | reading a lost tab gives a row with 0 results |
| `TabsAreReturned` | `capture_evidence` does not close the tab it opened |

| Calls | Why the code does not keep it |
|---|---|
| `ThoughtIsOneAnswer` | the deltas of a stream that broke stay when the call is tried again |
| `EndedIsNotStreaming` | a call cancelled in the sleep between two tries leaves its row streaming |
| `RecordedOnce` | a delta that carries both reasoning fields is appended twice |
| `NeverOnlyCopy` | the flush is throttled to one a second |

| Recorder | Why the code does not keep it |
|---|---|
| `AtMostOneLive` | the first recording's stop, when it returns, forgets the second, and a third is started |
| `LiveIsStoppable` | a stop that returns removes the session's entry, though it is a later recording's by now |
| `NothingStaysFinalizing` | boot looks for `recording` rows, not for those a dead process left finalizing |
| `OneArtifact` | a process that dies between saving the artifact and the row's update makes another at boot |
| `PageIsBounded` | steps of `n div Sample` give up to nearly twice the sample |
| `RefusedIsKept` | the frames are removed even when both savers were refused |
| `TornIsKept` | a death while the directory is removed leaves a row that says `recording`: boot encodes the rest over the whole artifact (`recording.py:409`) |
| `SecondIsKept` | artifacts are named by the second the recording began in, and a file of that name is replaced (`recording.py:366`, `artifacts.py:82`) |
| `ServedAreLive` | a refused write in the failure handler leaves the row `recording`, and `main.py:204` swallows what it raises |

| Delivery | Why the code does not keep it |
|---|---|
| `PdfKeepsText` | the blocks are shaped from the model, and nothing of the narrative is among them |
| `PdfShowsVerdict` | a report without a verdict, as one of the owner's, is shown as FINAL |
| `OwnTextIsExported` | a report of the owner's is exported as what the run knows |
| `DiveIsRemembered` | the harvest reads captures of phases, and those of the dive have none |
| `FiguresAreOwnMarket` | captures are found by niche: a candidate of the same niche elsewhere gets the other marketplace's figures |
| `BooksAreMeasured` | every number of the digest may be cited, and the digest holds what earlier phases wrote (`finalist_playbook.py:119` says measured figures only) |
| `NoUnmeasuredFigure` | a body prints dossiers, material and notes as the model wrote them (`research_runner.py:3786`: "an invented figure never reaches the report") |
| `SectionsAreTheDived` | the dive reads 500 of the listing, the report 300: a portfolio candidate beyond that gives its section to another (`report_model.py:1109`) |


## 16. Not modelled and why

- **Backup** (`backup.py`): one task takes one snapshot at a time, writes it beside its final name, verifies
  it and renames it; SQLite copies it atomically. Nothing interleaves with it.
- **Owner login** (`security.py`): a count of attempts and a time, compared in one synchronous
  function.
- **Privacy, redaction, proxy parsing** (`privacy.py`, `redact.py`, `proxy_spec.py`): pure functions over
  strings, whose text is all there is to say about them.
- **Storage, events, trace** (`db.py`, `events.py`, `trace.py`): one writer connection. Every transaction
  is one atomic step of the module that makes it; a write may be refused where the code handles that.
- **Monitoring, settings, web client, deployment**: views of what others keep, files and scripts.
- **Timing and labels** (`timing.py`, the labels in `thoughts.py`): estimates shown to the owner, which nothing
  decides by.
- **Live view, input forwarding, the sign-in state of each marketplace** (`live_view.py`, `amazon_auth.py`):
  a frame or an event is handed on as it comes; of the sign-in only what shares the browser is in
  `Browser`, and what resumes paused sessions is in `SessionLifecycle`.
- **Page parsing** (`evidence_capture.py`, `browser.py`, `marketplace.py`) and the **extension's panel**
  (`kdspy.py`): what a page says is a choice.
- **Layout** of reports, charts, PDF, exports to CSV and JSON, uploads: text in, text out.
- **Older job rows, tokens and pairing, statistics, the exit-address test, a full downstream
  queue of the relay**: left out of the modules they belong to; nothing modelled reads them.

The prover reaches neither liveness nor folds over data (section 14). TLC's instances are
small where a component's state is large: one session in most modules (components of two
sessions meet in the registry, the browser and the relay, which have several), two to four
candidates, three tabs, one to two tunnels.

## 17. Plan

1. An abstract session (owner's wish, outcome) that `SessionLifecycle` implements as far as its rows go,
   and an abstract run that `Methodology` implements.
2. That the proved invariants of one component are what another assumes of it: the rows `Ledger`
   and `Delivery` take over, by a module that composes the two.
3. The deadlines of the walkers in `Discovery`, which are a choice now, as time.

## 18. Running it

In this directory:

    tlc -workers 2 -config LifecycleOne.cfg MCSessionLifecycle.tla
    tlapm Methodology_proofs.tla

The module and the configuration of every run are in `PROJECT.json`. The longest run takes about two
minutes on two workers, the longest proof a few minutes from an empty cache.
