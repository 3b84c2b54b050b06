# Verification of the decision maker

TLA+ modules, TLC configurations and TLAPS proofs for the Brainstorm
decision-maker: a LangGraph of seven nodes that turns a dilemma into a decision
in two calls with a human answer in between, an HTTP server and a Gradio page
that drive it, and the store, cache and sweeper around it.  Paths below are
relative to the repository's root.

## 1. Inventory

| part | state | operations | talks to |
|---|---|---|---|
| decision graph (`src/features/decision_maker/{graph,nodes,state}.py`) | the channels of `DecisionMakerState` in the last checkpoint; which node is pending | nodes 1, 2, 3, 3.5, 4, 5, 6; `route_from_context`, `route_from_critique`; interrupt after node 3 | LLM, search, checkpointer |
| session API (`graph.py`) | a leg in progress; the module-level LLM override of `nodes.py` | `stream_session`, `stream_resume_session` (and the non-streaming `start_session`, `resume_session`, which make the same calls) | graph, store |
| turn API (`src/server/turn_api.py`) | requests in flight, `active_sessions` | `handle_turn`, `handle_done`, `handle_readyz`, `handle_healthz`, `handle_metrics` | session API, store, cache, metrics |
| idempotency cache (`idempotency.py`) | key to reply, 600 s, 10000 entries | `get`, `set`, two ways to make a key | turn API |
| checkpoint store (`checkpoint_factory.py`) | `checkpoints`, `writes`, `_brainstorm_meta` behind one connection | `aget_tuple`, `aput`, `aput_writes`, `adelete_thread`, `list_stale`, `_touch` | SQLite or Postgres |
| sweeper (`sweeper.py`) | the list of the present tick | `run`, `_tick` | store, metrics |
| lifespan, config, metrics (`app_factory.py`, `config.py`, `metrics.py`) | what `app.state` holds | start, stop, validators | all of the server |
| authentication (`auth.py`, `scripts/mint_token.py`) | none | `verify_session_token`, `require_service`, minting | turn API |
| Gradio page (`src/ui/{app,controllers,presenter}.py`) | per tab: thread_id, mode, chat, pane | `on_submit`, `on_new_session`, `orchestrate_start`, `orchestrate_resume`, `render` | session API with a store of its own |
| LLM text (`src/core/{json_utils,llm_utils}.py`) | none | `strip_reasoning_blocks`, `extract_output_payload`, `safe_json_parse` | nodes |
| clients, tools, prompts, logger, errors, middleware, scripts, deployment | none that outlives a call | | |

Everything runs on one asyncio event loop in one process (the manifests fix one
worker and one replica), so steps interleave only where a coroutine awaits.

What makes each part correct, and what is hard about it:

- **Graph.**  A decision is never made from the question, the weights or the facts
  of an earlier dilemma, and only from a draft the auditor has read; counted
  rewrites are bounded and every call ends.  Hard: a thread is used for several
  dilemmas and only three channels are reset; an answer may arrive before its
  question was asked; a reply may lack the question or the weights; any node may
  fail or be cancelled, and the resume continues from whichever node wrote last; two
  conditions, one in node 5 and one in the router, share the cap.
- **Session API.**  A done reply holds the decision of its thread.  Hard: legs
  overlap, two on one thread included; each keeps its checkpoint in memory; one
  global override serves them all.
- **Server.**  Sessions are counted and swept; a retried request is not run
  twice.  Hard: every handler awaits between reading and using what it read;
  deletion is several statements on a shared connection; timeouts cancel a turn
  anywhere; a restart keeps the store and loses the rest.
- **Store.**  What was acknowledged is durable, what was deleted stays away, and a
  thread with rows is visible to the sweeper.  Hard: one connection, so everyone's
  statements lie in one transaction and the first commit ends it for all; awaits
  are cancelled between two statements; the process stops anywhere.
- **Gate.**  A token opens the gate exactly until it expires; a retry is answered
  from the cache as long as its reply must be there.  Hard: the boundary second;
  eviction by other turns, answered late or replayed.
- **LLM text.**  What the model answered is what is read, not what it quoted.
  Hard: unclosed, nested, crossing and repeated tags, fences and objects.
- **Page.**  A text is taken for what the user meant.  Hard: a leg's yields arrive
  after a reset; submissions queue; tabs share their first thread.

`PROJECT.json` lists the hazards with their lines.

## 2. Modules

| module | what it is | composes |
|---|---|---|
| `DecisionRound` | the promise: per dilemma one question, one commitment of weights from an answer to it and to no earlier one (or of empty weights), a decision from exactly these; a new dilemma may begin at any time | |
| `DecisionGraph` | one thread of the graph and its calls, one at a time | implements `DecisionRound` |
| `DecisionLegs` | overlapping calls: in-memory checkpoints, the override, deletions | each thread implements `DecisionRound` |
| `SessionStore` | the promise of the store: one transaction for everyone, committed whole or lost | |
| `TurnServer` | requests, cache, store, gauge, sweeper, restart | takes a leg as its accesses to the store, each written as a step of `SessionStore`'s shape |
| `CheckpointStore` | the store statement by statement on its one connection, and the lifespan around it | takes a leg as its reads and puts; implements `SessionStore` |
| `SessionToken` | minting and verifying, as functions | |
| `RequestGate` | tokens, validation, cache and clock in front of a leg; the status of every way out | uses `SessionToken`; takes a leg as an answer or a failure |
| `LlmText` | sanitizing and parsing, as functions over texts of tokens and halves of tags | |
| `BrainstormUI` | tabs, queued submissions, resets, the pane | takes a thread as its phase |
| `MC*` | instances, symmetry | |
| `DecisionGraphProofs`, `DecisionLegsProofs`, `TurnServerProofs`, `CheckpointStoreProofs`, `RequestGateProofs`, `BrainstormUIProofs`, `LlmTextProofs` | the theorems about each and their proofs | each extends its module |

The detailed modules cut the system by the question.  `DecisionGraph`,
`DecisionLegs` and `BrainstormUI` meet in the phase of a thread (empty, framing, asked,
deciding, decided): `DecisionGraph` justifies it from the nodes, the other two use it.
`TurnServer` and `CheckpointStore` meet in `SessionStore`: the first is written with its
steps, a statement with its commit or without, which needs no proof; the second has each
statement, on each of the three tables, and each commit as a step of its own, and
implements it.  The assumption each
makes of the others is named where it is used, for instance that a leg ends (`LegEnds`).

### DecisionGraph

`ch` is the checkpointed state with texts abstracted to their origin: a dilemma
is its number on the thread, weights are the answer they came from and the
question it was given to (0 if that was empty, `NoWeights` if the weights are), a draft is the dilemma and weights it was written from,
feedback and facts are the dilemma they are about.  A stale text is thus told
from a current one and nothing else about it is.  `last` and `next` are
LangGraph's knowledge of the graph's position.

Each node is an action through `RunNode`, a super-step with its checkpoint.  Its
reply is any of `AnalyzerReplies` or `CriticReplies`; a reply the parser rejects,
the `DoubleTrueError` of node 1's router, an LLM error, a timeout and a crash are
`Fail`, enabled in every state of a leg.  `StreamResumeSession` models
`aupdate_state` without `as_node`, which re-runs the writers of the last node.
Nothing in `graph.py` or in its callers asks whether the question of the present
dilemma was asked: a caller can answer as soon as some call on the thread replied
awaiting_user (`offered`), and tabs share their first thread.  An early answer
re-runs node 1 or what else is pending, stops at the interrupt and is replied
done; a leg that failed behind node 3.5 goes on behind it.

`weight_questioner(asks)` and `weight_parser(found)` store an empty question and
empty weights when the reply has none: `parsed.get` has a default, and the graph goes
on.

### DecisionLegs

A leg reads the latest checkpoint once, works on its memory and saves it whole
after each node; its reply is read from the store.  Nodes are the steps of
`DecisionRound` (`Results`).  The override is set when a call begins, read when a
node is entered, cleared by every way a call can end.  The threads in `Exclusive`
have one leg at a time and are not deleted; what the others do beside them is
free.  A deleted thread is `Gone`: its uuid is not drawn again.

### TurnServer

One action is what a handler does between two awaits that can suspend:
`Lookup`, `TurnN`, `CacheHit`/`CacheMiss`, then the leg as `LegLoad`, any number of
`LegPut` and `LegTouch`, `Drain`, and `Respond`; `/done` is `DoneCheck`,
`DoneRows`, `DoneMeta`.  The sweeper lists, then deletes one by one.  `stored` and
`meta` are what the shared connection sees, `kept` and `keptMeta` what was committed;
every commit, of whichever request, copies the first two to the others (`Commit`), and
`Restart` copies them back.  `LegFails` (timeout or error) can end a leg anywhere,
`ReadFails` one of the reads outside of it, `DoneFails` and `SweepFails` a deletion at
either statement; each of them may leave its statement executed without the commit
(`Uncommitted`), for the next commit of someone else to make durable.  A deletion whose
commit failed is not counted off the gauge although its rows go: `slipped` is the
history of these ids.  `Age` lets a row pass the threshold only when no turn is on its session,
because the validator in `config.py` keeps the threshold at five timeouts or more
and a turn touches its session when it begins.

### CheckpointStore

`view` holds the rows the connection sees, `disk` the committed ones; a commit of
anyone makes them equal, a crash or a close makes `view` equal `disk`.  A request
reads (`Select`) and then touches, puts (`Insert`, `CommitPut`) and then touches,
or deletes (`Delete` three times, `CommitDelete`); `pc` names the next statement.
`aput` and `aput_writes` differ in their table only.  The lock of the inner saver
(`Locked`) covers its own statements up to its commit, not those of the adapter.
`Abandon` is a cancelled or failing request: its statements stay where they are.
The lifespan opens, serves, stops the sweeper, closes; `StartFails` and `Crash`
leave in the middle.  `acked`, `wiped` and `buried` are histories of rows, and
`crossed` of the threads that were deleted while a request used them: there the
puts of the request may leave rows without a meta row, which no sweep finds.

### SessionToken and RequestGate

`verify_session_token` is one conditional with the tests in the code's order.
Bytes are what they decode to.  `RequestGate` enumerates what both minters can
have issued by now and a header for each way of being refused, crosses them with
the three kinds of bodies, and takes a request that passed through session lookup,
cache, leg and reply.  The `TTLCache` is a map from cached keys to their expiry
(`entries`) and the order in which they were used last (`order`, its `__links`).  The
probes change nothing and are one action.  `answered` and `since` are histories:
when a key was answered, and which other keys were used since.

### LlmText

A text is a sequence of tags, fences, braces, key-value pairs and prose; a part of it
is the same function on fewer positions, so removing a block renumbers nothing.  A
match is a pair of positions.  `Lazy` is what a non-greedy pattern can match, `Search`
what `re.search` returns of it, `Scan` what `re.sub` and `re.findall` take: from left
to right, skipping what begins within a match that was taken.  That is stated of the
set that is taken instead of computed by recursion, so that it can be proved about.  An
opening reasoning tag may be written in two halves (`Front`, `Back`), which the
pattern reads as a tag (`Reading`) only where nothing stands between them (`Joined`): a
block removed from the inside of a tag's name leaves a tag that the same pass does not
see and the next one does.  Halves of closing tags, of `output` and of fences are left
out.  A reasoning block
ends at the first closing tag of its own name, an output at the first closing tag, a
fence at the next fence of either kind; a `json` fence read by the bare pattern is
taken for content.

### BrainstormUI

`on_submit` is `BeginSubmit` (inputs read), `Started`, `NodeDone`, `Parsed`, and
one of `Stopped`, `Decided`, `Failed`; each writes all outputs of the tab
(`Yield`).  Gradio's queue is external: one `on_submit` at a time, one pending
submission per listener.

## 3. Runs

| run | instance | shows |
|---|---|---|
| `graph_any` | 2 dilemmas, 2 answers, 9 steps per leg, every reply, answers at any time after the first question | types; only audited drafts are final; questions, weights and facts are of no other dilemma; done is the decision or came too early; one counted rewrite; `DecisionRound` is implemented; calls end |
| `legs_any` | 2 callers, 2 answers; one thread with one leg at a time, one that is free and deleted | the override does not leak; no checkpoint mixes two legs; on the exclusive thread done replies hold a decision and `DecisionRound` is implemented |
| `server_any` | 1 session and one id that is none, 2 requests, derived keys, every fault | the gauge exceeds the rows the sweeper sees by the deletions that failed at their commit only; orphans are seen; a first turn is undisturbed; the dead stay dead |
| `server_swept` | 1 request, failing reads, turns and deletions, fair sweeper | stale rows are swept |
| `store_any` | 2 requests, the sweeper, 2 threads, one row put, every fault | acknowledged is durable; deleted stays deleted; rows are tracked; the connection is closed when unused; `SessionStore` is implemented |
| `gate_any` | 2 requests, 3 keys, a cache of 2, a clock of 4 seconds, tokens of both minters and broken ones | the gate is open exactly until expiry; a retry is served while its reply must be cached, and nothing expired is |
| `llm_texts` | every text of up to 5 tokens, two names of reasoning blocks, the tag of one in halves as well | sanitizing twice is sanitizing once unless a tag was put together; the last output is read; a fenced answer is parsed; a bare one exactly where no brace precedes it |
| `ui_tabs` | 2 tabs, 2 listeners, 3 drawn threads | modes, threads and panes agree outside the shared first thread |
| `graph_answer` | violation | a resume behind node 3.5 answers from an earlier answer |
| `graph_done` | violation | an answer that came before its question is replied done without END |
| `legs_client` | violation | the first of two legs to end clears the other's client |
| `server_duplicate` | violation | one key, two graph runs |

Every property of a passing run has a mutant, defined beside the code it
changes (`Mut...`), that breaks it.

**Bounds.**  `MaxInputs = 2`: staleness needs an earlier and a present dilemma.
`StepLimit = 9` is above a leg 2 with two rewrites (the parser, three drafts,
three audits, the synthesizer), and lets nodes 1 and 2, or 4 and 5, loop until
they run out of steps.  LangGraph's own limit is 25.  `RewriteWatch = 3` saturates a history counter one
above the cap, so that a second or third counted rewrite would show.  `GaugeFloor` saturates the gauge below zero; the properties bound
it from above or look at zero.  Two callers, requests or tabs are what a race
needs; a third actor is the sweeper or a deletion.  `MaxThreads = 3` lets a tab
draw a thread, draw another while a leg of the first still runs, and draw again.
`MaxPuts = 1` in the store: each property is about one row, of
either table on either thread, and what other rows add is their commits, which
every touch makes as well.  A cache of 2 with 3 keys evicts; `CacheTtl = 2` within 4
seconds lets entries expire and be renewed; lifetime 0 is a token of the gateway
that was born expired.  Five tokens hold two objects side by side, a fenced object
behind another one, two crossing or nested blocks with a tag left over, and a block
between the halves of a tag with its closing tag; `LastOutputIsRead` and
`BraceHidesAnswer` append three more, `FencedAnswerIsParsed` five.  `Split` holds one
name, since a tag is put together of one name's halves.
Symmetry permutes requests, sessions, threads, keys, tabs or listeners, and is used
with safety properties only.  Deadlock is not checked: users may stop at any time and
the bounds end the rest.

**Fairness.**  `DecisionGraph`: weak fairness of the leg in progress (the event
loop drives a call to its end or its failure; calls and failures are not fair).
`TurnServer`: weak fairness of the sweeper's steps, and strong fairness of the
deletion of each id, meaning a database error is not repeated for ever; without
it, or with the sweeper task dead (fault "list" is off in this run), rows stay.

## 4. Proofs

Every safety invariant and every action property of the passing runs is a theorem
for all values of the constants; so are the three refinements, of `DecisionRound` by
`DecisionGraph` and `DecisionLegs` and of `SessionStore` by `CheckpointStore`.  What is assumed of the constants is the `ASSUME` of each module:
bounds are naturals, stand-ins for "none" lie outside the sets they are added to,
sessions are finitely many, a cache holds at least one key.

In each proof module (of `LlmText` see below) one inductive invariant `IInv` is proved
from one lemma per action (`InvInit`, `Inv...`, `InvNext`), with a lemma for the shape
the steps of an actor share (`LegStep`, `OpStep`, `GrowStep`, `YieldStep`, `NodeStep`)
so that each action only shows what it adds.  The theorems then follow from `IInv`.  TLC
checked each `IInv` on the instance of its run before it was proved.

**DecisionGraph**

| theorem | says |
|---|---|
| `TypeCorrect` | `[]TypeOK` |
| `FinalIsAudited`, `WeightsAreCurrent`, `FactsAreCurrent` | no unaudited draft and nothing of an earlier dilemma reaches a decision |
| `DoneRepliesDecide` | a done reply is the decision on the present dilemma, or came before node 3.5 and decides nothing about it |
| `AwaitingRepliesAsk` | an awaiting_user reply shows the present question or an empty one, and node 3.5 is next |
| `OverrideIsUnreachable` | node 5 never runs at the cap |
| `OneRewrite` | one draft per dilemma at most is written on a rejection |
| `AnswerKeepsPendingNode` | injecting an answer keeps the pending node (action property) |
| `Refinement` | `DecisionGraph` implements `DecisionRound` |

None of the properties is inductive by itself: that node 6 reads current weights
depends on which node ran last, so `PendingInv` ties the pending node to the last one
and the present state (this is where `aupdate_state`'s re-run of the routers must
agree with what they said before).  `QuestionInv` says that the checkpointed question may
be an earlier one before node 3 and is this dilemma's or empty behind it; `LegInv`
that an answer is stamped with that question when node 3.5 is to read it, and that
either leg stops at node 3 if it gets there; `DataInv` what each node leaves, and that
there is no decision on the present dilemma before node 6 (so an early done cannot
hold one); `CountInv` where the counter can stand.  `Refinement` maps the pending
node to a phase; nodes 3, 3.5, 6 and a new dilemma are the visible steps.
`OneRewrite` adds `RewriteInv`, which relates the history counter to the checkpointed
one: each rewrite on a rejection is covered by a rejection that node 5 counted, and the
second one reaches the cap.  No theorem restricts the auditor.

**DecisionLegs**

| theorem | says |
|---|---|
| `TypeCorrect` | `[]TypeOK` |
| `OverrideIsCleared` | with no call in progress the override is unset |
| `DecisionsMatch` | no checkpoint mixes two legs |
| `DoneRepliesDecide` | on an exclusive thread a done reply holds a decision |
| `Refinement` | exclusive threads implement `DecisionRound` |

`Fits` says what a leg's memory owes to the store: it is sound by itself (`Shape`),
a resume has left an answer (`Answered`), and on an exclusive thread memory and
checkpoint are equal from load to drain (`Private`); `Apart`, that two legs on a
thread are resumes and the thread is not exclusive.  In the refinement a save is
the visible step of its thread and a stutter of all others; the threads that are not
exclusive need no argument beyond `Sound`.

**TurnServer**

| theorem | says |
|---|---|
| `TypeCorrect` | `[]TypeOK` |
| `GaugeIsTracked` | `active_sessions` is at most the number of rows the sweeper sees and of deletions that failed at their commit |
| `OrphansHaveRows` | what no client can close has a row the sweeper sees |
| `FirstTurnsKeepTheirRows` | nothing takes the rows of a first turn |
| `DeadSessionsStayDead` | a 404 is final (action property) |

The gauge is not bounded by an invariant on itself: `StoreInv` bounds it by
`Countable`, the sessions a client was told of that still have a row or slipped.  A
step that takes a row decrements the gauge, lets the session slip, or takes a row that
is not countable, and a reply counts a session only when it makes it known (`Counting`
holds the cardinality facts).  `Sound` is said of what the connection sees and of what
was committed, so that a commit and a restart need only one of the two (`Committed`).  `FirstInv` says that the session of a first turn is unknown to every other
request and to the sweep in progress, `SweepInv` what a sweep has taken so far,
`StartsApart` that two first turns differ.  `DeadStaysDead` needs that rows arrive
only through a turn behind its lookup.

**CheckpointStore**

| theorem | says |
|---|---|
| `TypeCorrect` | `[]TypeOK` |
| `ReturnedPutsAreDurable` | acknowledged rows are on the disk unless deleted |
| `DeletionsAreFinal` | deleted rows never come back |
| `DataIsTracked` | data has its meta row unless a deletion crossed a request |
| `NobodyUsesAClosedConnection` | the connection is closed when unused |
| `RowsAreTheStore` | the rows of the three tables implement `SessionStore` |

Each property is about `disk`, which one commit of anyone replaces by `view`; so
`StoreInv` says the same of `view` (`AckedIsSeen`, `WipedIsUnseen`, `SeenIsTracked`),
and a commit, a rollback and a crash each need only one of the two.  `RequestInv` and
`DeletionInv` say what the statements that are open have done to `view` and not yet
to `disk`, `CrossInv` that a deletion and a request meet only on a thread counted
as crossed, `LifespanInv` who may have statements open in which phase.  For
`RowsAreTheStore` a thread is stored while it has a row in `checkpoints` and tracked
while it has one in `_brainstorm_meta`: each statement changes one of the two for one
thread, or neither (`StatementView`).

**SessionToken and RequestGate**

| theorem | says |
|---|---|
| `TypeCorrect` | `[]TypeOK`; the cache holds `MaxSize` keys at most |
| `TokensLiveToTheirExpiry` | a token opens the gate exactly until its `exp` |
| `RetriesAreServed` | what the cache must hold is replayed, what expired is not (action property) |

The first is a fact about `verify_session_token` in every state: `VerdictOnClaims`
reduces the header of either minter to its three claims.  For the cache, `IInv` says
that any cached keys have a least recently used one (`WellOrdered`), that what is
behind a key in the order is among the keys counted since its use (`SinceInv`), and
that an entry expires a time-to-live after its reply (`CachedInv`).  When a full cache
evicts a key, all others are behind it and the new one is not cached, so `MaxSize`
keys were used since and nothing was promised (`InvReply`, `KeepPromises`).

**BrainstormUI**

| theorem | says |
|---|---|
| `TypeCorrect` | `[]TypeOK`; the mode is one of the two |
| `AnswersHaveQuestions` | an answer is taken only where a question was asked |
| `ThreadsArePrivate` | a drawn thread belongs to one tab |
| `PanesAreTrue` | the pane shows its thread |

Since a yield writes the outputs of a submission over a tab that may have been reset,
the three properties must hold of the submission as of a tab: `Fits` is said of
both, and `JobIsPrivate` says that no other tab is on the thread of the submission.
`YieldStep` proves all yields at once.

**LlmText**

| theorem | says |
|---|---|
| `Idempotence` | sanitizing twice is sanitizing once unless the first pass put a tag together |
| `LastOutput` | the output written last is what is read |
| `FencedAnswers` | an answer in a fence is parsed whatever unfenced text precedes it |
| `BracesHideAnswers` | without fences an answer is parsed exactly when no brace precedes it |
| `ObjectIsUnique` | one object at most starts at the first brace |

They hold of texts of any length and any set of block names without `output`; the run
bounds both.  Induction over texts is out of the prover's reach, so the argument goes
by positions: a set of them that is not empty has a first one (`FirstExists`, from the
well-foundedness of `<`), and the least prefix that could not be scanned would extend
one that can (`ScanUpTo`), so that the scan exists (`ScanIsScan`).
`StripLeavesNoPair` is the heart of `Idempotence`: a pair of tags, as the pass read
them, that is left would be a match that was neither taken nor begun within one that
was; a pair that only the second pass reads needs a tag that was put together.  `StripKeepsAnswer` and `AnswerIsLast` show that tags appended to a text
change no match of it.  For the parser, `PlainIsPlain` shows that appended tokens that
are no tags are neither read as tags nor removed; `FencedAnswer` then goes through the
five strategies in their order, and `BareAnswer` reduces all of them to the object at
the first brace (`UnfencedIsFirst`).

**Only proved.**  `CritiqueBelowCap` and the `TypeOK` of `BrainstormUI` are stated by
theorems and left out of the runs.  The passing runs of `TurnServer` have no header keys:
with one of them, two requests and every fault there are more states than a run of
minutes explores;
its theorems hold for any `Headers`.

**Only model-checked.**  `LegEnds` and `StaleEventuallySwept`: liveness and `ENABLED`
are out of the prover's reach.  The four runs that expect a violation are TLC's alone.

## 5. Disagreements between the code and its documentation

Four have a run and are quoted in `PROJECT.json`.  Others were met while
modelling and have none:

- `README.md:42` caps the rewrites at two; the router (`nodes.py:1055`) loops on
  any feedback and the counter grows on `needs_rewrite` only, so a critic that sets
  one without the other loops until the step limit.
- `metrics.py:226` calls the gauge the number of active sessions; a 404 touches
  (`checkpoint_factory.py:213`), the row is swept, and the gauge goes below zero.
- `state.py:75` calls `rewrite_count` the number of rewrites; it counts
  rejections, so a cap of 2 allows one counted rewrite (`OneCountedRewrite`).
- A reply that parses but has no `last_question` or no `weights` is taken
  (`nodes.py:556`, `nodes.py:641`): the user is shown an empty question, or the draft
  is written without weights.  `llm_utils.py:235` calls the first a production failure;
  its fix removes one cause of it.
- `nodes.py:1022` routes to rewrite "if critique requested a rewrite"; the router
  tests the feedback, and a rejection without feedback is finalised.
- `critique_feedback` of one dilemma survives `stream_session` and reaches the
  first draft of the next dilemma on the thread.
- With two resumes on one thread `stream_resume_session` may report done with an
  empty answer (`DoneHoldsDecision` shows exclusion is enough).
- `plans/DevelopmentPlan_MCP.md:460` asks for a lock between sweeper and turns;
  there is none, and the sweep's list is old when it is used, so `config.py:38`'s
  promise to spare sessions in a turn does not follow from the threshold; it holds of
  first turns (`FirstTurnIsUndisturbed`), and a later turn may lose its session.
- `adelete_thread` is not atomic on a shared connection
  (`checkpoint_factory.py:344`); when its commit fails, its rows go with the next
  commit of anyone while the gauge goes on counting the session (`slipped`).
- `sweeper.py:21` says `run` ends only on cancellation; an error of `list_stale`
  ends it (`SweepListFails`).
- `turn_n` is always 0, since no channel is called `messages`
  (`turn_api.py:287`); an answer with the text of the dilemma is served the
  cached question.  Derived keys carry their session by construction; a header key is
  scoped to nothing (`idempotency.py:146`), so a client that repeats it on another
  session is replayed the first one's reply.
- The key derived for a first turn holds a fresh uuid, so a retry without a header
  is a new session; `idempotency.py:187` says derived keys detect retries.
- The session is looked up before the cache, so the retry of a turn whose session
  was closed meanwhile is told 404 although its reply is cached.
- A put that crosses a deletion leaves rows without a meta row, which
  `list_stale` never sees (`TrackedUnlessCrossed` excludes these threads).
- `session_ttl_sec` is documented as the age at which the sweeper deletes
  (`config.py:152`, `README.md:247`); the sweeper uses `sweep_threshold_secs`, and
  nothing reads the former.
- `auth.py:131` says the token's session_id routes to the checkpoint; the handler
  logs it and routes by the body (`turn_api.py:261`).  A thread_id of the server is
  32 hex digits and would be refused as a token's session_id.
- `app_factory.py:264` handles `AuthError`, which `require_service` has already
  turned into an `HTTPException`, so the bodies of 401 and 403 hold no
  correlation_id (`errors.py:120`); an unhandled 500 has no header either
  (`middleware.py:21`).
- `token_verify_failures_total` and `turns_total{state="error"}` are never
  incremented (`metrics.py:142-146`).
- `json_utils.py:239-240` says that pass B handles "reasoning prose containing example
  dicts followed by the real output object"; it decodes at the first brace only, so the example is what is
  returned, and a loose brace is an error (`BraceHidesAnswer` states exactly when).
- `llm_utils.py:21` and `llm_utils.py:228` call stripping and the pipeline idempotent for
  all inputs.  Removing `<think>x</think>` from `<thi<think>x</think>nk>y</think>`
  leaves `<think>y</think>`, which the second pass removes; `IdempotentUnlessJoined`
  shows that this is the only way.
- `smoke_brainstorm.py:369` replaces the last character of a signature, of which
  four bits count, so one run in sixteen sends a signature that is still valid.
- A running leg's yields undo "new session"; all tabs start on one thread_id; the
  textbox is never locked; the pane of leg 2 starts empty; `cove_rewrite` is never
  emitted, because node 5's delta has neither `decision` nor `needs_rewrite`.

## 6. Not modelled, and the plan

Not modelled: prompts and wording, the LLM and search clients, counters and
histograms (nothing reads them), log lines, correlation ids and error bodies
(fixed within a request), the smoke clients and launchers (no state of their
own), deployment manifests (read for one worker, one replica), the Postgres
backend (another transaction model, marked experimental), the synchronous
delegates of the store (never called), chat history.

What could be added is a transaction model of the Postgres backend that implements
`SessionStore`, should that backend leave its experimental state; SQLite's own rollback
of a transaction whose commit meets a full disk is left out as well.
