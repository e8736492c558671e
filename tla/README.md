# Univotel chatbot: TLA+ models, model checking and proofs

The chatbot answers prospective dormitory residents on WhatsApp through
Chatwoot. It asks for a university and a gender, lets a recommendation engine
pick hotels, sends them, and stops the moment a human agent speaks. A second
subsystem, the TagAssigner, reads conversations with an LLM and labels them.
Everything is asyncio tasks of one Python process over one Postgres database:
there are no long transactions, every statement of `app/db/queries.py` commits
on its own, and between any two awaits another task may write the same row or
the same labels at Chatwoot. That is what these modules are about.

## Inventory

| Component | State | Operations | Modelled in |
|---|---|---|---|
| Webhook ingress (`webhooks/chatwoot.py`) | debounce buffers and timers, `is_processing`, `messages`, self-write fingerprints | duplicate check, burst buffering, flush, first-sight backfill, takeover, CRM edits, manual tag trigger | `Ingress`; CRM edits at the labels in `TagRun`, at the flow in `LeadConversation`; the trigger in `TagQueue` |
| InfoGatherer (`layers/info_gatherer.py`, `divergence_*.py`, `phrase_gate.py`) | `conversations`: flow state, slots, divergence and clarification counters | one turn per debounced burst: gate, extract, ask, answer, escalate, fire the engine; append a label | `InfoGatherer`, `LeadConversation`; labels in `TagRun` |
| Recommendation engine (`background/rec_engine_ladder.py`, `webhooks/internal.py`, `layers/rec_engine.py`) | `rec_engine_logs`, in-memory ladder tasks | post start (3 attempts), insert, select, resolve, call back, deliver | `RecEngine`; the selecting query in `Inventory` |
| Statements on the row (`db/queries.py`) | Postgres | one UPDATE each, some guarded by `flow_state = expected` | `Conversation` and the modules that issue them |
| Reprompt sweep (`background/reprompt_sweep.py`) | reprompt columns | remind rows that wait | `Ingress` |
| TagAssigner queue and triggers (`tagassigner/queue.py`, `trigger.py`, `sweep.py`, `batch_client.py`) | `tag_assigner_queue`, `tag_assigner_runs`, three counters | scan, sweep, manual trigger, nightly batch, claim, close, midnight reset | `TagQueue` |
| TagAssigner run (`tagassigner/router.py`, `payload_builder.py`, `attribute_resolver.py`) | labels and attributes at Chatwoot, their replica and owners in the row | read labels, load history, ask the LLM, merge, reconcile, write back with retries | `TagRun`; its window and outcome in `TagQueue`, its effect on the flow in `LeadConversation` |
| Label rules (`label_resolver.py`, `deal_awaiting.py`, `hizmet_veremiyoruz.py`, `fiyat_soruyor.py`) | none | pure functions | `LabelResolver`, `Inventory`, `Canonicalizer`, `TagRun` |
| Attribute rules (`attribute_merger.py`, `info_check.py`) | flag and suppressed fingerprint in the row | pure functions | `AttributeMerge` |
| Matching and canonicalisation (`layers/matching.py`, `university_canonicalizer.py`, `university_resolver.py`) | none | exact, alias and fuzzy match; containment of names | `Matching`, `Canonicalizer` |
| Sending (`background/send_retry.py`) | none | send with three tries, a timeout among them | a step that works or fails; a timeout Chatwoot did not notice in `LeadConversation` and `Ingress` |
| Chatwoot and LLM clients | none | HTTP | failures are choices of the actions that call them |
| Dashboard, diagnostics, keepalive, start-up, scripts | various | read, report, or run once | no, but for what a restart loses |

How they interact: a webhook buffers a message and, when the burst is over,
runs a turn under the processing lock; a turn starts a ladder
(`create_task`); a ladder posts to `/internal/rec-engine/start`, which spawns a
run; a run posts to `/internal/rec-engine/callback`, which completes the row
and sends. Takeovers and CRM edits are webhooks of their own, the sweeps and the
TagAssigner are background loops: all of them write the row under everybody's
feet. The guards (`WHERE flow_state = expected`) are the only mutual exclusion
between them; the processing lock excludes only turns from turns. Labels at
Chatwoot have no guard at all: whoever writes them writes all of them.

What is hard, and what makes each part right:

* A message passes a duplicate check, a buffer whose timer three tasks may
  cancel, a lock, and a backfill that reads the thread on its own. Right
  means: it reaches exactly one turn, or its silence has a cause one can name.
* A turn decides on two copies of the row, one read at its start and one
  re-read after gender extraction, and acts many awaits later. Right means: no
  second matching, no matching without slots, a human's conversation stays a
  human's, a question is not answered for ever, the lock is given back.
* A ladder retries a start whose run may still be at work, so that two runs of
  one idempotency key interleave. Right means: one list for the lead, and
  every matching ends.
* The queue is fed by three triggers and drained by one worker that can fail
  or die at each statement, and a batch inserts runs beside it. Right means:
  caps hold, a queue item and its run tell the same story, no message is
  silently skipped, every item is closed.
* A tagging run reads labels, attributes and the row, waits for an LLM, and
  writes what it thinks back over what agents did meanwhile; each webhook of
  theirs is handled by a task of its own, without a lock. Right means: what it
  undoes was changed in between, what it overwrites was not yet known to be a
  human's, what it stores was said by the lead, and a flag an agent dismissed
  stays dismissed.

`PROJECT.json` lists each hazard at its line, with the properties that catch it
or the reason none does.

## Modules

`Conversation` <- `RecEngine` <- `InfoGatherer` <- `LeadConversation` (each
EXTENDS the one to its left), `MCLeadConversation` the instance for TLC,
`LeadConversationProofs` the theorems, `LeadLimitsProofs` those about what is
counted. `LeadService` is the abstract specification `LeadConversation`
implements; `LeadServiceProofs` proves it.
`LabelResolver`, `Matching` <- `Canonicalizer` and `AttributeMerge` <-
`Inventory` hold the pure rules, which `TagRun` EXTENDS; `MCTagRun` is its
instance, `TagRunProofs` <- `TagEditsProofs` <- `TagTypesProofs` its theorems.
`TagQueue` with `TagQueueProofs`, and `Ingress` with `IngressProofs`, stand
alone: they share only the `conversations` row with the others, and other
columns of it.

* **Ingress**: `wire` are the webhooks under way (late, twice, in any order),
  `buffer` the fragments behind one timer, `waiting` the flushed bursts in
  line for the lock, `proc` its holder, `agent` the handler of an agent's
  message (who persists what the buffer still holds), `tagger` the backfill of
  a tagging run, `sweep` the reminder sweep. A turn is only what the ingress
  sees of it: admitted or not, what it did to the flow state, whether the bot
  spoke. A reminder may time out although Chatwoot took it (`SweepTimesOut`),
  and is then sent again. `seen` is history: how often a message entered the
  buffer, how many turns heard it, the reminders, and those since an agent
  stopped the conversation.
* **Conversation**: `row` is one row of `conversations`; each operator
  (`SetFlow`, `ResetDivergence`, `RecordDivergence`, `MarkCompanions`, ...) is
  one SQL statement. A slot is only "filled"; `gender_set_by` is only "human
  or not". `told` is a history variable: what the lead has been sent, `late`
  the messages since an agent took over.
* **RecEngine**: `ladder[k]` is a `fire_rec_engine` task with idempotency key
  `k`; `run[k][a]` is the request, and then the run, that attempt `a` made;
  `log[k]` is the row of `rec_engine_logs`. One action per await. Which hotels
  are picked is abstracted to `found`, `not_found`, `failed`; their list has
  up to `Lines` schema lines, one send each (`SendLine`), and is through when
  the second pass over what failed is (`Delivered`), with whatever got out.
  Nothing in between reads the row.
* **InfoGatherer**: `turn` is the one turn that holds the lock: where it
  stands (`pc`), where it goes after saying something (`next`), its first copy
  of the row (`start`, a `StartOf` projection of the columns it still looks
  at) and its second one (`conv`). What the phrase gate, extraction and
  matching find in the text is chosen by `\E`. Statements that no other writer
  can disturb are merged with a neighbour. A pitch of a hotel the lead named
  goes out line by line too (`PitchLine`, `Pitched`).
* **LeadConversation**: the other writers of the row: `Takeover`,
  `CrmSetsGender`, `CrmSetsUniversity`, `TaggerFills` (unguarded, because it
  is decided on a snapshot taken before the LLM call); the cut-short tasks:
  `TurnRaises`, `TaskRaises`, `Restart`; and the send that is made twice
  because Chatwoot took it and answered too late (`SendTimesOut`). The row and
  the log survive a restart, tasks do not.
* **LeadService**: what a lead is promised: a phase (`collecting`, `matching`,
  `closed`, `agent`, `handed`), at most one matching, at most one list. The
  refinement mapping reads the phase off the flow state, the matchings off the
  ladders started, the lists off `told`.
* **TagQueue**: `queue`, `runs` and `conv` are the tables and counters;
  `scan`, `sweep`, `trigger[h]`, `worker` and `batch` are the tasks, each a
  step per query. Messages are numbered as they are stored and `completed` of
  a run is the number stored by then, which is what `completed_at` means to
  the next incremental run: `Unread(c)` is what lies after every successful
  completion. `tagged` and `overrun` are history: what a run has read and
  labelled, and what was stored while a run was between its read and its last
  completion. The batch selects, inserts a `processing` run per conversation,
  and, as its submission is a stub that returns nothing, fails them all.
* **TagRun**: `labels` and `shown` are what Chatwoot has, `row` the replica
  with the owner of each field, `wire` the `conversation_updated` webhooks
  under way, `sync[h]` their handlers, background tasks that take any of them,
  read the row (`SyncReceives`) and write it up to three statements later,
  `filler` InfoGatherer's writes at the end of its flow, `run` the run, a step
  per await, with the copies it took. The LLM answers any member of `Answers`.
  `seen` is history, see there.
* **LabelResolver**, **AttributeMerge**, **Inventory**, **Matching**,
  **Canonicalizer**: pure operators over sequences of words and parameter
  tables. `Distance` (the edit distance) and `Length` are parameters, given by
  a table in `MCTagRun`. Where Python iterates over a set, `Resolutions`
  returns every outcome an order can give.

## Runs

| Run | Bounds | Shows |
|---|---|---|
| `ingress` | 2 messages of others, 1 redelivery, 1 fault, 2 reminders | one turn per message or a cause for its silence, a fresh lead is not taken for an old one but in one way, reminders bounded, also behind an agent's back, buffered messages settle |
| `conv_turns` | 2 keys, 1 attempt, 2 lines, 3 turns, 1 fault | the safety of the row: one matching, slots before it, at most two answers to one question, what is still sent after a takeover, humans keep what was handed to them; every step is one `LeadService` allows |
| `conv_engine` | 1 key, 2 attempts, 1 line, 1 turn, no fault, callbacks arrive | duplicate runs of one key: one list at most; `IInv`, the inductive invariant of the proofs; turns end; a matching resolves |
| `tag_queue` | 1 conversation, 1 manual trigger, 2 messages, 2 items, 1 night, 1 fault | caps, counting, agreement of item and run, who holds a processing run, the window of an incremental run; `QInv`, the inductive invariant of the proofs |
| `tag_live` | 2 conversations, 1 trigger, 1 message, 2 items, no fault | every item is closed |
| `tag_run` | 1 run, 2 handlers of webhooks, 2 writes, 2 events (messages, edits, faults) | whose labels and values a run may overwrite, where a gender or a campus comes from, what becomes of a dismissal; the assumptions of `MCTagRun` check the matching |
| `conv_takeback` | violation | a turn that re-read the row after a takeover moves it on |
| `conv_stuck` | violation | a lost callback leaves `recengine_running` for good |
| `conv_retry` | violation | a retry that finds `processing` selects hotels as well |
| `tag_restart` | violation | an item claimed before a restart stays `processing` |
| `tag_cap` | violation | two manual triggers exceed the daily cap |
| `tag_dismiss` | violation, the bounds of `tag_run` | two webhooks handled at once forget a dismissal |

The six violations are disagreements between code and documentation;
`findings` in `PROJECT.json` quotes both sides of each.

Why the bounds are enough to be interesting.

* Two messages give a burst of two, a message behind a flush, and a lead's
  message beside an agent's; the redelivery may come before or after the first
  copy is stored; a conversation may begin with a message older than the
  integration. `Ladder` is 2 instead of 3: a first and a last reminder.
* Three turns let a lead diverge twice and then be escalated, or fill both
  slots in different turns and still send a message while the engine runs. A
  second key is there for a second matching to use, if the code ever started
  one; as it does not, one key does elsewhere. Two lines put a takeover, or a
  timeout, into the middle of a list. Two attempts are the fewest that give
  two runs of a key; the code's third adds a third run of the same kind.
* The thresholds 5/5/5 of the TagAssigner are shrunk so that each cap can be
  reached and passed: caps 1, and in `tag_queue` a gate of 2, so that a
  conversation never labelled and a labelled one differ in what the batch
  needs of them. Two queue items give a pending one behind a processing one,
  and an incremental run after a full one.
* `tag_run` begins with a new conversation and with one that a run has
  flagged; two events put a message and an edit, two edits, or an edit and a
  fault, anywhere around the run. Two handlers overlap, overtake, and come
  between each other's writes; they are interchangeable. A conversation is
  assigned to nobody or to the bot: one assigned to an agent has every webhook
  handled, which is among what may happen to one assigned to nobody. Two
  writes instead of three still retry. The lists are small, but hold a parent
  with two campuses, a mutually exclusive group of each kind, a typo, and a
  city that shares a word with a district.

One fault may fall on any step. The intents `price`, `housing` and `no_intent`
stand for the rows of `migrations/018_divergence_routing.sql` by what is done
about them. Symmetry is used in `conv_turns`, on the keys, which are uuids, and in
`tag_run` and `tag_dismiss`, on the handlers; never with a liveness property.

`CHECK_DEADLOCK FALSE` throughout: leads and agents owe nothing, and when all
have fallen silent and the bounds are used up the system rightly stands still.

**Fairness.** One weak fairness on `BotStep`, any step of a turn, a ladder or a
run: asyncio runs some ready task, and every HTTP call and query has a timeout, so
that a task that can go on does. That is enough, and less than fairness for each
task: every task has only so many steps, so that those that could go first run
out of them. The drain loop likewise (`WF_vars(Drain)`), and
in `Ingress` the timer's flush, the holder of the lock and the agent's handler:
the timer rings after a fixed delay, the lock is handed on in order.
None for leads, agents, CRM users, the scan, the sweeps, the batch, or faults.
`conv_engine` assumes callbacks arrive, because `conv_stuck` shows that the
property is false otherwise; `ItemsResolve` and `BufferedSettles` excuse faults,
because a restart loses a claimed item (`tag_restart`) and a buffer in memory.

**Properties worth a remark.** `SilenceHasCause` and `FreshLeadKept` name the
one way without a fault in which a lead's message is silent: a backfill (of
the first turn, or of a tagging run) stored it while its own webhook was under
way, and the webhook then looks like a duplicate; the first turn takes it for
prior history besides. `LateSpeechBounded` counts messages: after a takeover a
turn under way may send what it has left, a whole pitch if it comes to that,
and a delivering run the rest of its list, since neither reads the row again;
more than these two there are not, and no line goes out twice but when a send
timed out after Chatwoot had taken it. `RemindersBounded` and
`LateReminderBounded` count such a send, too, as one of the faults they allow
for; `SameAnswerCap` and `PitchedAtMostOnce` are about what the code decides
to send, and do not count the copy. The sweep reads its list of rows first and
sends afterwards, so that one reminder may follow an agent who stops the
conversation. `ReclaimNeedsReread` is the exact shape of the defect behind
`conv_takeback`: apart from that path the bot never takes a conversation back,
and `LeadService` has it as the only step from `agent` to the bot.
`SkippedIsTagged` names the one way in which an incremental run overlooks a
message: it was stored between a run's read and its completion, since
`completed_at` is set after the LLM call, and set again after the write-back,
while the counter is reset in between. `AutoCapKept` holds although the scan
counts after it enqueues, because the scan is the only one to count and walks
its list alone; the manual cap has the same code and several callers, and does
not hold. `ProcessingIsHeld` says that without a fault each processing run is
the worker's or the batch's; `BatchFails` is what makes it so.
`AgentEntryKept` is "`set_by='human'` is sacred" as far as it is true: a run
overwrites an agent's entry when the row it read did not say so yet, when
Chatwoot showed no value when it looked, or when it could not look.
`DismissalKept` excuses three cases TLC found: a webhook taken for the bot's
own (`skipped`), the run itself moved the flag while webhooks were under way
(`moved`), and a handler that read the row before an older webhook was stored
(`crossed`). Without the last it is `DismissalSticks`, which `tag_dismiss`
violates. `LateLabelsOnly` bounds what a run takes away; a label that was
changed since the run read may be lost, and no document says otherwise.
`CampusIsNamed` compares what the list shows for two universities and not
their ids: `university_chatwoot_label_map` has no UNIQUE on
`chatwoot_list_value` (`migrations/011`), so that two campuses may share an
entry, and the resolver, which goes by the entry, then cannot tell them apart.

## Theorems

Every invariant and every action property of a passing run is a theorem, and so
is the refinement. They hold for every value of the constants that satisfies the
named assumptions of the modules; no other assumption is made. Most of those
give the constants their types. The others are the code's: no intent is the
absence of one (`IntentsAssumption`), a start is tried at least once
(`AttemptsAssumption`), there is at least one reminder (`BoundsAssumption` of
`Ingress`), the manual triggers at work at once are finitely many
(`HandlersAssumption`), the lists of labels and their groups are as
`label_registry` has them, the labels the code names are among all labels
(`LabelsAssumption`), ids are keys and foreign keys point at rows
(`TablesAssumption`, `ListValuesAssumption`: the constraints of the migrations).

### The conversation

`LeadConversationProofs`, `LeadServiceProofs` and `LeadLimitsProofs`, for every
set of keys, number of attempts, turns and faults, every set of intents and
every routing table:

| Theorem | Property |
|---|---|
| `TypeCorrect` | `[]TypeOK` |
| `Invariance` | `[]IInv` |
| `MatchedOnce` | `[]SingleRecommendation` |
| `DeliveredOnce` | `[]PitchedAtMostOnce` |
| `SlotsFirst` | `[]SlotsBeforeMatching` |
| `NeededStaysHuman` | `HumanNeededIsFinal` |
| `ReclaimedByRereadOnly` | `ReclaimNeedsReread` |
| `ServiceKept` (`LeadServiceProofs`) | `ImplementsService`: `LeadConversation` implements `LeadService` |
| `LimitsInvariance` (`LeadLimitsProofs`) | `[]Limits` |
| `AnsweredTwice` (`LeadLimitsProofs`) | `[]SameAnswerCap` |
| `LateSpeechIsBounded` (`LeadLimitsProofs`) | `[]LateSpeechBounded` |
| `CampusHasParent` (`LeadLimitsProofs`) | `[]CampusQuestionHasParent` |

None of the safety properties is inductive. That a second ladder is never
started rests on `NotYetMatched`: a row that collects, or a turn that might
make it collect again or start a matching, implies that no key was used; that
in turn rests on what a turn's copies may say at each point (`CopiesAreFresh`)
and on a university staying filled (`UniversityKept`). That a list goes out
once rests on `NothingDelivered` and `OneDelivery`: the guarded update of the
callback can be won once only, since nothing leads back to
`recengine_running`. `IInv` is the conjunction.

The proof that every step keeps it does not expand forty actions eleven times.
A turn's step is first shown to have a shape (`TurnShape`: which flow states it
can move between, what it may do to the slots, how its `pc` moves, and that
lists are sent only from `pitch`), and a run's step likewise (`RunShape`); the
invariant follows from the shapes. Steps of other writers go through one lemma,
`OutsideStep`. The action properties follow from `IInv` and the shapes.

The refinement rests on the same shapes. What it adds to `IInv` is `Open`:
while a turn extracts, the row still collects or is an agent's, and a row that
says `recengine_running` has a ladder behind it. The matchings are a
cardinality, so that `CountOne` is needed to say that the one begun is the
only one.

`Limits` is a second invariant beside `IInv`, for what is counted. An answer
is counted in the row before it is sent, so that between the two the row is
ahead (`AnswersRemembered`); a turn that has only read the row works with the
counters the row still has, because nobody but a turn writes them. After a
takeover each message still to come is a line of one of two lists: `SendsLeft`
says that what was sent since, what the turn may still send (`TurnLeft`) and
what the delivering run has left stay together within `2 * Lines` and the
faults. The delivering run is one of possibly many, and it is `OneDelivery`
that makes it the only one, and a lost `recengine_running` that keeps another
from beginning after the takeover. `CampusTurn` names the points of a turn at
which the row asks for the campus while the parent is not stored yet.

### The ingress

`IngressProofs`, for every number of messages, redeliveries, faults and
reminders:

| Theorem | Property |
|---|---|
| `TypeCorrect` | `[]TypeOK` |
| `IngressInvariance` | `[]IInv` |
| `HeardOnce` | `[]OneTurnPerWebhook` |
| `NothingDropped` | `[]SilenceHasCause` |
| `FreshLeads` | `[]FreshLeadKept` |
| `RemindedSoOften` | `[]RemindersBounded` |
| `StoppedRemindedOnce` | `[]LateReminderBounded` |

A message can be in several places at once: twice in a burst, in the buffer
and in a burst in line, with the holder of the lock and with the agent's
handler. `TurnsAccepted` counts its copies over all of them, and a step moves
copies from one place to the next: the proof has a lemma for one fragment or
one burst pushed and popped, and one for each way a burst ends.
`SilenceHasCause` and `FreshLeadKept` are statements about dealt-with
messages; what is inductive is `Accounted`: as soon as a message is in the
table, so that a webhook of it will be dropped as a duplicate, it has its
turn, its reason or a copy somewhere, or was overtaken by a backfill. It needs
`StoredFirst` (a turn is decided about when its fragments are in the table)
and `Provenance` (who may be in which place), and that an agent's message
still unstored has its webhook or its handler, so that a backfill that meets
it marks it as overtaken (`HistoryHasCause`). The reminders need
`RemindersCounted`: the row's count is behind what was sent by the reminder
just sent and by one per fault. `RemindedLate` says that a reminder still owed
to a stopped conversation is the first since, but for the faults. `IInv` was
given to TLC as an invariant of `ingress` before it was proved; the run keeps
the properties only, as it is an invariant by theorem.

### The queue

`TagQueueProofs`, for every set of conversations, every finite set of manual
triggers at work at once (counting them is what needs it finite) and every gate,
cap and bound:

| Theorem | Property |
|---|---|
| `QueueTypeCorrect` | `[]TypeOK` |
| `QueueInvariance` | `[]QInv` |
| `AutoCapNeverExceeded` | `[]AutoCapKept` |
| `ManualDrawnOnce` | `[]NoDoubleSpending` |
| `ItemAndRunAgree` | `[]OutcomesAgree` |
| `NoOrphanWithoutFault` | `[]ProcessingIsHeld` |
| `NothingSkippedSilently` | `[]SkippedIsTagged` |

Here, too, what is wanted is not inductive. That item and run end alike rests
on `RunsBound` (each claimed item has a run of its own), `WorkerHolds` (only
the worker moves items on, and `success` in its hands is what the run row
already says) and `BatchHolds` (the runs the batch works on are bound to no
item). The cap of the scan rests on `ScanWithinCap`: the two sets it
keeps are disjoint and whoever is in one of them is below the cap, so that each
may be counted once more. `SkippedIsTagged` speaks of the idle worker;
`NothingLeftOut` says what must hold at each of its steps: a run is marked
successful before its result is applied, so the mark of the run under way is
exempted until the write-back, and until then what has been read covers all
that was stored, but for what came in behind its back. `NoDoubleSpending`
compares a counter with two cardinalities; its lemmas add and remove one
element at a time. The step proof goes by who moves: messages, scan, sweep and
triggers, the steps that append an item, the drain, the batch (by the shapes of
its two writes), and the faults.

### The tagging run

`TagRunProofs`, `TagEditsProofs` and `TagTypesProofs`, for every list of labels,
every table of names and aliases, every measure of distance, every speech, every
set of answers and edits:

| Theorem | Property |
|---|---|
| `EntriesKept` | `AgentEntryKept` |
| `LabelsKept` | `LateLabelsOnly` |
| `GenderHeardOf` | `[]GenderIsTheLeads` |
| `ReplicaKept` | `[]ReplicaFollows`, which no run checks |
| `DismissalRemembered` (`TagEditsProofs`) | `[]DismissalKept` |
| `CampusKept` (`TagEditsProofs`) | `CampusIsNamed` |
| `TypeCorrect` (`TagTypesProofs`) | `[]TypeOK` |

Each has an invariant of its own, all over `Shaped` (the fields of the
records). `Spares` says that at no point of a run there is a patch for a field
known to be an agent's; the gates of the merge (`MergeSpares`) give it for the
step that makes the patches, the comparison with Chatwoot for the one that
adds to them. `Late` ties the labels to be written to those that were read, by
what each rule keeps (`ResolvedKeeps`, `InfoCheckMoves`, `ComputeKeeps`).
`OfTheLead` follows a gender from the messages to the row; it needs that
threads only grow (`Threaded`, `SignalStays`). `ReplicaFollows` has two
excuses, a webhook skipped and handlers that crossed; while neither has
happened one handler at most has a webhook to store (`OneStores`), and the
last webhook, in line, in its hands or stored, says what Chatwoot has
(`Latest`): `Follows`. The excuse is large: where an agent edits faster than a
handler writes, the replica may be left with older labels until the next
webhook.

A dismissal is seen by comparing what a webhook says with what the replica said
before, and the flag is read when the webhook is received, while the agent may
have acted several webhooks earlier. `Dismissing` says why this is right when
nobody but agents moves the flag and no handlers cross (`Excused`): along the
webhooks under way, and from the replica to the first of them, the label goes
down and never up again (`NoWayUp`), so that one webhook only can be the
dismissal; until it is received the row still has the dismissed flag, while it
is handled the handler has it, and afterwards it is suppressed (`Remembered`).

`CampusKept` follows a university backwards from the row: the patch was
accepted from a proposal (`UniversityAccepted`), and the proposal is what
`Override` made of the LLM's answer, in which it puts the lead's words first
(`OverrideNamed`). A proposal comes back through the list's entries
(`ResolvedFromList`), where the key of `ListValues` is needed: with two rows
of one university the entry shown and the entry found could differ.

`TypeOK` is not inductive alone: the handler reads the gender out of a webhook
that may not show one, and looks only where it does (`GenderShown`). What
remains are the types of what the rules return, `MatchTyped`, `ScanTyped`,
`OverrideTyped`, `VerdictsTyped` and `InfoCheckTyped`, by which row or window
a `CHOOSE` picks (`FirstIndex`, `FirstWindowIsOne`: there is a first one).

### Model-checked only

`TurnsEnd`, `RecommendationResolves`, `ItemsResolve` and `BufferedSettles`:
liveness under fairness is out of the prover's reach. The assumptions of
`MCTagRun`, which compare the matching with a reference on small tables. And the
violations, which are counterexamples.

## Divergences without a run of their own

Met while modelling, and in the models as the code has them:

* `router.py:287-303`: after a failed fetch the log says reconciliation is
  skipped, but it runs against an empty dictionary, so that every value of the
  row is pushed, a human's included (`RunFetches`, `blind`). docs/024:9 calls
  `set_by='human'` sacred.
* `conversation_updated` marks university and gender as a human's whenever the
  payload shows them, changed or not; InfoGatherer's own writes are not
  recorded as the bot's and come back as a human's. A gender shown as unknown
  is stored as NULL, set by a human.
* `attribute_resolver.py:55` marks the companions as InfoGatherer's after its
  HTTP call, whoever has set them meanwhile (`FillerMarks`).
* An agent who clears a human-set university has the old value pushed over it.
  Flagging again while the dismissal's webhook is under way makes a second
  dismissal overwrite the suppressed fingerprint with NULL; so does, without
  any second dismissal, a second webhook handled meanwhile (`tag_dismiss`).
* The handlers of `conversation_updated` store whole sets of labels in the
  order in which they get there. An older webhook that is stored last leaves
  older labels in the replica, and one from before the flag was put up counts
  as its dismissal.
* docs/018:304-319 describe an expiry of the info-check flag; the branch
  (`info_check.py:59`) looks for the label after it was stripped and is never
  taken. With an agent assigned, the run's own removal of the flag counts as
  the agent's dismissal.
* Labels of `LIST_2` can share a group with one another after the merge, since
  they are added back after the mutual exclusion. The trigger label `tag`
  stays where nothing else changes.
* docs/031, C3, takes what the first-sight backfill inserts for genuinely
  prior messages; with messages under way it is not (`FreshLeadKept`).
* `batch_client.py:28-29` says that a conversation with a processing run is
  skipped; the eligibility query looks at the queue only. Its comment at 87-88
  (no orphan is left) holds without faults (`ProcessingIsHeld`).
* `trigger.py:116` computes tomorrow with `day + 1`: on the last day of a
  month, after the hour has passed, it raises before the loop's first
  suspension and the loop spins until the date changes. Calendar arithmetic is
  not modelled.
* `conflict.may_overwrite`, the answer classifier and the turn handlers at
  `info_gatherer.py:913-975` are called by tests or by nothing.

## Not modelled, and why

* Texts: prompts, phrase lists of the automation gate and of the price rule,
  payload parsing. What they find in a text is a choice of the actions, or a
  class of messages. A turn with an empty message is left out.
* The pauses of `send_with_retry`, and its tries that Chatwoot did not take: they
  leave nothing behind. `outbound_block`, a mode of operation.
* In `Ingress`: a debounce window of zero, the live-testing limit (it needs
  several conversations), the parsing of chat commands, the webhooks of the
  bot's own messages (one step with sending them), a second agent message while
  the first is handled. Awaits of the live trace never suspend and are no steps.
* In `TagRun`: several runs at once (the queue has one worker), the minutes for
  which tables are cached. A handler has read the row when it takes its webhook;
  its query for the university reads a table nobody writes, and is no step.
* In `TagQueue`: the branch after a successful batch submission and the results
  webhook, which the stub makes unreachable; the rate-limit backoff, whose
  exception nothing raises; `sweep_clean`, an operator's wipe of all tables; a
  second worker, as the process is deployed once (`claim_queue_item`'s refusal
  is in the model all the same, and unreachable).
* Log rows, traces, keepalive (it requests the service's own health page),
  start-up checks, dashboard (it reads, and keeps notes of its own), scripts.

## Plan

1. Proofs about the pure rules for every list and table: at most one label of
   a group after `Resolutions` but for `LIST_2`, what the matching returns is
   the first row that matches.
2. What the counterexamples leave true, as theorems: the manual cap is passed by
   no more than the triggers at work at once; an item stays `processing` only
   after a fault.
3. `Ingress` and `LeadConversation` composed: the turn of the one with the
   admission of the other.
4. Several conversations at ingress, for the live-testing limit.
