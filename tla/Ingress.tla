------------------------------- MODULE Ingress -------------------------------
(***************************************************************************)
(* How what is said in one Chatwoot conversation reaches the database and  *)
(* InfoGatherer (app/webhooks/chatwoot.py): the webhooks and their         *)
(* duplicate check, the debounce buffer, the processing lock, the          *)
(* first-sight backfill, the agent who takes over, the backfill of a       *)
(* TagAssigner run (app/tagassigner/context_backfill.py) and the reprompt  *)
(* sweep (app/background/reprompt_sweep.py).  All are asyncio tasks of one *)
(* process; what happens between two awaits is one step.                   *)
(*                                                                         *)
(* Messages are numbered in the order they are said.  A turn is taken for  *)
(* what the ingress sees of it: whether it was admitted, what it did to    *)
(* the flow state and whether the bot spoke (InfoGatherer has the rest).   *)
(***************************************************************************)
EXTENDS Naturals, Sequences, FiniteSets

CONSTANTS
    Ladder,         \* 3: len(REPROMPT_MESSAGES)
    MaxMessages,    \* bound: messages said by others than the bot
    MaxRedeliveries,\* bound: webhooks delivered once more
    MaxFaults       \* bound: lost webhooks, timeouts, exceptions and restarts

ASSUME BoundsAssumption ==
    /\ Ladder \in Nat \ {0}
    /\ MaxMessages \in Nat /\ MaxRedeliveries \in Nat /\ MaxFaults \in Nat

Ids == 1 .. MaxMessages

Kinds == {"lead", "agent", "automation", "note"}

\* The awaiting_* states are one here, and a matching takes no time.
Admitting == {"new", "awaiting", "completed"}

FlowStates == Admitting \cup {"stopped", "human_needed"}

VARIABLES
    said,       \* the Chatwoot thread, without the bot's messages
    old,        \* the part of it from before the webhooks were connected
    wire,       \* messages whose webhook is under way
    repeats,    \* redeliveries so far
    stored,     \* the messages table
    row,        \* the conversations row
    buffer,     \* _debounce_buffers: the fragments, behind one timer
    waiting,    \* bursts in line for the processing lock
    proc,       \* the holder of the lock
    agent,      \* the handler of an agent's message
    tagger,     \* what a TagAssigner backfill has still to look at
    sweep,      \* the reprompt sweep
    seen,       \* history, see Seen
    faults

vars == <<said, old, wire, repeats, stored, row, buffer, waiting, proc, agent,
          tagger, sweep, seen, faults>>

(***************************************************************************)
(* quiet: last_updated_at, rested: last_reprompt_sent_at lies three hours  *)
(* back or more.                                                           *)
(***************************************************************************)
Row == [exists     : BOOLEAN,
        flow       : FlowStates,
        botEnabled : BOOLEAN,
        reason     : {"none", "prior_history", "backfill_failed", "outbound_first"},
        backfilled : BOOLEAN,
        reprompts  : Nat,
        quiet      : BOOLEAN,
        rested     : BOOLEAN]

Proc == [pc    : {"idle", "persist", "fetch", "fill", "mark", "reread", "abstain",
                  "turn", "say"},
         burst : Seq(Ids),              \* the fragments of the turn
         todo  : Seq(Ids),              \* of them, those still to be inserted
         fill  : SUBSET Ids,            \* transcript messages still to be looked at
         found : {"fresh", "prior_history", "backfill_failed"},
         copy  : Row]                   \* `conversation`

Agent == [pc   : {"idle", "persist", "stop", "first", "abstain", "insert"},
          msg  : Ids \cup {0},
          todo : Seq(Ids)]

Sweep == [pc : {"asleep", "due", "send", "count"}, count : Nat]

(***************************************************************************)
(* accepted: times a message entered the buffer; heard: turns admitted     *)
(* with it; ignored: in a burst that was not admitted; handed: left to the *)
(* agent; overtaken: stored by a backfill while their own webhook or       *)
(* fragment was under way; reminders: those that reached the lead; late:   *)
(* of them, since an agent stopped the conversation.                       *)
(***************************************************************************)
Seen == [accepted  : [Ids -> Nat],
         heard     : [Ids -> Nat],
         ignored   : SUBSET Ids,
         handed    : SUBSET Ids,
         overtaken : SUBSET Ids,
         reminders : Nat,
         late      : Nat]

NewRow == [exists |-> FALSE, flow |-> "new", botEnabled |-> TRUE, reason |-> "none",
           backfilled |-> FALSE, reprompts |-> 0, quiet |-> FALSE, rested |-> FALSE]

IdleProc == [pc |-> "idle", burst |-> <<>>, todo |-> <<>>, fill |-> {},
             found |-> "fresh", copy |-> NewRow]

IdleAgent == [pc |-> "idle", msg |-> 0, todo |-> <<>>]

Asleep == [pc |-> "asleep", count |-> 0]

TypeOK ==
    /\ said \in Seq(Kinds) /\ Len(said) <= MaxMessages
    /\ old \in SUBSET Ids /\ wire \in SUBSET Ids /\ stored \in SUBSET Ids
    /\ repeats \in Nat /\ faults \in Nat
    /\ row \in Row
    /\ buffer \in Seq(Ids)
    /\ waiting \in Seq(Seq(Ids))
    /\ proc \in Proc
    /\ agent \in Agent
    /\ tagger \in SUBSET Ids
    /\ sweep \in Sweep
    /\ seen \in Seen

\* A conversation may be older than the integration.
Init ==
    /\ said = <<>> \/ (MaxMessages > 0 /\ said = <<"lead">>)
    /\ old = DOMAIN said
    /\ wire = {} /\ stored = {} /\ tagger = {}
    /\ repeats = 0 /\ faults = 0
    /\ row = NewRow
    /\ buffer = <<>> /\ waiting = <<>>
    /\ proc = IdleProc /\ agent = IdleAgent /\ sweep = Asleep
    /\ seen = [accepted |-> [m \in Ids |-> 0], heard |-> [m \in Ids |-> 0],
               ignored |-> {}, handed |-> {}, overtaken |-> {},
               reminders |-> 0, late |-> 0]

----------------------------------------------------------------------------
Elements(s) == {s[i] : i \in DOMAIN s}

\* What fetch_all_messages returns and the backfill looks at: no private notes.
Transcript == {m \in DOMAIN said : said[m] # "note"}

\* Fragments of a message that wait for their insert.
Copies(m) ==
    Cardinality({i \in DOMAIN buffer : buffer[i] = m})
  + Cardinality({b \in DOMAIN waiting : m \in Elements(waiting[b])})
  + (IF proc.pc \in {"persist", "fetch", "fill", "mark", "reread", "abstain"}
        /\ m \in Elements(proc.burst) THEN 1 ELSE 0)
  + Cardinality({i \in DOMAIN agent.todo : agent.todo[i] = m})

UnderWay(m) == m \in wire \/ m = agent.msg \/ Copies(m) > 0

\* Any write that sets last_updated_at = now().
Touch(r) == [r EXCEPT !.quiet = FALSE]

\* The lead, an agent or Chatwoot's automation writes.
Someone ==
    /\ Len(said) < MaxMessages
    /\ \E kind \in Kinds : said' = Append(said, kind)
    /\ wire' = wire \cup {Len(said) + 1}
    /\ UNCHANGED <<old, repeats, stored, row, buffer, waiting, proc, agent, tagger,
                   sweep, seen, faults>>

\* Chatwoot delivers a webhook it has delivered before.
Redeliver ==
    /\ repeats < MaxRedeliveries
    /\ repeats' = repeats + 1
    /\ \E m \in DOMAIN said : m \notin wire \cup old /\ wire' = wire \cup {m}
    /\ UNCHANGED <<said, old, stored, row, buffer, waiting, proc, agent, tagger,
                   sweep, seen, faults>>

----------------------------------------------------------------------------
\* The webhook's duplicate check (message_exists).
Duplicate ==
    /\ \E m \in wire \cap stored : wire' = wire \ {m}
    /\ UNCHANGED <<said, old, repeats, stored, row, buffer, waiting, proc, agent,
                   tagger, sweep, seen, faults>>

Arrives(m, kinds) ==
    /\ m \in wire \ stored
    /\ said[m] \in kinds
    /\ wire' = wire \ {m}

\* _enqueue_debounced_inbound: the old timer is cancelled, a new one started.
Enqueue ==
    /\ \E m \in Ids :
          /\ Arrives(m, {"lead"})
          /\ buffer' = Append(buffer, m)
          /\ seen' = [seen EXCEPT !.accepted[m] = @ + 1]
    /\ UNCHANGED <<said, old, repeats, stored, row, waiting, proc, agent, tagger,
                   sweep, faults>>

\* Private notes and the automation's message are stored, and no more; a note
\* does not advance the activity clock.  (The bot's own messages are stored
\* the same way; here that is one step with sending them.)
StoreOnly ==
    /\ \E m \in Ids :
          /\ Arrives(m, {"note", "automation"})
          /\ stored' = stored \cup {m}
          /\ LET r == [row EXCEPT !.exists = TRUE]
             IN  row' = IF said[m] = "note" THEN r ELSE Touch(r)
    /\ UNCHANGED <<said, old, repeats, buffer, waiting, proc, agent, tagger, sweep,
                   seen, faults>>

----------------------------------------------------------------------------
\* Mutant: the buffer is not popped.
Flush_KeepsBuffer ==
    /\ buffer # <<>>
    /\ Len(waiting) < MaxMessages
    /\ waiting' = Append(waiting, buffer)
    /\ UNCHANGED <<said, old, wire, repeats, stored, row, buffer, proc, agent, tagger,
                   sweep, seen, faults>>

\* Mutant: the flush cancels the task it runs on.
Flush_CancelsItself ==
    /\ buffer # <<>>
    /\ buffer' = <<>>
    /\ UNCHANGED <<said, old, wire, repeats, stored, row, waiting, proc, agent, tagger,
                   sweep, seen, faults>>

\* The timer rings: _flush_debounce pops the buffer and queues for the lock.
Flush ==
    /\ buffer # <<>>
    /\ waiting' = Append(waiting, buffer)
    /\ buffer' = <<>>
    /\ UNCHANGED <<said, old, wire, repeats, stored, row, proc, agent, tagger, sweep,
                   seen, faults>>

Ignore(burst) == seen' = [seen EXCEPT !.ignored = @ \cup Elements(burst)]

\* process_message on the copy it was given: the flow states it does nothing in.
Admit(copy) ==
    IF copy.flow \in Admitting /\ copy.botEnabled
    THEN /\ seen' = [seen EXCEPT !.heard =
               [m \in Ids |-> IF m \in Elements(proc.burst) THEN @[m] + 1 ELSE @[m]]]
         /\ proc' = [proc EXCEPT !.pc = "turn", !.todo = <<>>, !.copy = copy]
    ELSE Ignore(proc.burst) /\ proc' = IdleProc

\* The lock is granted in order; upsert_conversation returns the row.
TakeLock ==
    /\ proc.pc = "idle"
    /\ waiting # <<>>
    /\ row' = [row EXCEPT !.exists = TRUE]
    /\ proc' = [IdleProc EXCEPT !.pc = "persist", !.burst = Head(waiting),
                                !.todo = Head(waiting), !.copy = row']
    /\ waiting' = Tail(waiting)
    /\ UNCHANGED <<said, old, wire, repeats, stored, buffer, agent, tagger, sweep,
                   seen, faults>>

\* _persist_inbound_fragments, one insert_message at a time.
PersistFragment ==
    /\ proc.pc = "persist"
    /\ stored' = stored \cup {Head(proc.todo)}
    /\ row' = Touch(row)
    /\ IF Len(proc.todo) = 1 /\ proc.copy.backfilled
       THEN Admit(proc.copy)
       ELSE /\ proc' = [proc EXCEPT !.todo = Tail(@),
                                    !.pc   = IF Len(proc.todo) = 1 THEN "fetch" ELSE "persist"]
            /\ UNCHANGED seen
    /\ UNCHANGED <<said, old, wire, repeats, buffer, waiting, agent, tagger, sweep,
                   faults>>

----------------------------------------------------------------------------
\* backfill_conversation_messages: the transcript as it is now, or nothing.
FetchTranscript ==
    /\ proc.pc = "fetch"
    /\ \/ proc' = [proc EXCEPT !.pc = IF Transcript = {} THEN "mark" ELSE "fill",
                               !.fill = Transcript]
       \/ proc' = [proc EXCEPT !.pc = "mark", !.found = "backfill_failed"]
    /\ UNCHANGED <<said, old, wire, repeats, stored, row, buffer, waiting, agent,
                   tagger, sweep, seen, faults>>

\* The next message of the transcript, if it is missing; no activity.
Fill(m, todo) ==
    /\ m \in todo /\ \A n \in todo : m <= n
    /\ stored' = stored \cup {m}
    /\ seen' = IF m \in stored THEN seen
               ELSE [seen EXCEPT !.overtaken = @ \cup {n \in {m} : UnderWay(n)}]

FillNext(inserts) ==
    /\ proc.pc = "fill"
    /\ \E m \in Ids :
          /\ Fill(m, proc.fill)
          /\ proc' = [proc EXCEPT !.fill  = @ \ {m},
                                  !.found = IF m \in inserts THEN "prior_history" ELSE @,
                                  !.pc    = IF proc.fill = {m} THEN "mark" ELSE "fill"]
    /\ UNCHANGED <<said, old, wire, repeats, row, buffer, waiting, agent, tagger,
                   sweep, faults>>

\* Mutant: every message of the transcript counts as inserted.
FillTranscript_CountsAll == FillNext(Ids)

FillTranscript == FillNext(Ids \ stored)

\* Mutant: a fresh thread is not told apart.
MarkBackfilled_AllAbstain ==
    /\ proc.pc = "mark"
    /\ row' = Touch([row EXCEPT !.backfilled = TRUE])
    /\ proc' = [proc EXCEPT !.pc = "abstain"]
    /\ UNCHANGED <<said, old, wire, repeats, stored, buffer, waiting, agent, tagger,
                   sweep, seen, faults>>

\* mark_conversation_history_backfilled
MarkBackfilled ==
    /\ proc.pc = "mark"
    /\ row' = Touch([row EXCEPT !.backfilled = TRUE])
    /\ proc' = [proc EXCEPT !.pc = IF proc.found = "fresh" THEN "reread" ELSE "abstain"]
    /\ UNCHANGED <<said, old, wire, repeats, stored, buffer, waiting, agent, tagger,
                   sweep, seen, faults>>

\* The turn goes on with the row as it is after the backfill.
Reread ==
    /\ proc.pc = "reread"
    /\ Admit(row)
    /\ UNCHANGED <<said, old, wire, repeats, stored, row, buffer, waiting, agent,
                   tagger, sweep, faults>>

\* set_infogatherer_abstain; the turn is skipped.
Abstain ==
    /\ proc.pc = "abstain"
    /\ row' = Touch([row EXCEPT !.botEnabled = FALSE, !.reason = proc.found])
    /\ Ignore(proc.burst)
    /\ proc' = IdleProc
    /\ UNCHANGED <<said, old, wire, repeats, stored, buffer, waiting, agent, tagger,
                   sweep, faults>>

----------------------------------------------------------------------------
\* A turn may read the row again (after a gender was extracted), ...
TurnRereads ==
    /\ proc.pc = "turn"
    /\ proc' = [proc EXCEPT !.copy = row]
    /\ UNCHANGED <<said, old, wire, repeats, stored, row, buffer, waiting, agent,
                   tagger, sweep, seen, faults>>

\* ... moves the flow on if the copy's state still holds, or escalates, ...
TurnMoves ==
    /\ proc.pc = "turn"
    /\ \/ /\ row.flow = proc.copy.flow
          /\ \E flow \in {"awaiting", "completed"} : row' = Touch([row EXCEPT !.flow = flow])
          /\ proc' = [proc EXCEPT !.pc = "say"]
       \/ /\ row' = Touch([row EXCEPT !.flow = "human_needed"])
          /\ proc' = IdleProc
    /\ UNCHANGED <<said, old, wire, repeats, stored, buffer, waiting, agent, tagger,
                   sweep, seen, faults>>

\* ... and ends, with or without a message.
TurnEnds ==
    /\ proc.pc \in {"turn", "say"}
    /\ row' \in {row, Touch(row)}
    /\ proc' = IdleProc
    /\ UNCHANGED <<said, old, wire, repeats, stored, buffer, waiting, agent, tagger,
                   sweep, seen, faults>>

----------------------------------------------------------------------------
AgentAt(pc) == agent' = [agent EXCEPT !.pc = pc]

\* Mutant: the buffered fragments are discarded (before Spec 031 F2).
AgentArrives_Discards ==
    /\ agent.pc = "idle"
    /\ \E m \in Ids :
          /\ Arrives(m, {"agent"})
          /\ agent' = [pc |-> "stop", msg |-> m, todo |-> <<>>]
    /\ row' = [row EXCEPT !.exists = TRUE]
    /\ buffer' = <<>>
    /\ UNCHANGED <<said, old, repeats, stored, waiting, proc, tagger, sweep, seen, faults>>

\* A message by a human agent takes the pending buffer with it
\* (_persist_pending_debounce).  Bound: one such handler at a time.
AgentArrives ==
    /\ agent.pc = "idle"
    /\ \E m \in Ids :
          /\ Arrives(m, {"agent"})
          /\ agent' = [pc   |-> IF buffer = <<>> THEN "stop" ELSE "persist",
                       msg  |-> m,
                       todo |-> buffer]
    /\ row' = [row EXCEPT !.exists = TRUE]
    /\ buffer' = <<>>
    /\ UNCHANGED <<said, old, repeats, stored, waiting, proc, tagger, sweep, seen, faults>>

AgentPersists ==
    /\ agent.pc = "persist"
    /\ stored' = stored \cup {Head(agent.todo)}
    /\ seen' = [seen EXCEPT !.handed = @ \cup {Head(agent.todo)}]
    /\ row' = Touch(row)
    /\ agent' = [agent EXCEPT !.todo = Tail(@),
                              !.pc   = IF Len(agent.todo) > 1 THEN "persist" ELSE "stop"]
    /\ UNCHANGED <<said, old, wire, repeats, buffer, waiting, proc, tagger, sweep, faults>>

\* set_conversation_stopped
AgentStops ==
    /\ agent.pc = "stop"
    /\ row' = Touch([row EXCEPT !.flow = "stopped"])
    /\ seen' = IF row.flow = "stopped" THEN seen ELSE [seen EXCEPT !.late = 0]
    /\ AgentAt("first")
    /\ UNCHANGED <<said, old, wire, repeats, stored, buffer, waiting, proc, tagger,
                   sweep, faults>>

\* conversation_has_messages
AgentLooks ==
    /\ agent.pc = "first"
    /\ AgentAt(IF stored = {} THEN "abstain" ELSE "insert")
    /\ UNCHANGED <<said, old, wire, repeats, stored, row, buffer, waiting, proc, tagger,
                   sweep, seen, faults>>

AgentSpokeFirst ==
    /\ agent.pc = "abstain"
    /\ row' = Touch([row EXCEPT !.botEnabled = FALSE, !.reason = "outbound_first"])
    /\ AgentAt("insert")
    /\ UNCHANGED <<said, old, wire, repeats, stored, buffer, waiting, proc, tagger,
                   sweep, seen, faults>>

AgentStored ==
    /\ agent.pc = "insert"
    /\ stored' = stored \cup {agent.msg}
    /\ row' = Touch(row)
    /\ agent' = IdleAgent
    /\ UNCHANGED <<said, old, wire, repeats, buffer, waiting, proc, tagger, sweep,
                   seen, faults>>

----------------------------------------------------------------------------
\* A full-history run of the TagAssigner fetches the transcript as well.
TaggerFetches ==
    /\ row.exists /\ tagger = {}
    /\ Transcript \ stored # {}
    /\ tagger' = Transcript
    /\ UNCHANGED <<said, old, wire, repeats, stored, row, buffer, waiting, proc, agent,
                   sweep, seen, faults>>

TaggerFills ==
    /\ \E m \in Ids : Fill(m, tagger) /\ tagger' = tagger \ {m}
    /\ UNCHANGED <<said, old, wire, repeats, row, buffer, waiting, proc, agent, sweep,
                   faults>>

----------------------------------------------------------------------------
\* Three hours pass, longer than any task takes but the sweep's own.
HoursPass ==
    /\ wire = {} /\ buffer = <<>> /\ waiting = <<>> /\ tagger = {}
    /\ proc.pc = "idle" /\ agent.pc = "idle"
    /\ ~row.quiet \/ ~row.rested \/ sweep.pc = "asleep"
    /\ row' = [row EXCEPT !.quiet = TRUE, !.rested = TRUE]
    /\ sweep' = IF sweep.pc = "asleep" THEN [sweep EXCEPT !.pc = "due"] ELSE sweep
    /\ UNCHANGED <<said, old, wire, repeats, stored, buffer, waiting, proc, agent,
                   tagger, seen, faults>>

Pauses ==
    \/ row.reprompts = 0 /\ row.quiet
    \/ row.reprompts \in 1 .. Ladder - 1 /\ row.rested

\* Mutant: the query leaves out the flow states.
AwaitsReprompt_Anyhow == row.exists /\ Pauses

\* get_conversations_awaiting_reprompt
AwaitsReprompt ==
    /\ row.exists
    /\ row.flow = "awaiting"
    /\ Pauses

SweepReads ==
    /\ sweep.pc = "due"
    /\ sweep' = IF AwaitsReprompt THEN [pc |-> "send", count |-> row.reprompts] ELSE Asleep
    /\ UNCHANGED <<said, old, wire, repeats, stored, row, buffer, waiting, proc, agent,
                   tagger, seen, faults>>

\* A reminder reaches the lead.
Remind ==
    /\ sweep.pc = "send"
    /\ row' = Touch(row)
    /\ seen' = [seen EXCEPT !.reminders = @ + 1,
                            !.late = IF row.flow = "stopped" THEN @ + 1 ELSE @]
    /\ UNCHANGED <<said, old, wire, repeats, stored, buffer, waiting, proc, agent, tagger>>

\* Mutant: what was sent is not counted.
SweepSends_Uncounted == Remind /\ sweep' = Asleep /\ UNCHANGED faults

\* send_with_retry: sent, or given up.
SweepSends ==
    \/ Remind /\ sweep' = [sweep EXCEPT !.pc = "count"] /\ UNCHANGED faults
    \/ /\ sweep.pc = "send" /\ sweep' = Asleep
       /\ UNCHANGED <<said, old, wire, repeats, stored, row, buffer, waiting, proc, agent,
                      tagger, seen, faults>>

\* increment_reprompt_count
SweepCounts ==
    /\ sweep.pc = "count"
    /\ row' = [Touch(row) EXCEPT !.reprompts = @ + 1, !.rested = FALSE]
    /\ sweep' = Asleep
    /\ UNCHANGED <<said, old, wire, repeats, stored, buffer, waiting, proc, agent,
                   tagger, seen, faults>>

----------------------------------------------------------------------------
Fault == faults < MaxFaults /\ faults' = faults + 1

\* Chatwoot took the reminder and did not answer in time: send_with_retry
\* makes another try, or has made its last.
SweepTimesOut == Fault /\ Remind /\ UNCHANGED sweep

\* Chatwoot does not reach the process.
WebhookLost ==
    /\ Fault
    /\ \E m \in wire : wire' = wire \ {m}
    /\ UNCHANGED <<said, old, repeats, stored, row, buffer, waiting, proc, agent, tagger,
                   sweep, seen>>

\* An exception ends the burst, the takeover, the backfill or the sweep; the
\* lock is released.
TaskRaises ==
    /\ Fault
    /\ \/ proc.pc # "idle" /\ proc' = IdleProc /\ UNCHANGED <<agent, tagger, sweep>>
       \/ agent.pc # "idle" /\ agent' = IdleAgent /\ UNCHANGED <<proc, tagger, sweep>>
       \/ tagger # {} /\ tagger' = {} /\ UNCHANGED <<proc, agent, sweep>>
       \/ sweep.pc # "asleep" /\ sweep' = Asleep /\ UNCHANGED <<proc, agent, tagger>>
    /\ UNCHANGED <<said, old, wire, repeats, stored, row, buffer, waiting, seen>>

\* The process dies: what was buffered is gone.
Restart ==
    /\ Fault
    /\ buffer' = <<>> /\ waiting' = <<>>
    /\ proc' = IdleProc /\ agent' = IdleAgent /\ tagger' = {} /\ sweep' = Asleep
    /\ UNCHANGED <<said, old, wire, repeats, stored, row, seen>>

----------------------------------------------------------------------------
Process ==
    \/ TakeLock \/ PersistFragment \/ FetchTranscript \/ FillTranscript
    \/ MarkBackfilled \/ Reread \/ Abstain \/ TurnMoves \/ TurnEnds

HandleAgent ==
    \/ AgentPersists \/ AgentStops \/ AgentLooks \/ AgentSpokeFirst \/ AgentStored

Next ==
    \/ Someone \/ Redeliver \/ Duplicate \/ Enqueue \/ StoreOnly \/ Flush
    \/ Process \/ TurnRereads
    \/ AgentArrives \/ HandleAgent
    \/ TaggerFetches \/ TaggerFills
    \/ HoursPass \/ SweepReads \/ SweepSends \/ SweepCounts
    \/ SweepTimesOut \/ WebhookLost \/ TaskRaises \/ Restart

Spec == Init /\ [][Next]_vars

\* Timers ring and tasks run.  Chatwoot and its users owe nothing.
FairSpec == Spec /\ WF_vars(Flush) /\ WF_vars(Process) /\ WF_vars(HandleAgent)

----------------------------------------------------------------------------
Leads == {m \in DOMAIN said : said[m] = "lead"}

\* The message came before the bot, or somebody was to see to it.
Settled(m) ==
    \/ seen.heard[m] > 0
    \/ m \in seen.handed \cup seen.ignored

\* A lead's message is never dropped without a reason: once its webhook and
\* its fragments are dealt with it was in a turn, left to an agent, or in a
\* burst the bot abstained from, unless a backfill stored it before its own
\* webhook came, which then looked like a duplicate.  Timers are cancelled
\* and buffers popped from several tasks (_enqueue_debounced_inbound,
\* _flush_debounce, _persist_pending_debounce).
SilenceHasCause ==
    faults = 0 =>
        \A m \in Leads \ old : Settled(m) \/ UnderWay(m) \/ m \in seen.overtaken

\* However the buffer is popped, flushed and taken over, every webhook that
\* got past the duplicate check makes for at most one turn.
OneTurnPerWebhook == \A m \in Leads : seen.heard[m] + Copies(m) <= seen.accepted[m]

\* docs/031, C3, takes what the first-sight backfill inserts for messages
\* from before.  A lead without any is kept from the bot only when a backfill
\* stored a message whose own webhook or fragment was still under way.
FreshLeadKept ==
    row.reason = "prior_history" /\ old = {} /\ faults = 0 => seen.overtaken # {}

\* The lead is reminded Ladder times; each fault costs one more: a send that
\* timed out although Chatwoot took it and is made again (send_with_retry), or
\* one whose count was lost (_run_sweep).
RemindersBounded == seen.reminders <= Ladder + faults

\* _run_sweep reads all rows first and sends afterwards, one after another and
\* with retries.  An agent who stops the conversation in between is still
\* followed by a reminder, but by one only, and by one more for each send
\* that timed out.
LateReminderBounded == seen.late <= 1 + faults

\* Every message that got into the buffer gets its turn or its reason, unless
\* a fault got in between (the timer, the lock, the takeover).
BufferedSettles ==
    \A m \in Ids : seen.accepted[m] > 0 ~> Settled(m) \/ faults > 0
----------------------------------------------------------------------------
(***************************************************************************)
(* The inductive strengthening of the safety invariants: how what was said *)
(* is spread over wire, fragments, transcripts and the messages table.     *)
(***************************************************************************)
\* A burst has a fragment, a task with inserts to make knows of which, and the
\* bot abstains for a reason.
WorkAtHand ==
    /\ \A b \in DOMAIN waiting : waiting[b] # <<>>
    /\ proc.pc = "persist" => proc.todo # <<>>
    /\ proc.pc = "abstain" => proc.found # "fresh"
    /\ agent.pc = "persist" <=> agent.todo # <<>>
    /\ agent.pc = "idle" <=> agent.msg = 0

\* Nothing is handled that was not said; only leads' messages are buffered,
\* and only an agent's stops the bot.
Provenance ==
    /\ old \cup wire \cup stored \subseteq DOMAIN said
    /\ tagger \cup proc.fill \subseteq Transcript
    /\ Elements(buffer) \cup Elements(proc.burst) \cup Elements(agent.todo) \subseteq Leads
    /\ \A b \in DOMAIN waiting : Elements(waiting[b]) \subseteq Leads
    /\ agent.msg # 0 => agent.msg \in DOMAIN said /\ said[agent.msg] = "agent"

\* A turn is decided about when its fragments are in the table.
StoredFirst ==
    /\ proc.pc = "persist" =>
          /\ Elements(proc.todo) \subseteq Elements(proc.burst)
          /\ Elements(proc.burst) \subseteq stored \cup Elements(proc.todo)
    /\ proc.pc # "persist" => Elements(proc.burst) \subseteq stored
    /\ \A m \in Ids : Settled(m) => m \in stored

\* What is in the table, and whose webhook will look like a duplicate, has its
\* turn, its reason or its fragment; what is no lead's waits for nothing else
\* than its own webhook.
Accounted ==
    faults = 0 => \A m \in DOMAIN said \ old :
        /\ said[m] = "lead" /\ m \in stored
           => Settled(m) \/ Copies(m) > 0 \/ m \in seen.overtaken
        /\ said[m] # "lead" => m \in stored \cup wire \cup {agent.msg}

\* A backfill finds history where there is none only by overtaking.
HistoryHasCause ==
    faults = 0 /\ old = {} /\ "prior_history" \in {proc.found, row.reason}
    => seen.overtaken # {}

TurnsAccepted == \A m \in Ids : seen.heard[m] + Copies(m) <= seen.accepted[m]

\* The sweep's count is behind by the reminder it has just sent, and by one
\* for every fault that fell between the two.
RemindersCounted ==
    /\ row.reprompts <= Ladder
    /\ sweep.pc \in {"send", "count"} => row.reprompts < Ladder
    /\ seen.reminders <= row.reprompts + faults + (IF sweep.pc = "count" THEN 1 ELSE 0)

\* The sweep does not pick a conversation that is stopped; the reminder it owes
\* one that was stopped meanwhile is either still to be sent or the last.
RemindedLate ==
    /\ seen.late <= 1 + faults
    /\ row.flow = "stopped" /\ sweep.pc = "send" => seen.late <= faults

IInv ==
    /\ TypeOK
    /\ WorkAtHand
    /\ Provenance
    /\ StoredFirst
    /\ Accounted
    /\ SilenceHasCause
    /\ HistoryHasCause
    /\ TurnsAccepted
    /\ RemindersCounted
    /\ RemindedLate
=============================================================================
