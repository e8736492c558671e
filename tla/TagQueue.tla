------------------------------ MODULE TagQueue ------------------------------
(***************************************************************************)
(* TagAssigner's durable queue: the idle scan, the operator's sweep and    *)
(* the manual triggers that fill it (app/tagassigner/trigger.py, sweep.py, *)
(* app/webhooks/chatwoot.py), the worker that drains it                    *)
(* (app/tagassigner/queue.py) and what a run reads and leaves behind       *)
(* (app/tagassigner/router.py).  All are asyncio tasks of one process; a   *)
(* statement of app/db/queries.py is one step.                             *)
(*                                                                         *)
(* The messages of a conversation are numbered in the order they are       *)
(* stored; completed_at is the number of messages stored by then.  The     *)
(* submission of the nightly batch is a stub that always fails.            *)
(***************************************************************************)
EXTENDS Naturals, Sequences, FiniteSets

CONSTANTS
    Convs,          \* conversations
    Handlers,       \* manual triggers: one background task each
    MessageGate,    \* 5: messages since the last run that make the scan act
    AutoCap,        \* 5: automated runs a day
    ManualCap,      \* 5: manual runs a day
    MaxMessages,    \* bound: messages stored per conversation
    MaxItems,       \* bound: rows of the queue
    MaxNights,      \* bound: nightly batches
    MaxFaults       \* bound: exceptions and process restarts

ASSUME ParametersAssumption ==
    /\ MessageGate \in Nat \ {0}
    /\ AutoCap \in Nat /\ ManualCap \in Nat
    /\ MaxMessages \in Nat /\ MaxItems \in Nat
    /\ MaxNights \in Nat /\ MaxFaults \in Nat

ASSUME HandlersAssumption == IsFiniteSet(Handlers)

VARIABLES
    queue,      \* tag_assigner_queue, in the order of enqueued_at
    runs,       \* tag_assigner_runs, in the order of creation
    conv,       \* conv[c]: the counters of a conversations row
    scan,       \* the idle scan
    sweep,      \* conversations the operator's sweep has still to enqueue
    batch,      \* the nightly batch: conversations to request, runs inserted
    trigger,    \* trigger[h]: the task of a manual trigger
    worker,     \* the queue drain
    tagged,     \* history: tagged[c], messages a run has read and labelled
    overrun,    \* history: overrun[c], messages stored behind a run's back
    faults

history == <<tagged, overrun>>

vars == <<queue, runs, conv, scan, sweep, batch, trigger, worker, history, faults>>

Triggers == {"message", "manual", "sweep"}

Item == [conv    : Convs,
         status  : {"pending", "processing", "done", "failed"},
         trigger : Triggers,
         run     : Nat]     \* 0: NULL

RunRow == [conv : Convs, status : {"processing", "success", "failed"}, completed : Nat]

Counters == [stored : Nat, sinceRun : Nat, auto : Nat, manual : Nat]

Scan == [todo : SUBSET Convs, counting : SUBSET Convs]

Batch == [todo : SUBSET Convs, runs : SUBSET Nat, nights : Nat]

Trigger == [pc : {"unused", "check", "enqueue", "count", "done"}, conv : Convs]

WorkerPCs == {"idle", "insert", "claim", "read", "llm", "apply", "reset",
              "complete", "fail", "close"}

Worker == [pc : WorkerPCs, item : Nat, run : Nat, seen : SUBSET Nat, success : BOOLEAN]

Idle == [pc |-> "idle", item |-> 0, run |-> 0, seen |-> {}, success |-> FALSE]

TypeOK ==
    /\ queue \in Seq(Item)
    /\ runs \in Seq(RunRow)
    /\ conv \in [Convs -> Counters]
    /\ scan \in Scan
    /\ sweep \in SUBSET Convs
    /\ batch \in Batch
    /\ trigger \in [Handlers -> Trigger]
    /\ worker \in Worker
    /\ tagged \in [Convs -> SUBSET Nat]
    /\ overrun \in [Convs -> SUBSET Nat]
    /\ faults \in Nat

Init ==
    /\ queue = <<>>
    /\ runs = <<>>
    /\ conv = [c \in Convs |-> [stored |-> 0, sinceRun |-> 0, auto |-> 0, manual |-> 0]]
    /\ scan = [todo |-> {}, counting |-> {}]
    /\ sweep = {}
    /\ batch = [todo |-> {}, runs |-> {}, nights |-> 0]
    /\ trigger \in [Handlers -> {t \in Trigger : t.pc = "unused"}]
    /\ worker = Idle
    /\ tagged = [c \in Convs |-> {}]
    /\ overrun = [c \in Convs |-> {}]
    /\ faults = 0

----------------------------------------------------------------------------
Items(c, statuses) ==
    {i \in DOMAIN queue : queue[i].conv = c /\ queue[i].status \in statuses}

InFlight(c) == Items(c, {"pending", "processing"}) # {}

\* completed_at of the successful runs.
Completions(c) ==
    {runs[r].completed : r \in {s \in DOMAIN runs :
                                   runs[s].conv = c /\ runs[s].status = "success"}}

\* The messages stored since the last of them: what an incremental run reads.
Unread(c) == {m \in 1 .. conv[c].stored : \A n \in Completions(c) : m > n}

\* enqueue_tagassigner_run: refused by the index on pending rows, and by any
\* database error.
Enqueue(c, kind) ==
    /\ Items(c, {"pending"}) = {}
    /\ Len(queue) < MaxItems
    /\ queue' = Append(queue, [conv |-> c, status |-> "pending", trigger |-> kind, run |-> 0])

----------------------------------------------------------------------------
\* insert_message: a redelivered message is not stored, but counted all the same.
StoreMessage(c) ==
    /\ conv[c].stored < MaxMessages /\ conv[c].sinceRun < MaxMessages
    /\ \/ /\ conv' = [conv EXCEPT ![c].stored = @ + 1, ![c].sinceRun = @ + 1]
          /\ overrun' = IF /\ worker.pc \in {"llm", "apply", "reset", "complete"}
                           /\ queue[worker.item].conv = c
                        THEN [overrun EXCEPT ![c] = @ \cup {conv[c].stored + 1}]
                        ELSE overrun
       \/ /\ conv[c].stored > 0
          /\ conv' = [conv EXCEPT ![c].sinceRun = @ + 1]
          /\ UNCHANGED overrun
    /\ UNCHANGED <<queue, runs, scan, sweep, batch, trigger, worker, tagged, faults>>

\* Mutant: the daily cap is not looked at.
Eligible_NoCap(c) ==
    /\ conv[c].sinceRun >= MessageGate
    /\ ~InFlight(c)
    /\ Unread(c) # {}

\* get_conversations_eligible_for_tagging, fifteen idle minutes apart.
Eligible(c) ==
    /\ conv[c].sinceRun >= MessageGate
    /\ conv[c].auto < AutoCap
    /\ ~InFlight(c)
    /\ Unread(c) # {}

ScanReads ==
    /\ scan.todo = {} /\ scan.counting = {}
    /\ \E c \in Convs : Eligible(c)
    /\ scan' = [scan EXCEPT !.todo = {c \in Convs : Eligible(c)}]
    /\ UNCHANGED <<queue, runs, conv, sweep, batch, trigger, worker, history, faults>>

ScanEnqueues(c) ==
    /\ c \in scan.todo /\ scan.counting = {}
    /\ \/ /\ Enqueue(c, "message")
          /\ scan' = [todo |-> scan.todo \ {c}, counting |-> {c}]
       \/ /\ scan' = [scan EXCEPT !.todo = @ \ {c}]
          /\ UNCHANGED queue
    /\ UNCHANGED <<runs, conv, sweep, batch, trigger, worker, history, faults>>

\* increment_auto_run_count, a statement of its own.
ScanCounts(c) ==
    /\ c \in scan.counting
    /\ conv' = [conv EXCEPT ![c].auto = @ + 1]
    /\ scan' = [scan EXCEPT !.counting = {}]
    /\ UNCHANGED <<queue, runs, sweep, batch, trigger, worker, history, faults>>

\* run_sweep: any of the three operations, with any limit.
SweepReads ==
    /\ sweep = {}
    /\ sweep' \in (SUBSET {c \in Convs : ~InFlight(c)}) \ {{}}
    /\ UNCHANGED <<queue, runs, conv, scan, batch, trigger, worker, history, faults>>

SweepEnqueues(c) ==
    /\ c \in sweep
    /\ Enqueue(c, "sweep") \/ UNCHANGED queue
    /\ sweep' = sweep \ {c}
    /\ UNCHANGED <<runs, conv, scan, batch, trigger, worker, history, faults>>

----------------------------------------------------------------------------
Labelled(c) == Completions(c) # {}

\* get_conversations_eligible_for_nightly_batch
BatchEligible(c) ==
    /\ conv[c].auto < AutoCap
    /\ ~InFlight(c)
    /\ conv[c].sinceRun >= IF Labelled(c) THEN 1 ELSE MessageGate

BatchIdle == batch.todo = {} /\ batch.runs = {}

\* start_nightly_batch_sweep, submit_nightly_batch: the rows are read ...
BatchReads ==
    /\ BatchIdle /\ batch.nights < MaxNights
    /\ batch' = [batch EXCEPT !.todo = {c \in Convs : BatchEligible(c)}, !.nights = @ + 1]
    /\ UNCHANGED <<queue, runs, conv, scan, sweep, trigger, worker, history, faults>>

\* ... a run is inserted for each as its request is built, without an item ...
BatchInserts(c) ==
    /\ c \in batch.todo
    /\ runs' = Append(runs, [conv |-> c, status |-> "processing", completed |-> 0])
    /\ batch' = [batch EXCEPT !.todo = @ \ {c}, !.runs = @ \cup {Len(runs) + 1}]
    /\ UNCHANGED <<queue, conv, scan, sweep, trigger, worker, history, faults>>

\* Mutant: the runs of a batch that was not submitted are left as they are.
BatchFails_Forgets(r) ==
    /\ r \in batch.runs /\ batch.todo = {}
    /\ batch' = [batch EXCEPT !.runs = @ \ {r}]
    /\ UNCHANGED <<queue, runs, conv, scan, sweep, trigger, worker, history, faults>>

\* ... and, as _submit_batch returns nothing, every one of them is failed.
BatchFails(r) ==
    /\ r \in batch.runs /\ batch.todo = {}
    /\ runs' = [runs EXCEPT ![r].status = "failed"]
    /\ batch' = [batch EXCEPT !.runs = @ \ {r}]
    /\ UNCHANGED <<queue, conv, scan, sweep, trigger, worker, history, faults>>

----------------------------------------------------------------------------
Goto(h, pc) == trigger' = [trigger EXCEPT ![h].pc = pc]

\* _process_manual_tag_trigger, query by query: the cap ...
TriggerReadsCount(h) ==
    /\ trigger[h].pc = "unused"
    /\ Goto(h, IF conv[trigger[h].conv].manual < ManualCap THEN "check" ELSE "done")
    /\ UNCHANGED <<queue, runs, conv, scan, sweep, batch, worker, history, faults>>

\* ... a run under way ...
TriggerChecks(h) ==
    /\ trigger[h].pc = "check"
    /\ Goto(h, IF Items(trigger[h].conv, {"processing"}) = {} THEN "enqueue" ELSE "done")
    /\ UNCHANGED <<queue, runs, conv, scan, sweep, batch, worker, history, faults>>

\* Mutant: a refused trigger draws from the cap as well.
TriggerEnqueues_CountsRefused(h) ==
    /\ trigger[h].pc = "enqueue"
    /\ Enqueue(trigger[h].conv, "manual") \/ UNCHANGED queue
    /\ Goto(h, "count")
    /\ UNCHANGED <<runs, conv, scan, sweep, batch, worker, history, faults>>

\* ... and the row.
TriggerEnqueues(h) ==
    /\ trigger[h].pc = "enqueue"
    /\ \/ Enqueue(trigger[h].conv, "manual") /\ Goto(h, "count")
       \/ UNCHANGED queue /\ Goto(h, "done")
    /\ UNCHANGED <<runs, conv, scan, sweep, batch, worker, history, faults>>

TriggerCounts(h) ==
    /\ trigger[h].pc = "count"
    /\ conv' = [conv EXCEPT ![trigger[h].conv].manual = @ + 1]
    /\ Goto(h, "done")
    /\ UNCHANGED <<queue, runs, scan, sweep, batch, worker, history, faults>>

\* reset_daily_run_counts
MidnightReset ==
    /\ \E c \in Convs : conv[c].auto > 0 \/ conv[c].manual > 0
    /\ conv' = [c \in Convs |-> [conv[c] EXCEPT !.auto = 0, !.manual = 0]]
    /\ UNCHANGED <<queue, runs, scan, sweep, batch, trigger, worker, history, faults>>

----------------------------------------------------------------------------
WorkerAt(pc) == worker' = [worker EXCEPT !.pc = pc]

\* The conversation the worker is busy with.
Current == queue[worker.item].conv

\* completed_at is looked at for successful runs only.
SetRun(status) ==
    runs' = [runs EXCEPT ![worker.run].status = status,
                         ![worker.run].completed =
                            IF status = "success" THEN conv[Current].stored ELSE 0]

SetItem(status) == queue' = [queue EXCEPT ![worker.item].status = status]

\* get_pending_queue_items(limit=1): the oldest one.
DrainPicks ==
    /\ worker.pc = "idle"
    /\ \E i \in DOMAIN queue :
          /\ queue[i].status = "pending"
          /\ \A j \in 1 .. i - 1 : queue[j].status # "pending"
          /\ worker' = [Idle EXCEPT !.pc = "insert", !.item = i]
    /\ UNCHANGED <<queue, runs, conv, scan, sweep, batch, trigger, history, faults>>

\* insert_tagassigner_run, before the item is bound to it.
DrainInsertsRun ==
    /\ worker.pc = "insert"
    /\ runs' = Append(runs, [conv |-> Current, status |-> "processing", completed |-> 0])
    /\ worker' = [worker EXCEPT !.pc = "claim", !.run = Len(runs) + 1]
    /\ UNCHANGED <<queue, conv, scan, sweep, batch, trigger, history, faults>>

\* Mutant: the claim does not bind the run.
DrainClaims_Unbound ==
    /\ worker.pc = "claim"
    /\ IF queue[worker.item].status = "pending"
       THEN SetItem("processing") /\ WorkerAt("read")
       ELSE UNCHANGED queue /\ worker' = Idle
    /\ UNCHANGED <<runs, conv, scan, sweep, batch, trigger, history, faults>>

\* claim_queue_item
DrainClaims ==
    /\ worker.pc = "claim"
    /\ IF queue[worker.item].status = "pending"
       THEN /\ queue' = [queue EXCEPT ![worker.item].status = "processing",
                                      ![worker.item].run = worker.run]
            /\ WorkerAt("read")
       ELSE UNCHANGED queue /\ worker' = Idle
    /\ UNCHANGED <<runs, conv, scan, sweep, batch, trigger, history, faults>>

\* run_tagging up to the LLM call: the whole history, or what came after the
\* last successful run; or the labels cannot be fetched.
RunReads ==
    /\ worker.pc = "read"
    /\ \/ /\ worker' = [worker EXCEPT
                !.pc = "llm",
                !.seen = IF queue[worker.item].trigger = "message"
                         THEN Unread(Current)
                         ELSE 1 .. conv[Current].stored]
       \/ WorkerAt("fail")
    /\ UNCHANGED <<queue, runs, conv, scan, sweep, batch, trigger, history, faults>>

\* Mutant: the run's status is taken from the words of the queue.
RunAnswered_Done ==
    /\ worker.pc = "llm"
    /\ SetRun("done") /\ WorkerAt("apply")
    /\ UNCHANGED <<queue, conv, scan, sweep, batch, trigger, history, faults>>

\* The LLM's answer is stored and the run marked successful, before anything
\* is applied.
RunAnswered ==
    /\ worker.pc = "llm"
    /\ SetRun("success") /\ WorkerAt("apply")
    /\ UNCHANGED <<queue, conv, scan, sweep, batch, trigger, history, faults>>

RunUnanswered ==
    /\ worker.pc = "llm"
    /\ WorkerAt("fail")
    /\ UNCHANGED <<queue, runs, conv, scan, sweep, batch, trigger, history, faults>>

\* apply_tagassigner_result: the labels and attributes are written ...
ApplyWrites ==
    /\ worker.pc = "apply"
    /\ tagged' = [tagged EXCEPT ![Current] = @ \cup worker.seen]
    /\ WorkerAt("reset")
    /\ UNCHANGED <<queue, runs, conv, scan, sweep, batch, trigger, overrun, faults>>

\* Mutant: a failed write-back leaves the run as it was.
ApplyFails_RunStays ==
    /\ worker.pc = "apply"
    /\ WorkerAt("close")
    /\ UNCHANGED <<queue, runs, conv, scan, sweep, batch, trigger, history, faults>>

\* ... or Chatwoot refuses them ...
ApplyFails ==
    /\ worker.pc = "apply"
    /\ WorkerAt("fail")
    /\ UNCHANGED <<queue, runs, conv, scan, sweep, batch, trigger, history, faults>>

\* ... the counter starts again ...
ApplyResets ==
    /\ worker.pc = "reset"
    /\ conv' = [conv EXCEPT ![Current].sinceRun = 0]
    /\ WorkerAt("complete")
    /\ UNCHANGED <<queue, runs, scan, sweep, batch, trigger, history, faults>>

\* ... and the run completes a second time.
ApplyCompletes ==
    /\ worker.pc = "complete"
    /\ SetRun("success")
    /\ worker' = [worker EXCEPT !.pc = "close", !.success = TRUE]
    /\ UNCHANGED <<queue, conv, scan, sweep, batch, trigger, history, faults>>

\* update_tagassigner_run_failed, by the router or by _drain_one.
RunFails ==
    /\ worker.pc = "fail"
    /\ SetRun("failed") /\ WorkerAt("close")
    /\ UNCHANGED <<queue, conv, scan, sweep, batch, trigger, history, faults>>

\* Mutant: only a successful item is closed.
DrainCloses_OnlyDone ==
    /\ worker.pc = "close"
    /\ worker' = Idle
    /\ IF worker.success THEN SetItem("done") ELSE UNCHANGED queue
    /\ UNCHANGED <<runs, conv, scan, sweep, batch, trigger, history, faults>>

DrainCloses ==
    /\ worker.pc = "close"
    /\ SetItem(IF worker.success THEN "done" ELSE "failed")
    /\ worker' = Idle
    /\ UNCHANGED <<runs, conv, scan, sweep, batch, trigger, history, faults>>

----------------------------------------------------------------------------
\* An exception inside the run is caught by _drain_one.
RunRaises ==
    /\ faults < MaxFaults
    /\ faults' = faults + 1
    /\ worker.pc \in {"read", "llm", "apply", "reset", "complete"}
    /\ WorkerAt("fail")
    /\ UNCHANGED <<queue, runs, conv, scan, sweep, batch, trigger, history>>

\* The batch forgets what it was at; its runs stay "processing".
BatchEnds == batch' = [batch EXCEPT !.todo = {}, !.runs = {}]

\* One outside it ends the tick, or the scan, the batch or the trigger.
TaskRaises ==
    /\ faults < MaxFaults
    /\ faults' = faults + 1
    /\ \/ /\ worker.pc \in {"insert", "claim", "fail", "close"}
          /\ worker' = Idle
          /\ UNCHANGED <<scan, batch, trigger>>
       \/ /\ scan.counting # {}
          /\ scan' = [todo |-> {}, counting |-> {}]
          /\ UNCHANGED <<worker, batch, trigger>>
       \/ /\ ~BatchIdle /\ BatchEnds
          /\ UNCHANGED <<worker, scan, trigger>>
       \/ /\ \E h \in Handlers : trigger[h].pc \in {"check", "count"} /\ Goto(h, "done")
          /\ UNCHANGED <<worker, scan, batch>>
    /\ UNCHANGED <<queue, runs, conv, sweep, history>>

\* The process dies: its tables stay.  Nothing looks for items it was at.
Restart ==
    /\ faults < MaxFaults
    /\ faults' = faults + 1
    /\ worker' = Idle
    /\ scan' = [todo |-> {}, counting |-> {}]
    /\ sweep' = {}
    /\ BatchEnds
    /\ trigger' = [h \in Handlers |->
                     IF trigger[h].pc = "unused" THEN trigger[h]
                     ELSE [trigger[h] EXCEPT !.pc = "done"]]
    /\ UNCHANGED <<queue, runs, conv, history>>

----------------------------------------------------------------------------
Drain ==
    \/ DrainPicks \/ DrainInsertsRun \/ DrainClaims
    \/ RunReads \/ RunAnswered \/ RunUnanswered
    \/ ApplyWrites \/ ApplyFails \/ ApplyResets \/ ApplyCompletes
    \/ RunFails \/ DrainCloses

Next ==
    \/ Drain
    \/ \E c \in Convs : StoreMessage(c)
    \/ ScanReads
    \/ \E c \in Convs : ScanEnqueues(c) \/ ScanCounts(c)
    \/ SweepReads
    \/ \E c \in Convs : SweepEnqueues(c)
    \/ BatchReads
    \/ \E c \in Convs : BatchInserts(c)
    \/ \E r \in batch.runs : BatchFails(r)
    \/ \E h \in Handlers :
          \/ TriggerReadsCount(h) \/ TriggerChecks(h)
          \/ TriggerEnqueues(h) \/ TriggerCounts(h)
    \/ MidnightReset
    \/ RunRaises \/ TaskRaises \/ Restart

\* The drain loop never stops; nobody has to trigger anything.
Spec == Init /\ [][Next]_vars

FairSpec == Spec /\ WF_vars(Drain)

----------------------------------------------------------------------------
\* The scan never spends more than the day's automated runs, although it
\* counts a run only after it has enqueued it (_run_idle_scan).
AutoCapKept == \A c \in Convs : conv[c].auto <= AutoCap

\* Triggers that were accepted and are still to be counted, and what they added.
Uncounted(c) == {h \in Handlers : trigger[h].conv = c /\ trigger[h].pc = "count"}

ManualItems(c) == {i \in DOMAIN queue : queue[i].conv = c /\ queue[i].trigger = "manual"}

\* A manual run draws from its cap once, and a refused one not at all
\* (_process_manual_tag_trigger).
NoDoubleSpending ==
    \A c \in Convs :
        conv[c].manual + Cardinality(Uncounted(c)) <= Cardinality(ManualItems(c))

\* The queue and the runs tell the same story: a closed item is done if and only
\* if its run succeeded, whatever failed on the way (_drain_one).
OutcomesAgree ==
    \A i \in DOMAIN queue :
        /\ queue[i].status = "done" => runs[queue[i].run].status = "success"
        /\ queue[i].status = "failed" => runs[queue[i].run].status = "failed"

WorkerHasRun(r) == worker.pc \notin {"idle", "insert"} /\ worker.run = r

\* As long as no task is cut short, a processing item is the one the worker
\* holds, so that has_processing_run blocks nobody for good; and a processing
\* run is the worker's or the batch's: "none are left orphaned in 'processing'"
\* (submit_nightly_batch).
ProcessingIsHeld ==
    faults = 0 =>
        /\ \A i \in DOMAIN queue : queue[i].status = "processing" => worker.item = i
        /\ \A r \in DOMAIN runs :
              runs[r].status = "processing" => r \in batch.runs \/ WorkerHasRun(r)

\* What an incremental run will never look at again was labelled by an earlier
\* run, or stored while that run was at work: a failed run hides nothing.
SkippedIsTagged ==
    worker.pc = "idle" /\ faults = 0 =>
        \A c \in Convs :
            (1 .. conv[c].stored) \ Unread(c) \subseteq tagged[c] \cup overrun[c]

Resolved(i) == i \in DOMAIN queue /\ queue[i].status \in {"done", "failed"}

\* Every trigger is served in the end, unless a fault got in between (the
\* drain loop of start_queue_worker).
ItemsResolve ==
    \A i \in 1 .. MaxItems : i \in DOMAIN queue ~> faults > 0 \/ Resolved(i)

\* "a Railway restart mid-drain loses nothing" (app/tagassigner/queue.py).
RestartLosesNothing ==
    \A i \in 1 .. MaxItems : i \in DOMAIN queue ~> Resolved(i)

\* docs/tagassigner-v1-spec.md: "Manual: max 5/day".
ManualCapKept == \A c \in Convs : conv[c].manual <= ManualCap
----------------------------------------------------------------------------
(***************************************************************************)
(* The inductive strengthening of the invariants above.                    *)
(***************************************************************************)
Claimed(i) == queue[i].status # "pending"

\* A claimed item has a run, and shares it with no other.
RunsBound ==
    \A i \in DOMAIN queue : Claimed(i) =>
        /\ queue[i].run \in DOMAIN runs
        /\ \A j \in DOMAIN queue : Claimed(j) /\ queue[j].run = queue[i].run => i = j

\* Nobody but the worker moves an item on, and it does so with the run it
\* created for it.
WorkerHolds ==
    /\ worker.pc = "idle" => worker.item = 0
    /\ worker.pc # "idle" => worker.item \in DOMAIN queue
    /\ worker.pc \in {"insert", "claim"} => ~Claimed(worker.item)
    /\ worker.pc = "claim"
       => /\ worker.run \in DOMAIN runs
          /\ \A i \in DOMAIN queue : Claimed(i) => queue[i].run # worker.run
    /\ worker.pc \notin {"idle", "insert", "claim"}
       => queue[worker.item].status = "processing" /\ queue[worker.item].run = worker.run
    /\ worker.success => worker.pc = "close"
    /\ worker.pc = "close"
       => runs[worker.run].status = IF worker.success THEN "success" ELSE "failed"

\* The batch's runs are its own.
BatchHolds ==
    /\ batch.runs \subseteq DOMAIN runs
    /\ \A i \in DOMAIN queue : Claimed(i) => queue[i].run \notin batch.runs
    /\ \A r \in batch.runs : ~WorkerHasRun(r)

\* Whoever the scan has read, and not yet counted, may still be counted once.
ScanWithinCap ==
    /\ scan.todo \cap scan.counting = {}
    /\ \A c \in scan.todo \cup scan.counting : conv[c].auto < AutoCap

\* A run is about the conversation of its item, and completed with what was
\* stored by then.
RunsKept ==
    /\ worker.pc \notin {"idle", "insert"}
       => worker.run \in DOMAIN runs /\ runs[worker.run].conv = Current
    /\ \A r \in DOMAIN runs : runs[r].completed <= conv[runs[r].conv].stored

\* What a successful run put behind it was labelled or came behind its back;
\* the run under way has read the rest, and may be marked too early.
NothingLeftOut ==
    faults = 0 =>
        /\ \A r \in DOMAIN runs :
              runs[r].status = "success" /\ ~(r = worker.run /\ worker.pc \in {"apply", "fail"})
              => LET c == runs[r].conv
                 IN  1 .. runs[r].completed \subseteq tagged[c] \cup overrun[c]
        /\ worker.pc \in {"llm", "apply"}
           => 1 .. conv[Current].stored \subseteq
                worker.seen \cup tagged[Current] \cup overrun[Current]
        /\ worker.pc \in {"reset", "complete"}
           => 1 .. conv[Current].stored \subseteq tagged[Current] \cup overrun[Current]

QInv ==
    /\ TypeOK
    /\ RunsBound
    /\ WorkerHolds
    /\ BatchHolds
    /\ ScanWithinCap
    /\ AutoCapKept
    /\ NoDoubleSpending
    /\ OutcomesAgree
    /\ ProcessingIsHeld
    /\ RunsKept
    /\ NothingLeftOut
=============================================================================
