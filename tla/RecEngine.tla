------------------------------ MODULE RecEngine ------------------------------
(***************************************************************************)
(* The recommendation engine: the retry ladder that InfoGatherer starts    *)
(* (app/background/rec_engine_ladder.py), the start and callback endpoints *)
(* (app/webhooks/internal.py) and the run itself                           *)
(* (app/layers/rec_engine.py).                                             *)
(*                                                                         *)
(* A ladder has one idempotency key and posts up to Attempts starts; each  *)
(* start that finds no rec_engine_logs row becomes a run of its own.  All  *)
(* of them are asyncio tasks: they interleave at every await.  A sleep of  *)
(* 5 s is a step that may come at any time, since neither the start        *)
(* endpoint nor the run is bounded by it.                                  *)
(***************************************************************************)
EXTENDS Conversation

CONSTANTS
    Keys,               \* idempotency keys (uuid4, fresh for every fire)
    Attempts,           \* 3: len(ATTEMPT_DELAYS)
    Lines,              \* bound: schema lines of the hotels of one list
    CallbackMayBeLost   \* the callback's HTTP POST can raise

ASSUME AttemptsAssumption == Attempts \in Nat \ {0}

ASSUME LinesAssumption == Lines \in Nat \ {0}

ASSUME CallbackAssumption == CallbackMayBeLost \in BOOLEAN

VARIABLES
    ladder, \* ladder[k]: the fire_rec_engine task of key k
    run,    \* run[k][a]: the start request and run made by attempt a of k
    log     \* log[k]: rec_engine_logs.status of key k

recVars == <<ladder, run, log>>

Tries == 1 .. Attempts

Ladder == [pc : {"unused", "post", "wait", "escalate", "done"}, attempt : Tries]

RunPCs == {"none", "starting", "created", "inserted", "selecting", "resolving",
           "posting", "delivering", "escalating", "attributes", "done"}

Results == {"found", "not_found", "failed"}

\* sent counts the lines of its list that Chatwoot has acknowledged.
Run == [pc : RunPCs, result : Results \cup {"unknown"}, sent : 0 .. Lines]

NoRun == [pc |-> "none", result |-> "unknown", sent |-> 0]

LogStatus == {"absent", "processing", "success", "failed"}

RecTypeOK ==
    /\ ladder \in [Keys -> Ladder]
    /\ run \in [Keys -> [Tries -> Run]]
    /\ log \in [Keys -> LogStatus]

RecInit ==
    /\ ladder = [k \in Keys |-> [pc |-> "unused", attempt |-> 1]]
    /\ run = [k \in Keys |-> [a \in Tries |-> NoRun]]
    /\ log = [k \in Keys |-> "absent"]

Fired == {k \in Keys : ladder[k].pc # "unused"}

Resolved(k) == log[k] \in {"success", "failed"}

\* The slots _select_hotels needs.
SlotsFilled(r) == r.university /\ r.gender

----------------------------------------------------------------------------
\* create_task(fire_rec_engine(cid, cwid, uuid4()))
StartLadder(k) ==
    /\ ladder[k].pc = "unused"
    /\ ladder' = [ladder EXCEPT ![k].pc = "post"]

ToRun(k, a, pc) == run' = [run EXCEPT ![k][a].pc = pc]

\* _post_start: the POST is sent, or raises; either way the ladder sleeps.
PostStart(k) ==
    /\ ladder[k].pc = "post"
    /\ ladder' = [ladder EXCEPT ![k].pc = "wait"]
    /\ \/ ToRun(k, ladder[k].attempt, "starting")
       \/ UNCHANGED run
    /\ UNCHANGED <<row, told, log>>

\* Mutant: the last attempt is followed by one more.
PollLog_OneMore(k) ==
    /\ ladder[k].pc = "wait"
    /\ ladder' = IF Resolved(k) THEN [ladder EXCEPT ![k].pc = "done"]
                 ELSE [ladder EXCEPT ![k] = [pc |-> "post", attempt |-> @.attempt + 1]]
    /\ UNCHANGED <<row, told, run, log>>

\* The checkpoint after the sleep.
PollLog(k) ==
    /\ ladder[k].pc = "wait"
    /\ \/ /\ Resolved(k)
          /\ ladder' = [ladder EXCEPT ![k].pc = "done"]
       \/ /\ ~Resolved(k)
          /\ ladder[k].attempt < Attempts
          /\ ladder' = [ladder EXCEPT ![k] = [pc |-> "post", attempt |-> @.attempt + 1]]
       \/ /\ ~Resolved(k)
          /\ ladder[k].attempt = Attempts
          /\ ladder' = [ladder EXCEPT ![k].pc = "escalate"]
    /\ UNCHANGED <<row, told, run, log>>

\* Mutant: giving up is logged and nothing more.
LadderEscalates_OnlyLogs(k) ==
    /\ ladder[k].pc = "escalate"
    /\ ladder' = [ladder EXCEPT ![k].pc = "done"]
    /\ UNCHANGED <<row, told, run, log>>

\* All attempts exhausted: human_needed, whatever the row says by now.
LadderEscalates(k) ==
    /\ ladder[k].pc = "escalate"
    /\ SetHumanNeeded
    /\ ladder' = [ladder EXCEPT ![k].pc = "done"]
    /\ UNCHANGED <<told, run, log>>

----------------------------------------------------------------------------
\* start_rec_engine: no-op when the key has a row, else create_task(run).
StartHandler(k, a) ==
    /\ run[k][a].pc = "starting"
    /\ ToRun(k, a, IF log[k] = "absent" THEN "created" ELSE "done")
    /\ UNCHANGED <<row, told, ladder, log>>

\* insert_rec_engine_processing: ON CONFLICT DO NOTHING.
InsertProcessing(k, a) ==
    /\ run[k][a].pc = "created"
    /\ log' = [log EXCEPT ![k] = IF @ = "absent" THEN "processing" ELSE @]
    /\ ToRun(k, a, "inserted")
    /\ UNCHANGED <<row, told, ladder>>

\* Only a resolved key stops the run: a "processing" row of another run does not.
SkipIfResolved(k, a) ==
    /\ run[k][a].pc = "inserted"
    /\ ToRun(k, a, IF Resolved(k) THEN "done" ELSE "selecting")
    /\ UNCHANGED <<row, told, ladder, log>>

\* _select_hotels raises when a slot is empty, and on any query error.
SelectHotels(k, a) ==
    /\ run[k][a].pc = "selecting"
    /\ \E result \in Results :
          /\ result # "failed" => SlotsFilled(row)
          /\ run' = [run EXCEPT ![k][a].pc = "resolving", ![k][a].result = result]
    /\ UNCHANGED <<row, told, ladder, log>>

\* update_rec_engine_log, before the callback is even attempted.
ResolveLog(k, a) ==
    /\ run[k][a].pc = "resolving"
    /\ log' = [log EXCEPT ![k] = IF run[k][a].result = "failed" THEN "failed" ELSE "success"]
    /\ ToRun(k, a, "posting")
    /\ UNCHANGED <<row, told, ladder>>

\* _fire_callback swallows every exception.
LoseCallback(k, a) ==
    /\ CallbackMayBeLost
    /\ run[k][a].pc = "posting"
    /\ ToRun(k, a, "done")
    /\ UNCHANGED <<row, told, ladder, log>>

\* Mutant: the callback completes the conversation whatever its state.
Callback_Unguarded(k, a) ==
    /\ run[k][a].pc = "posting"
    /\ IF run[k][a].result = "failed"
       THEN UNCHANGED row /\ ToRun(k, a, "escalating")
       ELSE SetFlow("completed") /\ ToRun(k, a, "delivering")
    /\ UNCHANGED <<told, ladder, log>>

\* rec_engine_callback
Callback(k, a) ==
    /\ run[k][a].pc = "posting"
    /\ \/ /\ run[k][a].result = "failed"
          /\ ToRun(k, a, "escalating")
          /\ UNCHANGED row
       \/ /\ run[k][a].result # "failed"
          /\ LockHolds("recengine_running")
          /\ SetFlow("completed")
          /\ ToRun(k, a, "delivering")
       \/ /\ run[k][a].result # "failed"
          /\ ~LockHolds("recengine_running")
          /\ ToRun(k, a, "done")
          /\ UNCHANGED row
    /\ UNCHANGED <<told, ladder, log>>

\* The list has a line left to send.
Unsent(k, a) == run[k][a].pc = "delivering" /\ run[k][a].sent < Lines

\* Mutant: a line that went out is taken for one that did not, and resent.
SendLine_Resends(k, a) ==
    /\ Unsent(k, a)
    /\ SpeakPitch(run[k][a].sent)
    /\ UNCHANGED <<row, ladder, run, log>>

\* One line of one hotel, with a sleep after it; nothing reads the row again.
\* A line that fails is tried once more after the others, then given up.
SendLine(k, a) ==
    /\ Unsent(k, a)
    /\ SpeakPitch(run[k][a].sent)
    /\ run' = [run EXCEPT ![k][a].sent = @ + 1]
    /\ UNCHANGED <<row, ladder, log>>

\* The list is through.  If nothing of it got out a human is called, unless
\* it was the NOT_FOUND sentinel's message that failed to send.
Delivered(k, a) ==
    /\ run[k][a].pc = "delivering"
    /\ \/ /\ run[k][a].sent > 0 \/ run[k][a].result = "not_found"
          /\ ToRun(k, a, "attributes")
       \/ /\ run[k][a].sent = 0
          /\ ToRun(k, a, "escalating")
    /\ UNCHANGED <<row, told, ladder, log>>

CallbackEscalates(k, a) ==
    /\ run[k][a].pc = "escalating"
    /\ SetHumanNeeded
    /\ ToRun(k, a, IF run[k][a].result = "failed" THEN "done" ELSE "attributes")
    /\ UNCHANGED <<told, ladder, log>>

\* write_attributes_at_flow_completion; the companions only if Chatwoot agreed.
CallbackWritesAttributes(k, a) ==
    /\ run[k][a].pc = "attributes"
    /\ MarkCompanions \/ UNCHANGED row
    /\ ToRun(k, a, "done")
    /\ UNCHANGED <<told, ladder, log>>

----------------------------------------------------------------------------
LadderStep(k) == PostStart(k) \/ PollLog(k) \/ LadderEscalates(k)

RunStep(k, a) ==
    \/ StartHandler(k, a)
    \/ InsertProcessing(k, a)
    \/ SkipIfResolved(k, a)
    \/ SelectHotels(k, a)
    \/ ResolveLog(k, a)
    \/ LoseCallback(k, a)
    \/ Callback(k, a)
    \/ SendLine(k, a)
    \/ Delivered(k, a)
    \/ CallbackEscalates(k, a)
    \/ CallbackWritesAttributes(k, a)

\* A database error ends the ladder's task, or the run's task or request;
\* _post_start and the selection catch theirs.
LadderRaises(k) ==
    /\ ladder[k].pc \in {"wait", "escalate"}
    /\ ladder' = [ladder EXCEPT ![k].pc = "done"]
    /\ UNCHANGED <<run, log>>

RunRaises(k, a) ==
    /\ run[k][a].pc \notin {"none", "selecting", "done"}
    /\ ToRun(k, a, "done")
    /\ UNCHANGED <<ladder, log>>

\* The process dies: every task with it, while the log stays.
RecRestart ==
    /\ ladder' = [k \in Keys |->
                    IF k \in Fired THEN [ladder[k] EXCEPT !.pc = "done"] ELSE ladder[k]]
    /\ run' = [k \in Keys |-> [a \in Tries |->
                    IF run[k][a].pc # "none"
                    THEN [run[k][a] EXCEPT !.pc = "done"] ELSE run[k][a]]]
    /\ UNCHANGED log
=============================================================================
