-------------------------- MODULE LeadConversation --------------------------
(***************************************************************************)
(* The life of one conversation: InfoGatherer's turns, the recommendation  *)
(* engine's ladder and runs, and everybody else who writes the row while   *)
(* they work - the agent who takes over, the CRM edits of the              *)
(* conversation_updated webhook, the TagAssigner - and the two ways a task *)
(* is cut short: an exception, and the death of the process.               *)
(***************************************************************************)
EXTENDS InfoGatherer, FiniteSets

CONSTANT MaxFaults  \* bound: exceptions, timed-out sends and process restarts

ASSUME MaxFaultsAssumption == MaxFaults \in Nat

VARIABLE faults     \* exceptions, timed-out sends and restarts so far

vars == <<row, told, ladder, run, log, turn, inbound, faults>>

TypeOK ==
    /\ row \in Row
    /\ told \in Told
    /\ RecTypeOK
    /\ GatherTypeOK
    /\ faults \in Nat

Init ==
    /\ row = NewRow
    /\ told = ToldNothing
    /\ RecInit
    /\ GatherInit
    /\ faults = 0

----------------------------------------------------------------------------
\* A message by a human agent: stopped, in the middle of anything.  Before
\* any stored message the bot is disabled for good ("outbound first").
Takeover ==
    /\ row.flow # "stopped"
    /\ \E outboundFirst \in BOOLEAN :
          /\ outboundFirst => inbound = 0
          /\ row' = [row EXCEPT !.flow = "stopped", !.botEnabled = @ /\ ~outboundFirst]
    /\ told' = [told EXCEPT !.late = 0]
    /\ UNCHANGED <<recVars, gatherVars, faults>>

\* Mutant: the edit is not marked as a human's.
CrmSetsGender_Unmarked(known) ==
    /\ row' = [row EXCEPT !.gender = known]
    /\ UNCHANGED <<told, recVars, gatherVars, faults>>

\* The CRM form is the authority for gender, empty included; for the
\* university it can only name one.
CrmSetsGender(known) ==
    /\ row' = [row EXCEPT !.gender = known, !.genderByHuman = TRUE]
    /\ UNCHANGED <<told, recVars, gatherVars, faults>>

CrmSetsUniversity ==
    /\ row' = [row EXCEPT !.university = TRUE]
    /\ UNCHANGED <<told, recVars, gatherVars, faults>>

\* The TagAssigner writes what it read off a snapshot of the row.
TaggerFills ==
    /\ \E fills \in [{"university", "gender"} -> BOOLEAN] :
          row' = [row EXCEPT
                     !.university    = @ \/ fills["university"],
                     !.gender        = @ \/ fills["gender"],
                     !.genderByHuman = @ /\ ~fills["gender"]]
    /\ UNCHANGED <<told, recVars, gatherVars, faults>>

\* _process_inbound logs any exception of the turn and lets the lock go.
TurnRaises ==
    /\ turn.pc # "idle"
    /\ faults < MaxFaults
    /\ faults' = faults + 1
    /\ turn' = NoTurn
    /\ UNCHANGED <<row, told, recVars, inbound>>

\* An exception ends one task of the recommendation engine.
TaskRaises ==
    /\ faults < MaxFaults
    /\ faults' = faults + 1
    /\ \/ \E k \in Keys : LadderRaises(k)
       \/ \E k \in Keys, a \in Tries : RunRaises(k, a)
    /\ UNCHANGED <<row, told, gatherVars>>

Sending ==
    \/ turn.pc \in {"say", "answer"}
    \/ turn.pc = "pitch" /\ turn.sent < Lines
    \/ \E k \in Keys, a \in Tries : Unsent(k, a)

\* A send times out although Chatwoot took it: send_with_retry sends it again.
SendTimesOut ==
    /\ Sending
    /\ faults < MaxFaults
    /\ faults' = faults + 1
    /\ Speak
    /\ UNCHANGED <<row, recVars, gatherVars>>

\* The process dies and comes back: the row and the log are what is left.
Restart ==
    /\ faults < MaxFaults
    /\ faults' = faults + 1
    /\ turn' = NoTurn
    /\ RecRestart
    /\ UNCHANGED <<row, told, inbound>>

----------------------------------------------------------------------------
StartTurn == TurnStarts /\ UNCHANGED <<recVars, faults>>

GatherStep == TurnStep /\ UNCHANGED <<recVars, faults>>

FireRecEngine ==
    /\ \E k \in Keys : Fire(k)
    /\ UNCHANGED <<run, log, faults>>

Ladders(k) == LadderStep(k) /\ UNCHANGED <<gatherVars, faults>>

Runs(k, a) == RunStep(k, a) /\ UNCHANGED <<gatherVars, faults>>

Others ==
    \/ Takeover
    \/ \E known \in BOOLEAN : CrmSetsGender(known)
    \/ CrmSetsUniversity
    \/ TaggerFills
    \/ TurnRaises
    \/ TaskRaises
    \/ SendTimesOut
    \/ Restart

Next ==
    \/ StartTurn
    \/ GatherStep
    \/ FireRecEngine
    \/ \E k \in Keys : Ladders(k)
    \/ \E k \in Keys, a \in Tries : Runs(k, a)
    \/ Others

Spec == Init /\ [][Next]_vars

\* While a task of the bot's can run the event loop runs one; each has only so
\* many steps, so all of them end.  Customers, agents and the other writers
\* owe nothing.
BotStep ==
    \/ GatherStep
    \/ FireRecEngine
    \/ \E k \in Keys : Ladders(k)
    \/ \E k \in Keys, a \in Tries : Runs(k, a)

Fairness == WF_vars(BotStep)

FairSpec == Spec /\ Fairness

----------------------------------------------------------------------------
\* However turns, re-reads and restarts interleave, a lead is matched once:
\* no second ladder is ever started (_fire_rec_engine_if_ready).
SingleRecommendation == \A k, l \in Fired : k = l

\* Retries and duplicate runs of one ladder notwithstanding, the lead gets
\* the list of recommended hotels at most once (rec_engine_callback).
PitchedAtMostOnce == told.pitches <= 1

\* The flow never asks for the gender of a lead, or matches it, before a
\* university is stored; while it matches, the gender is stored too unless
\* a human blanked it in the CRM after the run began.
SlotsBeforeMatching ==
    /\ row.flow \in {"awaiting_gender", "recengine_running"} => row.university
    /\ row.flow = "recengine_running" => row.gender \/ row.genderByHuman

\* The same question is answered at most twice without another question or
\* a filled slot in between; the third goes to a human, also across restarts
\* (docs/019: repeat 1 primary, 2 alternative, 3 escalate).
SameAnswerCap == told.answers <= 2

\* Nothing the bot sends looks at the row again: an agent who takes over may
\* still see what the turn under way had to send and the rest of the run's
\* list, but no more than these two, each line once but for a send that timed
\* out, and never a message of a turn that begins afterwards.
LateSpeechBounded == told.late <= 2 * Lines + faults

\* The bot waits for a campus only of a parent it has stored, unless a fault
\* fell between the two statements (_handle_parent_match).
CampusQuestionHasParent ==
    /\ row.flow = "awaiting_campus_clarification"
    /\ turn.pc = "idle"
    /\ faults = 0
    => row.pendingParent

\* A conversation handed to humans is never resumed by the bot.
HumanNeededIsFinal ==
    [][row.flow = "human_needed" => row'.flow \in HumanOwned]_vars

\* An agent's conversation is taken back only by the turn that re-read the
\* row after the takeover, or given to humans by an escalation.
ReclaimNeedsReread ==
    [][ row.flow = "stopped" /\ row'.flow \notin HumanOwned
        => turn.conv.flow = "stopped" /\ turn.genderFilled ]_vars

\* Every turn gives the lock back.
TurnsEnd == turn.pc # "idle" ~> turn.pc = "idle"

\* A matching that has begun comes to an end for the lead.
RecommendationResolves ==
    row.flow = "recengine_running" ~> row.flow # "recengine_running"

\* The row and the tasks as the lead sees them.
Phase == CASE row.flow \in Collecting          -> "collecting"
           [] row.flow = "recengine_running"   -> "matching"
           [] row.flow = "completed"           -> "closed"
           [] row.flow = "stopped"             -> "agent"
           [] row.flow = "human_needed"        -> "handed"

Service == INSTANCE LeadService
    WITH phase <- Phase, matchings <- Cardinality(Fired), pitches <- told.pitches

\* Whatever turns, ladders, runs, agents and faults do to each other: a lead is
\* matched once and gets one list, after its matching; a closed conversation
\* and one a human was called to only pass into human hands, and a matched
\* lead is never taken back from the agent.
ImplementsService == Service!Spec

\* README: "-> flow_state = stopped. No further bot action."
HumanKeepsConversation ==
    [][row.flow = "stopped" => row'.flow \in HumanOwned]_vars

\* rec_engine.run: "A retry that arrives mid-run finds the existing row and
\* no-ops" - at most one run of a key selects hotels.
RetryIsNoOp ==
    \A k \in Keys : \A a, b \in Tries :
        run[k][a].result # "unknown" /\ run[k][b].result # "unknown" => a = b
----------------------------------------------------------------------------
(***************************************************************************)
(* The inductive strengthening of the safety invariants: what the code     *)
(* relies on, and never checks, between one await and the next.            *)
(***************************************************************************)
\* The turn is looking for slots with what it read before any matching.
Extracting ==
    \/ turn.pc \in {"reread", "entity", "pendParent", "matched", "askGender"}
    \/ turn.pc = "route" /\ turn.start.flow \in Collecting

\* A row that still collects slots, or a turn that might make it do so again
\* or start a matching, means that no matching was ever started.
NotYetMatched ==
    \/ row.flow \in Collecting
    \/ Extracting
    \/ turn.pc = "fire" /\ turn.conv.flow \in Collecting
    => Fired = {}

\* Runs belong to ladders that were started.
RunsAreFired == \A k \in Keys, a \in Tries : run[k][a].pc # "none" => k \in Fired

\* What the turn's copies say: it was admitted in a flow state that is not
\* the humans', and only a turn that filled the gender re-read the row.
CopiesAreFresh ==
    /\ turn.pc \in {"reread", "entity", "pendParent", "matched", "askGender",
                    "activate", "classify", "answer", "reanchor"}
       => turn.start.flow \in Collecting
    /\ turn.pc = "route" => turn.start.flow \in Collecting \cup {"completed"}
    /\ Extracting => row.flow # "human_needed" /\ turn.conv.flow # "human_needed"
    /\ turn.pc = "route" /\ Extracting => turn.conv.flow \in Collecting
    /\ turn.pc = "reread" => turn.genderFilled
    /\ Extracting /\ turn.conv.flow \notin Collecting => turn.genderFilled

\* A filled university stays filled, so a copy that has it tells the truth.
UniversityKept ==
    /\ turn.conv.university => row.university
    /\ turn.pc \in {"matched", "askGender"} => row.university

\* While the row waits for a matching nothing has been delivered for it.
NothingDelivered ==
    row.flow = "recengine_running"
    => /\ told.pitches = 0
       /\ \A k \in Keys, a \in Tries :
             /\ run[k][a].pc \notin {"delivering", "attributes"}
             /\ run[k][a].pc = "escalating" => run[k][a].result = "failed"

\* One run delivers, once.
OneDelivery ==
    /\ Fired = {} => told.pitches = 0
    /\ \A k, l \in Keys : \A a, b \in Tries :
          run[k][a].pc = "delivering"
          => /\ run[k][a].sent = 0 => told.pitches = 0
             /\ run[l][b].pc = "delivering" => k = l /\ a = b

\* A turn that has pitched, or will, has left the matching alone, and a turn
\* about to start it still has its gender behind it.
TurnKeepsSlots ==
    /\ \/ turn.pc \in {"pitch", "attributes"}
       \/ turn.next = "attributes"
       \/ turn.pc = "route" /\ turn.start.flow = "completed"
       => row.flow # "recengine_running"
    /\ turn.next = "attributes" => turn.pc \in {"escalate", "attributes"}
    /\ turn.pc = "fire" /\ turn.conv.flow \in Collecting /\ turn.conv.gender
       => row.gender \/ row.genderByHuman

IInv ==
    /\ TypeOK
    /\ NotYetMatched
    /\ RunsAreFired
    /\ CopiesAreFresh
    /\ UniversityKept
    /\ NothingDelivered
    /\ OneDelivery
    /\ TurnKeepsSlots
    /\ SingleRecommendation
    /\ PitchedAtMostOnce
    /\ SlotsBeforeMatching

(***************************************************************************)
(* The same for the three limits on what the bot says: SameAnswerCap,      *)
(* LateSpeechBounded and CampusQuestionHasParent.                          *)
(***************************************************************************)
\* The turn may still count an intent from the row it was called with.
Counting == turn.pc \in {"route", "reread", "entity", "classify"}

\* The row remembers the intent that was answered last and has counted every
\* answer to it: the count is written before the answer is sent.
AnswersRemembered ==
    /\ told.intent = NoIntent => told.answers = 0
    /\ told.intent # NoIntent =>
          row.intent = told.intent /\ told.answers <= row.repeats
    /\ Counting => turn.start.intent = row.intent /\ turn.start.repeats = row.repeats
    /\ turn.pc = "answer" =>
          /\ row.intent \in Intents
          /\ row.repeats \in 1 .. 2
          /\ told.intent # NoIntent => told.answers < row.repeats

\* The turn has a send before it.
MaySpeak ==
    turn.pc \in {"route", "reread", "entity", "pendParent", "matched", "askGender",
                 "activate", "classify", "answer", "say", "pitch"}

\* What the turn may still send.
TurnLeft == IF MaySpeak THEN Lines - turn.sent ELSE 0

\* After a takeover, what was sent and what the turn and the run may still
\* send stay within the two lists; only a pitch has sent lines behind it.
SendsLeft ==
    /\ turn.pc \notin {"pitch", "attributes"} => turn.sent = 0
    /\ row.flow = "stopped" =>
          /\ told.late + TurnLeft <= 2 * Lines + faults
          /\ \A k \in Keys, a \in Tries :
                run[k][a].pc = "delivering"
                => told.late + TurnLeft + (Lines - run[k][a].sent) <= 2 * Lines + faults

\* While the parent is missing, the turn that asked for the campus, or the
\* one that was told it, is about to store it or to leave the question behind.
CampusTurn ==
    faults = 0 =>
        /\ row.flow = "awaiting_campus_clarification" /\ ~row.pendingParent =>
              \/ turn.pc = "pendParent"
              \/ /\ turn.pc \in {"matched", "askGender", "fire"}
                 /\ turn.conv.flow = row.flow
                 /\ turn.pc = "fire" => SlotsFilled(turn.conv)
        /\ turn.pc \in {"route", "reread", "entity"}
           /\ row.flow = "awaiting_campus_clarification"
           => turn.conv.flow = row.flow

Limits ==
    /\ AnswersRemembered
    /\ SameAnswerCap
    /\ SendsLeft
    /\ LateSpeechBounded
    /\ CampusTurn
=============================================================================
