---------------------------- MODULE InfoGatherer ----------------------------
(***************************************************************************)
(* One InfoGatherer turn at a time (app/layers/info_gatherer.py), run by   *)
(* _process_inbound under the conversation's processing lock               *)
(* (app/webhooks/chatwoot.py).  The lock keeps turns apart; it does not    *)
(* keep out the webhooks, the TagAssigner or the recommendation engine,    *)
(* which step between any two awaits of the turn.                          *)
(*                                                                         *)
(* A turn works on two copies of the row: start is the row process_message *)
(* was called with (`conversation`), conv the copy the extraction re-reads *)
(* (`conv`).  A guarded update names the flow state of one or the other,   *)
(* exactly as in the code.                                                 *)
(***************************************************************************)
EXTENDS RecEngine

CONSTANT MaxTurns   \* bound: customer bursts that reach process_message

ASSUME MaxTurnsAssumption == MaxTurns \in Nat

VARIABLES
    turn,       \* the turn holding the processing lock
    inbound     \* turns begun so far

gatherVars == <<turn, inbound>>

TurnPCs ==
    {"idle", "backfill", "route", "reread", "entity", "pendParent", "matched",
     "askGender", "fire", "settle", "reset", "activate", "classify", "clarified",
     "answer", "reanchor", "say", "pitch", "escalate", "attributes"}

\* What a turn reads of its two copies.
Start == [flow : FlowStates, clarification : Nat,
          intent : Intents \cup {NoIntent}, repeats : Nat]

Conv == [flow : FlowStates, university : BOOLEAN, gender : BOOLEAN,
         pendingParent : BOOLEAN, clarification : Nat]

StartOf(r) == [flow |-> r.flow, clarification |-> r.clarification,
               intent |-> r.intent, repeats |-> r.repeats]

ConvOf(r) == [flow |-> r.flow, university |-> r.university, gender |-> r.gender,
              pendingParent |-> r.pendingParent, clarification |-> r.clarification]

Turn == [pc           : TurnPCs,
         next         : {"idle", "reset", "settle", "clarified", "attributes"},
         start        : Start,
         conv         : Conv,
         genderFilled : BOOLEAN,
         ifEmpty      : {"divergence", "activate"},
         sent         : 0 .. Lines]

NoTurn == [pc |-> "idle", next |-> "idle",
           start |-> StartOf(NewRow), conv |-> ConvOf(NewRow),
           genderFilled |-> FALSE, ifEmpty |-> "divergence", sent |-> 0]

GatherTypeOK == turn \in Turn /\ inbound \in Nat

GatherInit == turn = NoTurn /\ inbound = 0

----------------------------------------------------------------------------
\* Where the turn goes on.
At(pc) == IF pc = "idle" THEN NoTurn ELSE [turn EXCEPT !.pc = pc]

AtThen(pc, next) == [turn EXCEPT !.pc = pc, !.next = next]

Saying(next) == AtThen("say", next)

Escalating(next) == AtThen("escalate", next)

\* update_conversation_state and the branch taken on what it returned.
Advance(expected, new, won, lost) ==
    IF LockHolds(expected)
    THEN SetFlow(new) /\ turn' = won
    ELSE UNCHANGED row /\ turn' = lost

\* process_message on the row r: the flow states it does nothing in.
Admit(r) ==
    IF r.flow \in HumanOwned \cup {"recengine_running"} \/ ~r.botEnabled
    THEN NoTurn
    ELSE [NoTurn EXCEPT !.pc = "route", !.start = StartOf(r), !.conv = ConvOf(r)]

\* Extraction returned "none".
Fallback == At(IF turn.ifEmpty = "activate" THEN "activate" ELSE "classify")

InCampusQuestion ==
    turn.start.flow = "awaiting_campus_clarification" /\ turn.conv.pendingParent

AwaitingUniversity == {"awaiting_university", "awaiting_university_clarification"}

----------------------------------------------------------------------------
\* A debounced burst takes the lock; the upsert returns the row.
TurnStarts ==
    /\ turn.pc = "idle"
    /\ inbound < MaxTurns
    /\ inbound' = inbound + 1
    /\ turn' = IF row.backfilled THEN Admit(row)
               ELSE [NoTurn EXCEPT !.pc = "backfill"]
    /\ UNCHANGED <<row, told>>

\* _maybe_abstain_after_first_sight_backfill: a fresh thread goes on with a
\* re-read row; history found in Chatwoot, or a failed fetch, disables the bot.
Backfill ==
    /\ turn.pc = "backfill"
    /\ \/ /\ row' = [row EXCEPT !.backfilled = TRUE]
          /\ turn' = Admit(row')
       \/ /\ row' = [row EXCEPT !.backfilled = TRUE, !.botEnabled = FALSE]
          /\ turn' = NoTurn
    /\ UNCHANGED <<told, inbound>>

----------------------------------------------------------------------------
\* A hotel is named: pitch it now, whatever slot was being asked for.
HotelNamed ==
    /\ turn.pc = "route"
    /\ IF turn.start.flow = "completed"
       THEN UNCHANGED row /\ turn' = At("pitch")
       ELSE Advance(turn.start.flow, "completed", At("pitch"), NoTurn)
    /\ UNCHANGED <<told, inbound>>

PostCompletion ==
    /\ turn.pc = "route"
    /\ turn.start.flow = "completed"
    /\ turn' = Escalating("idle")
    /\ UNCHANGED <<row, told, inbound>>

\* What evaluate_phrase_gate makes of a message that names no hotel: the first
\* one of a lead may greet, name a place, or ask for housing or prices.
Gates == {"ignore", "greeting"}

\* _handle_new: what an empty extraction leads to.
IfEmpty(gate) ==
    IF turn.start.flow = "new" /\ gate = "greeting" THEN "activate" ELSE "divergence"

\* No hotel: gender first.
ExtractGender ==
    /\ turn.pc = "route"
    /\ turn.start.flow \in Collecting
    /\ \E gate \in Gates, named \in BOOLEAN :
          /\ named => ~turn.conv.gender
          /\ row' = [row EXCEPT !.gender = @ \/ named]
          /\ turn' = [At(IF named THEN "reread" ELSE "entity") EXCEPT
                         !.genderFilled = named, !.ifEmpty = IfEmpty(gate)]
    /\ UNCHANGED <<told, inbound>>

ReadBack ==
    /\ turn.pc = "reread"
    /\ turn' = [At("entity") EXCEPT !.conv = ConvOf(row)]
    /\ UNCHANGED <<row, told, inbound>>

----------------------------------------------------------------------------
\* The pending parent's campus is named.
CampusMatched ==
    /\ turn.pc = "entity"
    /\ InCampusQuestion
    /\ row' = [row EXCEPT !.pendingParent = FALSE, !.clarification = 0, !.university = TRUE]
    /\ turn' = AtThen("matched", "reset")
    /\ UNCHANGED <<told, inbound>>

\* No campus: one more question, then divergence.
CampusNotMatched ==
    /\ turn.pc = "entity"
    /\ InCampusQuestion
    /\ IF turn.conv.clarification >= 1
       THEN UNCHANGED row /\ turn' = Fallback
       ELSE /\ row' = [row EXCEPT !.clarification = @ + 1]
            /\ turn' = Saying("idle")
    /\ UNCHANGED <<told, inbound>>

\* Mutant: the matched university is used but not stored.
UniversityMatched_NotStored ==
    /\ turn.pc = "entity"
    /\ ~InCampusQuestion /\ ~turn.conv.university
    /\ row' = [row EXCEPT !.clarification = 0]
    /\ \E next \in {"reset", "settle"} : turn' = AtThen("matched", next)
    /\ UNCHANGED <<told, inbound>>

\* A university, directly ("settle") or through a parent whose campus is
\* settled too ("reset").
UniversityMatched ==
    /\ turn.pc = "entity"
    /\ ~InCampusQuestion /\ ~turn.conv.university
    /\ row' = [row EXCEPT !.clarification = 0, !.university = TRUE]
    /\ \E next \in {"reset", "settle"} : turn' = AtThen("matched", next)
    /\ UNCHANGED <<told, inbound>>

\* A parent university whose campus must be asked for, or cannot be.
ParentMatched ==
    /\ turn.pc = "entity"
    /\ ~InCampusQuestion /\ ~turn.conv.university
    /\ LET cleared == [row EXCEPT !.clarification = 0] IN
       \/ /\ LockHolds(turn.conv.flow)
          /\ row' = [cleared EXCEPT !.flow = "awaiting_campus_clarification"]
          /\ turn' = At("pendParent")
       \/ /\ ~LockHolds(turn.conv.flow)
          /\ row' = cleared
          /\ turn' = At("reset")
       \/ /\ row' = cleared
          /\ turn' = Escalating("reset")
    /\ UNCHANGED <<told, inbound>>

\* Mutant: the campus is asked for, its parent forgotten.
PendParent_NotStored ==
    /\ turn.pc = "pendParent"
    /\ turn' = Saying("reset")
    /\ UNCHANGED <<row, told, inbound>>

\* set_conversation_pending_parent, a statement of its own.
PendParent ==
    /\ turn.pc = "pendParent"
    /\ row' = [row EXCEPT !.pendingParent = TRUE]
    /\ turn' = Saying("reset")
    /\ UNCHANGED <<told, inbound>>

AmbiguousUniversity ==
    /\ turn.pc = "entity"
    /\ ~InCampusQuestion /\ ~turn.conv.university
    /\ Advance(turn.conv.flow, "awaiting_university_clarification",
               Saying("reset"), At("reset"))
    /\ UNCHANGED <<told, inbound>>

OutOfCity ==
    /\ turn.pc = "entity"
    /\ ~InCampusQuestion /\ ~turn.conv.university
    /\ turn.start.flow \in AwaitingUniversity \cup {"new"}
    /\ Advance(turn.conv.flow, "completed", Saying("reset"), At("reset"))
    /\ UNCHANGED <<told, inbound>>

\* Nothing matched: to divergence, even when the gender was filled, unless
\* the scan was skipped (question form, or the university is known).
NoEntity ==
    /\ turn.pc = "entity"
    /\ ~InCampusQuestion
    /\ \/ turn' = IF turn.genderFilled THEN At("settle") ELSE Fallback
       \/ ~turn.conv.university /\ turn' = Fallback
    /\ UNCHANGED <<row, told, inbound>>

----------------------------------------------------------------------------
\* _handle_post_match re-reads the row to see whether the gender is known.
MatchedReadsBack ==
    /\ turn.pc = "matched"
    /\ turn' = IF row.gender THEN [At("fire") EXCEPT !.conv = ConvOf(row)] ELSE At("askGender")
    /\ UNCHANGED <<row, told, inbound>>

AskGender ==
    /\ turn.pc = "askGender"
    /\ Advance(turn.conv.flow, "awaiting_gender", Saying(turn.next), At(turn.next))
    /\ UNCHANGED <<told, inbound>>

\* _fire_rec_engine_if_ready: no await between the update and create_task.
MayFire ==
    turn.conv.flow \in Collecting /\ SlotsFilled(turn.conv) /\ LockHolds(turn.conv.flow)

\* Mutant: the ladder starts without the state that locks a second one out.
Fire_NoLock(k) ==
    /\ turn.pc = "fire"
    /\ MayFire
    /\ StartLadder(k)
    /\ turn' = At(turn.next)
    /\ UNCHANGED <<row, told, inbound>>

Fire(k) ==
    /\ turn.pc = "fire"
    /\ MayFire
    /\ SetFlow("recengine_running")
    /\ StartLadder(k)
    /\ turn' = At(turn.next)
    /\ UNCHANGED <<told, inbound>>

NotReady ==
    /\ turn.pc = "fire"
    /\ ~MayFire
    /\ turn' = At(turn.next)
    /\ UNCHANGED <<row, told, inbound>>

\* A slot was filled: clear the divergence memory, re-read, fire if complete.
Settle ==
    /\ turn.pc = "settle"
    /\ row' = ResetDivergence(row)
    /\ told' = Forget(told)
    /\ turn' = IF SlotsFilled(row)
               THEN [AtThen("fire", "idle") EXCEPT !.conv = ConvOf(row)]
               ELSE IF turn.genderFilled /\ turn.start.flow = "awaiting_gender"
                    THEN Escalating("idle")
                    ELSE NoTurn
    /\ UNCHANGED inbound

Reset ==
    /\ turn.pc = "reset"
    /\ row' = ResetDivergence(row)
    /\ told' = Forget(told)
    /\ turn' = NoTurn
    /\ UNCHANGED inbound

----------------------------------------------------------------------------
\* _activate_flow: the question for the earliest empty slot; none in "new"
\* after an automation message, none for a campus without a parent.
Activate ==
    /\ turn.pc = "activate"
    /\ \E asked \in {Saying("idle"), NoTurn} :
          IF turn.start.flow = "new"
          THEN Advance(turn.start.flow, "awaiting_university", asked, NoTurn)
          ELSE /\ asked = NoTurn => turn.start.flow = "awaiting_campus_clarification"
               /\ UNCHANGED row
               /\ turn' = asked
    /\ UNCHANGED <<told, inbound>>

\* Mutant: a failed classification is tried again, without a limit.
ClassifierFails_Retries ==
    /\ turn.pc = "classify"
    /\ turn' = At("entity")
    /\ UNCHANGED <<row, told, inbound>>

ClassifierFails ==
    /\ turn.pc = "classify"
    /\ turn' = IF turn.start.flow = "new" THEN NoTurn ELSE Escalating("idle")
    /\ UNCHANGED <<row, told, inbound>>

\* A typo'd university: _handle_university_no_match.
NearMiss ==
    /\ turn.pc = "classify"
    /\ Uninformative # {}
    /\ turn.start.flow \in AwaitingUniversity
    /\ turn' = IF turn.start.clarification >= 1
               THEN Escalating("idle") ELSE Saying("clarified")
    /\ UNCHANGED <<row, told, inbound>>

RepeatCount(intent) ==
    IF turn.start.intent = intent THEN turn.start.repeats + 1 ELSE 1

\* route(): a row of the cached table, or else to a human.
Routed(intent) ==
    LET cell == <<intent, turn.start.flow>>
    IN  IF cell \in DOMAIN Route THEN Route[cell] ELSE "escalate"

\* Mutant: the cap is off by one.
Decision_LateCap(intent) ==
    IF RepeatCount(intent) > 3 /\ Routed(intent) = "answer_and_reanchor"
    THEN "escalate"
    ELSE Routed(intent)

\* The cap on answering the same intent.
Decision(intent) ==
    IF RepeatCount(intent) >= 3 /\ Routed(intent) = "answer_and_reanchor"
    THEN "escalate"
    ELSE Routed(intent)

\* The classified intent is counted before anything is done about it.
Diverge(intent) ==
    /\ turn.pc = "classify"
    /\ RecordDivergence(intent, RepeatCount(intent))
    /\ told' = IF told.intent = intent THEN told ELSE Forget(told)
    /\ \/ Decision(intent) = "answer_and_reanchor" /\ turn' = At("answer")
       \/ Decision(intent) = "activate_flow" /\ turn' = At("activate")
       \/ Decision(intent) = "escalate" /\ turn' = Escalating("idle")
       \/ Decision(intent) = "ignore" /\ turn' = NoTurn
    /\ UNCHANGED inbound

Answer ==
    /\ turn.pc = "answer"
    /\ SpeakAnswer(row.intent) \/ UNCHANGED told
    /\ turn' = At(IF turn.start.flow = "new" THEN "reanchor" ELSE "idle")
    /\ UNCHANGED <<row, inbound>>

\* Mutant: the state moves on unguarded after the answer.
Reanchor_Unguarded ==
    /\ turn.pc = "reanchor"
    /\ SetFlow("awaiting_university")
    /\ turn' = NoTurn
    /\ UNCHANGED <<told, inbound>>

Reanchor ==
    /\ turn.pc = "reanchor"
    /\ Advance(turn.start.flow, "awaiting_university", NoTurn, NoTurn)
    /\ UNCHANGED <<told, inbound>>

\* After the clarification prompt; a long reply also moves the state.
Clarified ==
    /\ turn.pc = "clarified"
    /\ LET counted == [row EXCEPT !.clarification = @ + 1] IN
       \/ row' = counted
       \/ /\ LockHolds("awaiting_university")
          /\ row' = [counted EXCEPT !.flow = "awaiting_university_clarification"]
    /\ turn' = NoTurn
    /\ UNCHANGED <<told, inbound>>

----------------------------------------------------------------------------
\* One canned message, with its retries; a failure is logged and ignored.
Say ==
    /\ turn.pc = "say"
    /\ Speak \/ UNCHANGED told
    /\ turn' = At(turn.next)
    /\ UNCHANGED <<row, inbound>>

\* _send_hotel_responses, line by line as the run's list.
PitchLine ==
    /\ turn.pc = "pitch"
    /\ turn.sent < Lines
    /\ Speak
    /\ turn' = [turn EXCEPT !.sent = @ + 1]
    /\ UNCHANGED <<row, inbound>>

\* When nothing at all was sent, a human is called.
Pitched ==
    /\ turn.pc = "pitch"
    /\ turn' = IF turn.sent > 0 THEN At("attributes") ELSE Escalating("attributes")
    /\ UNCHANGED <<row, told, inbound>>

\* _escalate_human_needed
Escalate ==
    /\ turn.pc = "escalate"
    /\ SetHumanNeeded
    /\ turn' = At(turn.next)
    /\ UNCHANGED <<told, inbound>>

WriteAttributes ==
    /\ turn.pc = "attributes"
    /\ MarkCompanions \/ UNCHANGED row
    /\ turn' = NoTurn
    /\ UNCHANGED <<told, inbound>>

----------------------------------------------------------------------------
\* Every step of a turn under way but the one that starts a ladder.
TurnStep ==
    \/ Backfill
    \/ HotelNamed \/ PostCompletion \/ ExtractGender \/ ReadBack
    \/ CampusMatched \/ CampusNotMatched \/ UniversityMatched \/ ParentMatched
    \/ PendParent \/ AmbiguousUniversity \/ OutOfCity \/ NoEntity
    \/ MatchedReadsBack \/ AskGender \/ NotReady \/ Settle \/ Reset
    \/ Activate \/ ClassifierFails \/ NearMiss
    \/ \E intent \in Intents : Diverge(intent)
    \/ Answer \/ Reanchor \/ Clarified
    \/ Say \/ PitchLine \/ Pitched \/ Escalate \/ WriteAttributes
=============================================================================
