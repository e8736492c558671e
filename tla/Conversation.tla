---------------------------- MODULE Conversation ----------------------------
(***************************************************************************)
(* One row of the conversations table and the statements of               *)
(* app/db/queries.py that InfoGatherer, RecEngine and the webhooks run on  *)
(* it.  Every operator is one SQL statement, hence one atomic step.        *)
(*                                                                         *)
(* University and gender are abstracted to "the slot is filled", and       *)
(* gender_set_by to "it is human".  told is a history variable: what the   *)
(* customer has been sent, as far as the properties need it.               *)
(***************************************************************************)
EXTENDS Naturals

CONSTANTS
    Intents,        \* the divergence classifier's intents
    Uninformative,  \* Intent.NO_INTENT and Intent.COMPLEX
    NoIntent,       \* last_divergence_intent IS NULL
    Route           \* the divergence_routing table

\* The states in which the bot still collects slots.
Collecting ==
    {"new", "awaiting_university", "awaiting_university_clarification",
     "awaiting_campus_clarification", "awaiting_gender"}

HumanOwned == {"stopped", "human_needed"}

FlowStates == Collecting \cup HumanOwned \cup {"recengine_running", "completed"}

DivergenceActions ==
    {"activate_flow", "answer_and_reanchor", "ignore", "escalate"}

ASSUME IntentsAssumption ==
    /\ Uninformative \subseteq Intents
    /\ NoIntent \notin Intents

ASSUME RouteAssumption ==
    /\ DOMAIN Route \subseteq Intents \X Collecting
    /\ \A cell \in DOMAIN Route : Route[cell] \in DivergenceActions

VARIABLES
    row,    \* the conversations row
    told    \* history: what the customer was sent

Row == [flow          : FlowStates,
        university    : BOOLEAN,
        gender        : BOOLEAN,
        genderByHuman : BOOLEAN,
        pendingParent : BOOLEAN,
        clarification : Nat,
        intent        : Intents \cup {NoIntent},
        repeats       : Nat,
        botEnabled    : BOOLEAN,
        backfilled    : BOOLEAN]

NewRow == [flow          |-> "new",
           university    |-> FALSE,
           gender        |-> FALSE,
           genderByHuman |-> FALSE,
           pendingParent |-> FALSE,
           clarification |-> 0,
           intent        |-> NoIntent,
           repeats       |-> 0,
           botEnabled    |-> TRUE,
           backfilled    |-> FALSE]

(***************************************************************************)
(* answers counts the canned answers to intent with no other intent and    *)
(* no slot progress in between; pitches the lists of recommended hotels,   *)
(* each at its first message; late every message since an agent took over, *)
(* while the row still says "stopped".                                     *)
(***************************************************************************)
Told == [intent : Intents \cup {NoIntent}, answers : Nat, pitches : Nat, late : Nat]

ToldNothing == [intent |-> NoIntent, answers |-> 0, pitches |-> 0, late |-> 0]

----------------------------------------------------------------------------
\* update_conversation_state: UPDATE ... WHERE flow_state = expected.
LockHolds(expected) == row.flow = expected

SetFlow(new) == row' = [row EXCEPT !.flow = new]

\* set_conversation_human_needed and set_conversation_stopped carry no guard.
SetHumanNeeded == SetFlow("human_needed")

SetStopped == SetFlow("stopped")

\* reset_divergence_persistence
ResetDivergence(r) == [r EXCEPT !.intent = NoIntent, !.repeats = 0]

\* update_divergence_persistence
RecordDivergence(intent, count) ==
    row' = [row EXCEPT !.intent = intent, !.repeats = count]

\* mark_infogatherer_attribute_companions, after a completed flow
MarkCompanions == row' = [row EXCEPT !.genderByHuman = FALSE]

----------------------------------------------------------------------------
\* One message leaves the bot.
Late(t) == IF row.flow = "stopped" THEN [t EXCEPT !.late = @ + 1] ELSE t

Speak == told' = Late(told)

SpeakAnswer(intent) ==
    told' = [Late(told) EXCEPT
                !.answers = IF told.intent = intent THEN @ + 1 ELSE 1,
                !.intent  = intent]

\* One line of a list of which sent lines are out: a list begins with its first.
SpeakPitch(sent) ==
    told' = [Late(told) EXCEPT !.pitches = IF sent = 0 THEN @ + 1 ELSE @]

Forget(t) == [t EXCEPT !.intent = NoIntent, !.answers = 0]
=============================================================================
