----------------------------- MODULE LeadService -----------------------------
(***************************************************************************)
(* What the bot promises of one lead, whatever goes on inside: it collects *)
(* the two slots, matches the lead with hotels at most once, delivers the  *)
(* result of that matching at most once, and hands the lead to humans for  *)
(* good or leaves it to the agent who took over.                           *)
(*                                                                         *)
(* LeadConversation implements this.                                       *)
(***************************************************************************)
EXTENDS Naturals

VARIABLES
    phase,      \* where the lead is
    matchings,  \* matchings begun
    pitches     \* lists of hotels delivered

service == <<phase, matchings, pitches>>

Phases == {"collecting", "matching", "closed", "agent", "handed"}

Init == phase = "collecting" /\ matchings = 0 /\ pitches = 0

\* The lead is still the bot's, or the turn under way takes it back from the
\* agent; once a matching has begun it does so no more.
BotsOwn == phase = "collecting" \/ (phase = "agent" /\ matchings = 0)

\* A slot is asked for.
Collect ==
    /\ BotsOwn
    /\ phase' = "collecting"
    /\ UNCHANGED <<matchings, pitches>>

\* Both slots are filled.
BeginMatching ==
    /\ BotsOwn /\ matchings = 0
    /\ phase' = "matching"
    /\ matchings' = 1
    /\ UNCHANGED pitches

\* The matching has a result, or the lead needs none: it named a hotel, or a
\* university elsewhere.
Close ==
    /\ BotsOwn \/ phase = "matching"
    /\ phase' = "closed"
    /\ UNCHANGED <<matchings, pitches>>

\* The list goes out after the matching, whoever has the lead by then.
Deliver ==
    /\ matchings = 1 /\ phase # "matching" /\ pitches = 0
    /\ pitches' = 1
    /\ UNCHANGED <<phase, matchings>>

\* An agent takes over; a human is called.
HandOver ==
    /\ phase' \in {"agent", "handed"}
    /\ UNCHANGED <<matchings, pitches>>

Next == Collect \/ BeginMatching \/ Close \/ Deliver \/ HandOver

Spec == Init /\ [][Next]_service
=============================================================================
