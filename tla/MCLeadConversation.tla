------------------------- MODULE MCLeadConversation -------------------------
(***************************************************************************)
(* The instance TLC checks: three intents that stand for the rows of       *)
(* migrations/018_divergence_routing.sql by what is done about them.       *)
(***************************************************************************)
EXTENDS LeadConversation, TLC

MCIntents == {"price", "housing", "no_intent"}

MCUninformative == {"no_intent"}

MCRoute ==
    LET answered == {"new", "awaiting_university", "awaiting_gender"}
    IN  [cell \in {"price", "housing"} \X answered \cup {"no_intent"} \X Collecting |->
            IF cell[1] = "no_intent" THEN "ignore"
            ELSE IF cell = <<"housing", "new">> THEN "activate_flow"
            ELSE "answer_and_reanchor"]

\* Keys are uuids: interchangeable.
MCSymmetry == Permutations(Keys)
=============================================================================
