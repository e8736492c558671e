---------------------------- MODULE LabelResolver ----------------------------
(***************************************************************************)
(* The label rules of the TagAssigner router                               *)
(* (app/tagassigner/label_resolver.py): which of the labels the LLM asks   *)
(* for replace which of those the conversation has.  Pure operators; the   *)
(* label lists are parameters.                                             *)
(***************************************************************************)
EXTENDS Integers, FiniteSets

CONSTANTS
    Usable,         \* LIST_1_USABLE: the LLM adds and removes them
    Terminal,       \* LIST_2_TERMINAL: the LLM adds them
    NeverTouch,     \* LIST_3_NEVER_TOUCH: those of the CRM
    Groups,         \* List 4: each a function from its labels to their level
    First(_)        \* the alphabetically first of a set of labels

RouterOwned == {"deal_awaiting"}

\* What the router takes out of the proposal before it resolves it.
Computed == {"info-check", "deal_awaiting", "fiyat-soruyor", "hizmet-veremiyoruz"}

ASSUME ListsAssumption ==
    /\ Usable \cap Terminal = {}
    /\ (Usable \cup Terminal) \cap NeverTouch = {}
    /\ (Usable \cup Terminal \cup NeverTouch) \cap (RouterOwned \cup {"fiyat-soruyor", "ai", "tag"}) = {}
    /\ {"info-check", "hizmet-veremiyoruz"} \subseteq Usable

ASSUME GroupsAssumption ==
    /\ \A g \in Groups : DOMAIN g \subseteq Usable \cup Terminal
    /\ \A g \in Groups : g \in [DOMAIN g -> Nat]
    /\ \A g, h \in Groups : g # h => DOMAIN g \cap DOMAIN h = {}
    /\ \A g \in Groups : DOMAIN g \cap Computed = {}

ASSUME FirstAssumption ==
    \A g \in Groups : \A S \in SUBSET (DOMAIN g) \ {{}} : First(S) \in S

Strip(proposed) == proposed \ Computed

\* Steps 1 and 2 of resolve_labels.
Guarded(before, proposed) ==
    (proposed \ (NeverTouch \cup RouterOwned)) \cup (before \cap (Terminal \cup RouterOwned))

\* The labels of a group no other one proposed is ahead of.
Leading(g, proposed) ==
    {l \in DOMAIN g \cap proposed : \A k \in DOMAIN g \cap proposed : g[k] <= g[l]}

\* Of those on a par one the conversation has; which, if it has several, is
\* up to the iteration order of a set.
Keepers(g, before, proposed) ==
    LET leading == Leading(g, proposed)
    IN  IF Cardinality(leading) <= 1 THEN leading
        ELSE IF leading \cap before # {} THEN leading \cap before
        ELSE {First(leading)}

\* _enforce_mutex, one outcome for each choice among the keepers.
Enforcements(before, proposed) ==
    LET grouped == UNION {DOMAIN g \cap proposed : g \in Groups}
    IN  {(proposed \ grouped) \cup kept :
            kept \in {K \in SUBSET grouped :
                \A g \in Groups : DOMAIN g \cap proposed # {} =>
                    \E l \in Keepers(g, before, proposed) : DOMAIN g \cap K = {l}}}

\* Step 4: what is not usable stays, what is usable goes with the proposal.
Merge(before, enforced) ==
    (before \ (Usable \ enforced)) \cup (enforced \cap (Usable \cup Terminal))

\* Mutant: the proposal replaces the labels.
Resolutions_Replace(before, proposed) ==
    {enforced \cap (Usable \cup Terminal) :
        enforced \in Enforcements(before, Guarded(before, proposed))}

\* resolve_labels
Resolutions(before, proposed) ==
    {Merge(before, enforced) : enforced \in Enforcements(before, Guarded(before, proposed))}
=============================================================================
