---------------------------- MODULE AttributeMerge ----------------------------
(***************************************************************************)
(* What the TagAssigner router lets the LLM change in the attributes of a  *)
(* conversation (app/tagassigner/attribute_merger.py, attribute_helpers.py)*)
(* and the info-check label it flags the rest with (info_check.py).  Pure  *)
(* operators.                                                              *)
(*                                                                         *)
(* A value as Chatwoot shows it is a sequence of words; the sentinels      *)
(* ("", "boş", "bilinmiyor") are the empty one, Unset.                     *)
(***************************************************************************)
EXTENDS Naturals, Sequences

CONSTANTS
    Genders,        \* displayed values of ogrenci_cinsiyet
    Rooms           \* TAGASSIGNER_ROOM_TYPE_VALUES

Fields == {"university", "gender", "room"}

Setters == {"none", "human", "tagAssigner", "infoGatherer"}

Unset == <<>>

\* UNIVERSITY_CAMPUS_AMBIGUOUS
CampusAmbiguous == <<"bilinmiyor-kampus">>

\* A verdict: the value accepted, if any, and the mismatch, if any.
Nothing == [accepted |-> Unset, blocked |-> {}]

\* Why a proposal is blocked.
Reasons == {"campus_ambiguous", "human_set", "already_set", "validation_failed"}

Accept(value) == [accepted |-> value, blocked |-> {}]

Block(field, current, proposed, reason) ==
    [accepted |-> Unset,
     blocked  |-> {[field |-> field, current |-> current, proposed |-> proposed,
                    reason |-> reason]}]

\* values_differ, and no clearing of a value.
Asks(current, proposed) == proposed # Unset /\ proposed # current

\* _merge_university; resolved: the list value of the university the proposal
\* stands for, or Unset.  (Several universities are never reported.)
MergeUniversity(current, setBy, proposed, resolved) ==
    LET named      == IF resolved = Unset THEN proposed ELSE resolved
        Because(w) == Block("university", current, named, w)
    IN  IF proposed = CampusAmbiguous THEN Because("campus_ambiguous")
        ELSE IF ~Asks(current, proposed) THEN Nothing
        ELSE IF setBy = "human" THEN Because("human_set")
        ELSE IF resolved = Unset THEN Because("validation_failed")
        ELSE Accept(resolved)

\* Mutant: the LLM is believed.
MergeGender_Unheard(current, setBy, proposed, heard) ==
    LET Because(w) == Block("gender", current, proposed, w)
    IN  IF ~Asks(current, proposed) THEN Nothing
        ELSE IF setBy = "human" THEN Because("human_set")
        ELSE IF proposed \notin Genders THEN Because("validation_failed")
        ELSE Accept(proposed)

\* _merge_gender; heard: inbound_gender_signal.  What the lead has not said
\* is dropped without a mismatch.
MergeGender(current, setBy, proposed, heard) ==
    LET Because(w) == Block("gender", current, proposed, w)
    IN  IF ~Asks(current, proposed) THEN Nothing
        ELSE IF setBy = "human" THEN Because("human_set")
        ELSE IF proposed \notin Genders THEN Because("validation_failed")
        ELSE IF heard # proposed THEN Nothing
        ELSE Accept(proposed)

\* _merge_oda_tiipi: a room type is added, never changed.
MergeRoom(current, setBy, proposed) ==
    LET Because(w) == Block("room", current, proposed, w)
    IN  IF ~Asks(current, proposed) THEN Nothing
        ELSE IF setBy = "human" THEN Because("human_set")
        ELSE IF current # Unset THEN Because("already_set")
        ELSE IF proposed \notin Rooms THEN Because("validation_failed")
        ELSE Accept(proposed)

\* merge_attributes: a verdict for every field.
Verdicts(current, setBy, proposed, resolved, heard) ==
    [f \in Fields |->
        CASE f = "university" -> MergeUniversity(current[f], setBy[f], proposed[f], resolved)
          [] f = "gender"     -> MergeGender(current[f], setBy[f], proposed[f], heard)
          [] f = "room"       -> MergeRoom(current[f], setBy[f], proposed[f])]

\* Chatwoot's attributes are a dictionary: a field may be missing.
Read(shown, f) == IF f \in DOMAIN shown THEN shown[f] ELSE Unset

\* Mutant: the values an agent set are overwritten too.
Stale_HumanToo(current, setBy, shown) ==
    {f \in Fields : current[f] # Unset /\ Read(shown, f) # current[f]}

\* reconcile_chatwoot_attributes: the fields Chatwoot is to be told of again.
Stale(current, setBy, shown) ==
    {f \in Fields :
        /\ current[f] # Unset
        /\ Read(shown, f) # current[f]
        /\ setBy[f] = "human" => Read(shown, f) = Unset}

----------------------------------------------------------------------------
NoFlag == [field |-> "none", current |-> Unset, proposed |-> Unset, reason |-> "none"]

\* pick_primary_mismatch, by _FIELD_PRIORITY; there is one for a field.  The
\* mismatch is its own fingerprint.
Primary(blocked) ==
    LET Of(f) == {m \in blocked : m.field = f}
        chosen == IF Of("university") # {} THEN Of("university")
                  ELSE IF Of("gender") # {} THEN Of("gender") ELSE Of("room")
    IN  IF chosen = {} THEN NoFlag ELSE CHOOSE m \in chosen : TRUE

\* apply_info_check: the labels, and the flag to be written to the row, if any.
\* expired: the flag was added 48 hours ago or more.
InfoCheck(labels, flag, suppressed, expired, blocked) ==
    LET up    == "info-check" \in labels
        down  == labels \ {"info-check"}
        found == Primary(blocked)
    IN  IF up /\ expired THEN [labels |-> down, writes |-> {NoFlag}]
        ELSE IF blocked = {}
        THEN [labels |-> down, writes |-> {c \in {NoFlag} : up \/ flag # NoFlag}]
        ELSE IF found = suppressed
        THEN [labels |-> down, writes |-> {c \in {NoFlag} : up}]
        ELSE [labels |-> labels \cup {"info-check"}, writes |-> {found}]
=============================================================================
