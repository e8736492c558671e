------------------------------- MODULE Inventory -------------------------------
(***************************************************************************)
(* The properties, as the statements that look for one ask for them        *)
(* (app/db/queries.py), and the label a conversation gets when its         *)
(* university is on the list of those that wait for a deal and none can    *)
(* take the lead (app/tagassigner/deal_awaiting.py).  Pure operators.      *)
(***************************************************************************)
EXTENDS AttributeMerge

CONSTANTS
    Properties,     \* [serves : universities, scope : genders, visible : BOOLEAN]
    DealList        \* deal_awaiting_universities

\* gender_scope: for both genders.  Unset if nobody has entered it.
Mixed == <<"mixed">>

ASSUME InventoryAssumption ==
    /\ Mixed \notin Genders /\ Unset \notin Genders
    /\ \A p \in Properties : p.scope \in Genders \cup {Mixed, Unset} /\ p.visible \in BOOLEAN

\* find_hotels_by_gender_and_university; of the order nothing is used here.
FindHotels(gender, university) ==
    {p \in Properties : university \in p.serves /\ p.visible /\ p.scope \in {gender, Mixed}}

\* has_any_serviceable_property
AnyServiceable(university) ==
    \E p \in Properties : university \in p.serves /\ p.visible /\ p.scope # Unset

\* _is_serviceable: as long as the gender is not known, any property will do.
Serviceable(university, gender) ==
    IF gender \in Genders THEN FindHotels(gender, university) # {} ELSE AnyServiceable(university)

\* apply_deal_awaiting; the label is never taken away here.
DealAwaiting(university, gender) ==
    {l \in {"deal_awaiting"} : university \in DealList /\ ~Serviceable(university, gender)}
=============================================================================
