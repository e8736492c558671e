------------------------------- MODULE MCTagRun -------------------------------
(***************************************************************************)
(* A small Istanbul for TagRun: one institution with two campuses, one     *)
(* with a single one, and one in another city that shares a word with a    *)
(* district; two or three labels of each list.                             *)
(***************************************************************************)
EXTENDS TagRun

MCGroups == {[veli |-> 0, ogrenci |-> 0], [kayip |-> 0, sozlesme |-> 0]}

MCFirst(S) ==
    LET order == <<"kayip", "ogrenci", "sozlesme", "veli">>
    IN  order[CHOOSE i \in DOMAIN order : order[i] \in S /\ \A j \in 1 .. i - 1 : order[j] \notin S]

MCGenders == {<<"kiz">>, <<"erkek">>}

MCRooms == {<<"tek">>, <<"cift">>}

MCUniversities ==
    <<[id |-> "goztepe", name |-> <<"marmara", "goztepe">>, short |-> Blank],
      [id |-> "hisar",   name |-> <<"marmara", "anadolu", "hisari">>, short |-> Blank],
      [id |-> "biruni",  name |-> <<"biruni", "universitesi">>, short |-> Blank]>>

MCAliases == <<[alias |-> <<"marmara">>, parent |-> "marmara", university |-> "none"]>>

MCCampuses ==
    <<[parent |-> "marmara", university |-> "goztepe", label |-> <<"goztepe">>],
      [parent |-> "marmara", university |-> "hisar",   label |-> <<"hisari">>],
      [parent |-> "biruni",  university |-> "biruni",  label |-> <<"merkez">>]>>

MCOutOfCity == <<[id |-> "anadolu", name |-> <<"anadolu", "universitesi">>, short |-> Blank]>>

MCListValues ==
    <<[id |-> "goztepe", value |-> <<"marmara", "goztepe">>],
      [id |-> "hisar",   value |-> <<"marmara", "anadolu", "hisari">>],
      [id |-> "biruni",  value |-> <<"biruni", "universitesi">>]>>

MCHotels == <<[id |-> "hotel", name |-> <<"univotel">>, visible |-> TRUE]>>

\* "birini" is one typo away from "biruni", "birlik" three; everything else is
\* far apart.
MCDistance(s, t) ==
    CASE s = t -> 0
      [] {s, t} = {<<"birini">>, <<"biruni">>} -> 1
      [] {s, t} = {<<"birlik">>, <<"biruni">>} -> 3
      [] OTHER -> 9

MCLength(text) == 6 * Len(text)

MCDefaultCampus == Empty

Lead(words, gender, asks) ==
    [by |-> "lead", words |-> words, gender |-> gender, asks |-> asks, tells |-> FALSE]

MCSpeech ==
    {Lead(<<"marmara">>, Unset, FALSE),
     Lead(<<"hisari", "anadolu">>, <<"kiz">>, TRUE),
     Lead(<<"univotel", "biruni">>, <<"kiz">>, FALSE),
     [by |-> "bot", words |-> <<"tamam">>, gender |-> <<"erkek">>, asks |-> FALSE, tells |-> TRUE]}

MCAnswers ==
    {[labels |-> {"veli", "sozlesme", "aranacak", "info-check"},
      values |-> [university |-> <<"marmara", "goztepe">>, gender |-> <<"kiz">>, room |-> Unset],
      echo   |-> Blank],
     [labels |-> {"veli", "ogrenci", "kayip"},
      values |-> [university |-> <<"birini">>, gender |-> <<"erkek">>, room |-> <<"tek">>],
      echo   |-> <<"marmara">>]}

MCAgentValues ==
    {<<"university", <<"biruni", "universitesi">>>>, <<"university", Unset>>,
     <<"gender", <<"erkek">>>>}

\* A new conversation, and one that a run has already flagged: an agent had
\* entered the university the LLM wants to change.
MCBegins ==
    LET greeting == <<Lead(<<"selam">>, Unset, FALSE)>>
        tagged   == {"ogrenci", "kayip", "aranacak", "info-check", "ai"}
    IN  {[labels |-> {}, shown |-> Empty, row |-> NewRow, thread |-> <<>>],
         [labels |-> tagged,
          shown  |-> [university |-> <<"marmara", "goztepe">>, room |-> <<"tek">>],
          row    |-> [NewRow EXCEPT
             !.labels = tagged, !.university = "goztepe", !.room = <<"tek">>,
             !.setBy.university = "human", !.setBy.room = "tagAssigner",
             !.flag = [field |-> "university", current |-> <<"marmara", "goztepe">>,
                       proposed |-> <<"biruni", "universitesi">>, reason |-> "human_set"]],
          thread |-> greeting]}

\* Nothing yet for girls in Goztepe, nor for anybody at Biruni.
MCProperties ==
    {[serves |-> {"goztepe", "hisar"}, scope |-> <<"erkek">>, visible |-> TRUE],
     [serves |-> {"hisar"}, scope |-> Mixed, visible |-> TRUE],
     [serves |-> {"biruni"}, scope |-> Mixed, visible |-> FALSE]}

\* Which of the handlers has a webhook makes no difference.
MCSymmetry == Permutations(Handlers)

----------------------------------------------------------------------------
(***************************************************************************)
(* match_university and is_near_miss_university against what they are for, *)
(* for all texts of one or two of these words.                             *)
(***************************************************************************)
MCTexts ==
    LET words == {"marmara", "goztepe", "biruni", "birini", "birlik", "universitesi", "univotel"}
    IN  {<<w>> : w \in words} \cup {<<v, w>> : v, w \in words}

DistanceTo(text, u) == Distance(Normalize(text), Normalize(u.name))

\* A text without a match is too far from every name, and every name matches.
ASSUME UnmatchedIsFar ==
    \A t \in MCTexts : \A u \in Rows(Universities) :
        MatchUniversity(t) = NoMatch => DistanceTo(t, u) > Cutoff(Normalize(t))

\* A text that is a name of one university is never taken for another's typo.
ASSUME ExactIsItself ==
    \A t \in MCTexts : \A u \in Rows(Universities) :
        Named(u, Normalize(t)) => MatchUniversity(t) = Match("exact", u.id, "none")

\* is_near_miss_university finds what match_university just does not, and a
\* hotel is not near to anything else.
ASSUME NearMissIsUnmatched ==
    \A t \in MCTexts : NearMiss(t) => MatchUniversity(t) = NoMatch

ASSUME HotelIsNamed ==
    \A t \in MCTexts : MatchHotel(t) # Blank <=> "univotel" \in Words(t)
=============================================================================
