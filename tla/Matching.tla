------------------------------- MODULE Matching -------------------------------
(***************************************************************************)
(* How a text is matched with the names of universities, campuses and      *)
(* hotels (app/layers/matching.py).  Pure operators.                       *)
(*                                                                         *)
(* A text is a sequence of words, already lower-case and without           *)
(* diacritics and punctuation; of normalize what is left is the suffix it  *)
(* drops.  Spelling is abstracted to the edit distance between two texts   *)
(* and the length of one.  A table of the database is a sequence of rows   *)
(* in the order the query returns them.                                    *)
(***************************************************************************)
EXTENDS Integers, Sequences, FiniteSets

CONSTANTS
    Universities,   \* rows [id, name, short]; short may be Blank
    Aliases,        \* rows [alias, parent, university], one of the two "none"
    Campuses,       \* rows [parent, university, label]
    OutOfCity,      \* rows [id, name, short]
    Hotels,         \* rows [id, name, visible]
    DroppedWords,       \* _SUFFIXES
    Stopwords,      \* _ENTITY_SCAN_STOPWORDS
    Distance(_, _), \* levenshtein_distance of two texts
    Length(_)       \* characters of a text

Blank == <<>>

Normalize(text) ==
    IF text # Blank /\ text[Len(text)] \in DroppedWords
    THEN SubSeq(text, 1, Len(text) - 1) ELSE text

\* _get_levenshtein_cutoff
Cutoff(text) ==
    LET length == Length(text)
    IN  IF length <= 3 THEN 0 ELSE IF length <= 5 THEN 1 ELSE IF length <= 7 THEN 2 ELSE 3

\* The first row with a property.
FirstRow(table, Has(_)) ==
    table[CHOOSE i \in DOMAIN table : Has(table[i]) /\ \A j \in 1 .. i - 1 : ~Has(table[j])]

Exists(table, Has(_)) == \E i \in DOMAIN table : Has(table[i])

Rows(table) == {table[i] : i \in DOMAIN table}

Ids == {u.id : u \in Rows(Universities)}

\* university_aliases.university_id, where there is one, references universities.
ASSUME TablesAssumption ==
    /\ Universities \in Seq([id : STRING, name : Seq(STRING), short : Seq(STRING)])
    /\ Aliases \in Seq([alias : Seq(STRING), parent : STRING, university : Ids \cup {"none"}])

Named(row, text) == text \in {Normalize(row.name), Normalize(row.short)} \ {Blank}

Match(kind, university, parent) == [kind |-> kind, university |-> university, parent |-> parent]

NoMatch == Match("none", "none", "none")

Ambiguous == Match("ambiguous", "none", "none")

\* _match_alias_fuzzy: one typo away from the aliases of one target.
MatchAliasFuzzy(text) ==
    LET near == {a \in Rows(Aliases) : /\ Length(Normalize(a.alias)) >= 4
                                       /\ Distance(text, Normalize(a.alias)) = 1}
        targets == {IF a.parent # "none" THEN Match("alias", "none", a.parent)
                    ELSE Match("alias", a.university, "none") : a \in near}
    IN  IF Length(text) < 4 \/ targets = {} THEN NoMatch
        ELSE IF Cardinality(targets) > 1 THEN Ambiguous
        ELSE CHOOSE m \in targets : TRUE

\* Tier 3: the universities whose names are nearest, within the cutoff.
Nearest(text) ==
    LET near == {u \in Rows(Universities) : Distance(text, Normalize(u.name)) <= Cutoff(text)}
    IN  {u \in near : \A v \in near :
            Distance(text, Normalize(u.name)) <= Distance(text, Normalize(v.name))}

\* The one that is nearest, or else a typo in an alias.
MatchFuzzy(text, nearest) ==
    IF nearest = {} THEN MatchAliasFuzzy(text)
    ELSE IF Cardinality(nearest) > 1 THEN Ambiguous
    ELSE Match("levenshtein", (CHOOSE u \in nearest : TRUE).id, "none")

\* match_university: parent alias, name, campus alias, typo in a name, typo in
\* an alias.
MatchUniversity(raw) ==
    LET text == Normalize(raw)
        ParentAlias(a) == Normalize(a.alias) = text /\ a.parent # "none"
        CampusAlias(a) == Normalize(a.alias) = text /\ a.university # "none"
        Exact(u) == Named(u, text)
    IN  IF text = Blank THEN NoMatch
        ELSE IF Exists(Aliases, ParentAlias)
        THEN Match("alias", "none", FirstRow(Aliases, ParentAlias).parent)
        ELSE IF Exists(Universities, Exact)
        THEN Match("exact", FirstRow(Universities, Exact).id, "none")
        ELSE IF Exists(Aliases, CampusAlias)
        THEN Match("alias", FirstRow(Aliases, CampusAlias).university, "none")
        ELSE MatchFuzzy(text, Nearest(text))

----------------------------------------------------------------------------
\* The windows of n words, and of the lengths in a set: <<length, start>>.
Windows(text, lengths) ==
    {w \in lengths \X DOMAIN text : w[1] >= 1 /\ w[2] + w[1] - 1 <= Len(text)}

Gram(text, w) == SubSeq(text, w[2], w[2] + w[1] - 1)

\* scan_ngrams: longer windows first, then from the left.
Earlier(v, w) == v[1] > w[1] \/ (v[1] = w[1] /\ v[2] <= w[2])

FirstWindow(windows) == CHOOSE w \in windows : \A v \in windows : Earlier(w, v)

\* _ENTITY_CONFIDENCE_RANK, behind campus before parent.
Rank(match) ==
    (IF match.university = "none" THEN 10 ELSE 0)
  + (CASE match.kind = "exact" -> 0 [] match.kind = "alias" -> 1
       [] match.kind = "levenshtein" -> 2 [] match.kind = "ambiguous" -> 3)

\* The match of every window of up to four words; a common word is no name on
\* its own.
Hits(text) ==
    [w \in {v \in Windows(text, 1 .. 4) : v[1] = 1 => text[v[2]] \notin Stopwords}
        |-> MatchUniversity(Gram(text, w))]

BestHit(hits) ==
    LET windows == {w \in DOMAIN hits : hits[w].kind # "none"}
        best == {w \in windows : \A v \in windows : Rank(hits[w]) <= Rank(hits[v])}
    IN  IF windows = {} THEN NoMatch ELSE hits[FirstWindow(best)]

\* scan_entities_by_ngram
ScanEntities(raw) == BestHit(Hits(Normalize(raw)))

----------------------------------------------------------------------------
\* match_out_of_city, the closest name, or the first of several: row or Blank.
MatchOutOfCity(raw) ==
    LET text == Normalize(raw)
        Exact(u) == Named(u, text)
        Near(u, name) == name # Blank /\ Distance(text, Normalize(name)) <= Cutoff(text)
        distances == {Distance(text, Normalize(u.name)) : u \in {v \in Rows(OutOfCity) : Near(v, v.name)}}
                \cup {Distance(text, Normalize(u.short)) : u \in {v \in Rows(OutOfCity) : Near(v, v.short)}}
        Closest(u) == \E name \in {u.name, u.short} :
                        /\ Near(u, name)
                        /\ \A d \in distances : Distance(text, Normalize(name)) <= d
    IN  IF text = Blank THEN Blank
        ELSE IF Exists(OutOfCity, Exact) THEN FirstRow(OutOfCity, Exact)
        ELSE IF Cutoff(text) > 0 /\ distances # {} THEN FirstRow(OutOfCity, Closest)
        ELSE Blank

\* match_campus, scoped to a parent: the first window, then the whole text,
\* that is a label or an alias of a campus; its row or Blank.
MatchCampus(raw, parent) ==
    LET text == Normalize(raw)
        Says(c, t) == /\ c.parent = parent
                      /\ \/ Normalize(c.label) = t
                         \/ \E a \in Rows(Aliases) : a.university = c.university
                                                     /\ Normalize(a.alias) = t
        Heard(t) == t # Blank /\ \E c \in Rows(Campuses) : Says(c, t)
        windows == {w \in Windows(text, 1 .. 4) : Heard(Normalize(Gram(text, w)))}
        said == IF windows # {} THEN Normalize(Gram(text, FirstWindow(windows))) ELSE text
    IN  IF Heard(said) THEN FirstRow(Campuses, LAMBDA c : Says(c, said)) ELSE Blank

\* match_hotel_by_ngram: the first visible hotel the first window is near to.
MatchHotel(raw) ==
    LET text == Normalize(raw)
        Says(h, t) == /\ h.visible /\ Normalize(h.name) # Blank
                      /\ \/ Normalize(h.name) = t
                         \/ Distance(t, Normalize(h.name)) <= Cutoff(t)
        Heard(t) == t # Blank /\ \E h \in Rows(Hotels) : Says(h, t)
        windows == {w \in Windows(text, 1 .. 4) : Heard(Normalize(Gram(text, w)))}
        said == Normalize(Gram(text, FirstWindow(windows)))
    IN  IF windows = {} THEN Blank ELSE FirstRow(Hotels, LAMBDA h : Says(h, said))

\* is_near_miss_university: beyond the cutoff, but not by more than two.
NearMiss(raw) ==
    LET text == Normalize(raw)
        Near(name) == /\ Normalize(name) # Blank
                      /\ Distance(text, Normalize(name)) \in Cutoff(text) + 1 .. Cutoff(text) + 2
    IN  Length(text) >= 4 /\ \E u \in Rows(Universities) : Near(u.name) \/ Near(u.short)
=============================================================================
