----------------------------- MODULE Canonicalizer -----------------------------
(***************************************************************************)
(* Which university the lead's own words stand for, without asking the LLM *)
(* (app/tagassigner/university_canonicalizer.py, university_resolver.py),  *)
(* and whether they name one the dormitories do not serve                  *)
(* (hizmet_veremiyoruz.py).  Pure operators.                               *)
(***************************************************************************)
EXTENDS Matching

CONSTANTS
    Descriptors,    \* the three stoplists: faculties, structures, districts
    DefaultCampus,  \* function from some parents to the campus they stand for
    ListValues      \* rows [id, value]: university_chatwoot_label_map

\* university_id is the key of the table and references universities.
ASSUME ListValuesAssumption ==
    /\ ListValues \in Seq([id : Ids, value : Seq(STRING)])
    /\ \A i, j \in DOMAIN ListValues : ListValues[i].id = ListValues[j].id => i = j

\* Of token_containment: the words that can tell campuses apart.
Significant(phrase) == SelectSeq(Normalize(phrase), LAMBDA w : w \notin Descriptors)

Words(text) == {text[i] : i \in DOMAIN text}

NameWords(u) == Words(Normalize(u.name)) \cup Words(Normalize(u.short))

\* token_containment: the university the first window of two words or more
\* belongs to that belongs to one alone; "none" if there is none.
TokenContainment(phrase) ==
    LET text == Significant(phrase)
        Owners(w) == {u \in Rows(Universities) : Words(Gram(text, w)) \subseteq NameWords(u)}
        telling == {w \in Windows(text, 2 .. Len(text)) : Cardinality(Owners(w)) = 1}
    IN  IF telling = {} THEN "none"
        ELSE (CHOOSE u \in Owners(FirstWindow(telling)) : TRUE).id

Campus(id) == [confidence |-> "campus", university |-> id]

ParentOnly == [confidence |-> "parent_only", university |-> "none"]

NoSignal == [confidence |-> "none", university |-> "none"]

\* Step 3 of canonicalize: the campus of the institution that matched, or the
\* one there is.
ParentCampus(matched, parent) ==
    LET campuses == {c \in Rows(Campuses) : c.parent = parent}
    IN  IF matched # Blank THEN Campus(matched.university)
        ELSE IF Cardinality(campuses) = 1 THEN Campus((CHOOSE c \in campuses : TRUE).university)
        ELSE IF parent \in DOMAIN DefaultCampus THEN Campus(DefaultCampus[parent])
        ELSE ParentOnly

\* canonicalize, from the scan for names and the words that tell campuses apart.
Canonical(phrase, scan, token) ==
    IF phrase = Blank THEN NoSignal
    ELSE IF scan.university # "none" THEN Campus(scan.university)
    ELSE IF token # "none" THEN Campus(token)
    ELSE IF scan.parent # "none" THEN ParentCampus(MatchCampus(phrase, scan.parent), scan.parent)
    ELSE NoSignal

Canonicalize(phrase) == Canonical(phrase, ScanEntities(phrase), TokenContainment(phrase))

----------------------------------------------------------------------------
\* UNIVERSITY_CAMPUS_AMBIGUOUS
Withheld == <<"bilinmiyor-kampus">>

Sentinels == {Blank, Withheld}

ListValue(id) ==
    LET Of(r) == r.id = id
    IN  IF Exists(ListValues, Of) THEN FirstRow(ListValues, Of).value ELSE Blank

\* resolve_university_list_value: as it stands, normalized, one typo away;
\* several candidates are none.
ResolveListValue(proposed) ==
    LET Same(r)   == r.value = proposed
        alike     == {r \in Rows(ListValues) : Normalize(r.value) = Normalize(proposed)}
        close     == {r \in Rows(ListValues) :
                        Distance(Normalize(proposed), Normalize(r.value)) = 1}
        Only(rows) == IF Cardinality(rows) = 1 THEN (CHOOSE r \in rows : TRUE).id ELSE "none"
    IN  IF proposed \in Sentinels THEN "none"
        ELSE IF Exists(ListValues, Same) THEN FirstRow(ListValues, Same).id
        ELSE Only(IF alike # {} THEN alike ELSE close)

\* Mutant: what the lead said gives way to what the LLM made of it.
Override_BeltFirst(belt, heard, echo) ==
    IF ResolveListValue(belt) # "none" THEN belt
    ELSE LET canon == Canonicalize(IF heard # Blank THEN heard ELSE echo)
         IN  IF canon.confidence = "campus" THEN ListValue(canon.university) ELSE belt

\* What the mention stands for, if the list has it.
Overridden(belt, heard, canon) ==
    LET value == ListValue(canon.university)
    IN  IF canon.confidence = "campus" THEN IF value # Blank THEN value ELSE belt
        ELSE IF canon.confidence = "parent_only"
        THEN IF heard \in Sentinels /\ ResolveListValue(belt) # "none" THEN belt ELSE Withheld
        ELSE belt

\* resolve_university_override.  belt: the LLM's university; heard: what the
\* lead wrote; echo: the LLM's university_mention, if the lead wrote nothing.
Override(belt, heard, echo) ==
    LET said    == IF heard # Blank THEN heard ELSE echo
        mention == IF said \in Sentinels THEN belt ELSE said
    IN  IF mention \in Sentinels THEN belt
        ELSE Overridden(belt, heard, Canonicalize(mention))

----------------------------------------------------------------------------
Owner(id) ==
    IF \E c \in Rows(Campuses) : c.university = id
    THEN (CHOOSE c \in Rows(Campuses) : c.university = id).parent ELSE id

Fragments(text) == {Gram(text, w) : w \in Windows(text, {2, 3})}

\* _derive_istanbul_localities: fragments of the names of two institutions.
Localities ==
    LET Has(u, f) == f \in Fragments(Normalize(u.name))
        all == UNION {Fragments(Normalize(u.name)) : u \in Rows(Universities)}
    IN  {f \in all : \E u, v \in Rows(Universities) :
            Has(u, f) /\ Has(v, f) /\ Owner(u.id) # Owner(v.id)}

\* _derive_istanbul_tokens
IstanbulWords == UNION {NameWords(u) : u \in Rows(Universities)}

\* _locality_masked_positions
Masked(text) ==
    UNION {w[2] .. w[2] + w[1] - 1 :
        w \in {v \in Windows(text, {2, 3}) :
                 \E place \in Localities : Distance(Gram(text, v), place) <= 3}}

\* Of scan_out_of_city: the single words that may be a university's name.
Telling(text) ==
    {i \in DOMAIN text \ Masked(text) :
        /\ Length(<<text[i]>>) >= 4
        /\ text[i] \notin Stopwords
        /\ text[i] \in IstanbulWords =>
              \E u \in Rows(OutOfCity) : Normalize(u.name) = <<text[i]>>}

\* scan_out_of_city: whether a window of two words or more, or one telling
\* word, names a university elsewhere.
NamesOutOfCity(phrase) ==
    LET text == Normalize(phrase)
        grams == {Gram(text, w) : w \in Windows(text, 2 .. 5)}
    IN  \/ \E g \in grams : Len(Normalize(g)) >= 2 /\ MatchOutOfCity(g) # Blank
        \/ \E i \in Telling(text) : \E u \in Rows(OutOfCity) : Named(u, Normalize(<<text[i]>>))

\* _is_in_city
InCity(phrase, university) ==
    university # "none" \/ (phrase # Blank /\ Canonicalize(phrase).confidence # "none")

\* compute_hizmet_veremiyoruz: whether the label is to be there.
NotServed(phrase, university) ==
    ~InCity(phrase, university) /\ NamesOutOfCity(phrase)
=============================================================================
