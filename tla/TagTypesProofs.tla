---------------------------- MODULE TagTypesProofs ----------------------------
(***************************************************************************)
(* Proofs about TagRun: the types, which rest on the keys of the tables    *)
(* and on what the operators of Matching, Canonicalizer, AttributeMerge    *)
(* and LabelResolver return.                                               *)
(***************************************************************************)
EXTENDS TagEditsProofs

----------------------------------------------------------------------------
(***************************************************************************)
(* What the operators return.                                              *)
(***************************************************************************)
Found == Ids \cup {"none"}

\* The rows of the tables.
LEMMA ElementOf ==
    ASSUME NEW S, NEW s \in Seq(S), NEW i \in DOMAIN s
    PROVE  s[i] \in S
OBVIOUS

LEMMA ListRows ==
    ASSUME NEW i \in DOMAIN ListValues
    PROVE  ListValues[i].id \in Ids /\ ListValues[i].value \in Texts
<1>1. ListValues[i] \in [id : Ids, value : Seq(STRING)]
  BY ListValuesAssumption, ElementOf
<1> QED
  BY <1>1 DEF Texts

LEMMA TableRows ==
    /\ \A i \in DOMAIN Aliases : Aliases[i].university \in Found
    /\ \A i \in DOMAIN Universities : Universities[i].id \in Found
<1>1. ASSUME NEW i \in DOMAIN Aliases PROVE Aliases[i].university \in Found
  <2>1. Aliases[i] \in [alias : Seq(STRING), parent : STRING, university : Ids \cup {"none"}]
    BY TablesAssumption, ElementOf
  <2> QED
    BY <2>1 DEF Found
<1>2. ASSUME NEW i \in DOMAIN Universities PROVE Universities[i].id \in Found
  BY DEF Found, Ids, Rows
<1> QED
  BY <1>1, <1>2

\* The first of some rows.
LEMMA FirstIndex ==
    ASSUME NEW n \in Nat, NEW T, T \subseteq 1 .. n, T # {}
    PROVE  \E i \in T : \A j \in 1 .. i - 1 : j \notin T
<1>1. PICK i \in T : \A j \in T : i <= j
  <2>1. T \subseteq Nat
    OBVIOUS
  <2> QED
    BY <2>1, Least
<1>2. \A j \in 1 .. i - 1 : ~(i <= j)
  BY <1>1
<1> QED
  BY <1>1, <1>2

\* The first of some windows.
LEMMA FirstWindowIsOne ==
    ASSUME NEW T, T # {}, T \subseteq (1 .. 4) \X Nat
    PROVE  FirstWindow(T) \in T
<1> DEFINE Slack(w) == 4 - w[1]
           S == {Slack(w) : w \in T}
<1>0. \A w \in T : w[1] \in 1 .. 4 /\ w[2] \in Nat
  OBVIOUS
<1>1. PICK v \in T : \A w \in T : w[1] <= v[1]
  <2>1. S \subseteq Nat /\ S # {}
    BY <1>0
  <2>2. PICK s \in S : \A r \in S : s <= r
    <3> HIDE DEF S
    <3> QED
      BY <2>1, Least
  <2>3. PICK v \in T : s = 4 - v[1]
    BY <2>2
  <2>4. \A w \in T : 4 - v[1] <= 4 - w[1]
    BY <2>2, <2>3
  <2> QED
    BY <1>0, <2>3, <2>4
<1> DEFINE R == {w[2] : w \in {u \in T : u[1] = v[1]}}
<1>2. PICK r \in R : \A q \in R : r <= q
  <2>1. R \subseteq Nat /\ R # {}
    BY <1>0, <1>1
  <2> HIDE DEF R
  <2> QED
    BY <2>1, Least
<1>3. PICK w \in T : w[1] = v[1] /\ w[2] = r
  BY <1>2
<1>4. \A u \in T : Earlier(w, u)
  <2> SUFFICES ASSUME NEW u \in T PROVE Earlier(w, u)
    OBVIOUS
  <2>1. CASE u[1] = v[1]
    <3>1. u[2] \in R
      BY <2>1
    <3> QED
      BY <1>2, <1>3, <2>1, <3>1 DEF Earlier
  <2>2. CASE u[1] # v[1]
    BY <1>0, <1>1, <1>3, <2>2 DEF Earlier
  <2> QED
    BY <2>1, <2>2
<1> QED
  BY <1>4 DEF FirstWindow

\* A list value is a text.
LEMMA ListValueTyped ==
    ASSUME NEW id
    PROVE  ListValue(id) \in Texts
<1>1. CASE \E i \in DOMAIN ListValues : ListValues[i].id = id
  <2>1. PICK i \in DOMAIN ListValues : ListValues[i].id = id
    BY <1>1
  <2>2. ListValue(id) = ListValues[i].value
    BY <2>1, ListValueOf
  <2> QED
    BY <2>2, ListRows
<1>2. CASE ~\E i \in DOMAIN ListValues : ListValues[i].id = id
  <2>1. ListValue(id) = <<>>
    BY <1>2 DEF ListValue, Exists, Blank
  <2> QED
    BY <2>1, EmptySeq DEF Texts
<1> QED
  BY <1>1, <1>2

\* A university found in the list is one.
LEMMA ResolvedTyped ==
    ASSUME NEW v
    PROVE  ResolveListValue(v) \in Found
<1>1. \A r \in Rows(ListValues) : r.id \in Ids
  BY ListRows DEF Rows
<1>2. CASE v \in Sentinels
  BY <1>2 DEF ResolveListValue, Found
<1>3. CASE v \notin Sentinels /\ \E i \in DOMAIN ListValues : ListValues[i].value = v
  <2>1. PICK i \in DOMAIN ListValues : ResolveListValue(v) = ListValues[i].id
    BY <1>3, ResolvedFromList
  <2> QED
    BY <2>1, ListRows DEF Found
<1>4. CASE v \notin Sentinels /\ ~\E i \in DOMAIN ListValues : ListValues[i].value = v
  <2> DEFINE Only(rows) == IF Cardinality(rows) = 1 THEN (CHOOSE r \in rows : TRUE).id ELSE "none"
             alike == {r \in Rows(ListValues) : Normalize(r.value) = Normalize(v)}
             close == {r \in Rows(ListValues) :
                         Distance(Normalize(v), Normalize(r.value)) = 1}
  <2>1. ASSUME NEW rows, rows \subseteq Rows(ListValues)
        PROVE  Only(rows) \in Found
    <3>1. CASE rows = {}
      BY <3>1, FS_EmptySet DEF Found
    <3>2. CASE rows # {}
      BY <1>1, <2>1, <3>2 DEF Found
    <3> QED
      BY <3>1, <3>2
  <2>2. ResolveListValue(v) = Only(IF alike # {} THEN alike ELSE close)
    BY <1>4 DEF ResolveListValue, Exists
  <2> DEFINE chosen == IF alike # {} THEN alike ELSE close
  <2>3. chosen \subseteq Rows(ListValues)
    OBVIOUS
  <2> HIDE DEF Only, alike, close
  <2> QED
    BY <2>1, <2>2, <2>3
<1> QED
  BY <1>2, <1>3, <1>4

\* What match_university finds.
Kinds == {"none", "exact", "alias", "levenshtein", "ambiguous"}

LEMMA MatchTyped ==
    ASSUME NEW raw
    PROVE  MatchUniversity(raw).kind \in Kinds /\ MatchUniversity(raw).university \in Found
<1> DEFINE text == Normalize(raw)
           Good(m) == m.kind \in Kinds /\ m.university \in Found
<1>1. Good(NoMatch) /\ Good(Ambiguous) /\ \A p : Good(Match("alias", "none", p))
  BY DEF NoMatch, Ambiguous, Match, Kinds, Found
<1>2. \A id \in Found, kind \in Kinds : \A p : Good(Match(kind, id, p))
  BY DEF Match
<1>3. /\ \A a \in Rows(Aliases) : a.university \in Found
      /\ \A u \in Rows(Universities) : u.id \in Found
  BY TableRows DEF Rows
<1> HIDE DEF Good
<1>4. Good(MatchAliasFuzzy(text))
  <2> DEFINE near == {a \in Rows(Aliases) : /\ Length(Normalize(a.alias)) >= 4
                                            /\ Distance(text, Normalize(a.alias)) = 1}
             targets == {IF a.parent # "none" THEN Match("alias", "none", a.parent)
                         ELSE Match("alias", a.university, "none") : a \in near}
  <2>1. \A m \in targets : Good(m)
    BY <1>1, <1>2, <1>3 DEF Kinds
  <2>2. MatchAliasFuzzy(text) = IF Length(text) < 4 \/ targets = {} THEN NoMatch
                                ELSE IF Cardinality(targets) > 1 THEN Ambiguous
                                ELSE CHOOSE m \in targets : TRUE
    BY DEF MatchAliasFuzzy
  <2> HIDE DEF targets
  <2> QED
    BY <1>1, <2>1, <2>2
<1>5. Good(MatchFuzzy(text, Nearest(text)))
  <2>1. Nearest(text) \subseteq Rows(Universities)
    BY DEF Nearest
  <2>2. CASE Nearest(text) = {}
    BY <1>4, <2>2 DEF MatchFuzzy
  <2>3. CASE Nearest(text) # {}
    <3>1. (CHOOSE u \in Nearest(text) : TRUE).id \in Found
      BY <1>3, <2>1, <2>3
    <3> QED
      BY <1>1, <1>2, <2>3, <3>1 DEF MatchFuzzy, Kinds
  <2> QED
    BY <2>2, <2>3
<1>6. /\ DOMAIN Universities = 1 .. Len(Universities) /\ Len(Universities) \in Nat
      /\ DOMAIN Aliases = 1 .. Len(Aliases) /\ Len(Aliases) \in Nat
  BY TablesAssumption
<1>7. ASSUME NEW i \in DOMAIN Universities, Named(Universities[i], text)
      PROVE  FirstRow(Universities, LAMBDA u : Named(u, text)).id \in Found
  <2> DEFINE T == {k \in DOMAIN Universities : Named(Universities[k], text)}
             First_(k) == /\ Named(Universities[k], text)
                          /\ \A j \in 1 .. k - 1 : ~Named(Universities[j], text)
             chosen == CHOOSE k \in DOMAIN Universities : First_(k)
  <2>1. PICK k \in T : \A j \in 1 .. k - 1 : j \notin T
    <3>1. T \subseteq 1 .. Len(Universities) /\ T # {}
      BY <1>6, <1>7
    <3> HIDE DEF T
    <3> QED
      BY <1>6, <3>1, FirstIndex
  <2>2. k \in DOMAIN Universities /\ First_(k)
    <3>1. \A j \in 1 .. k - 1 : j \in DOMAIN Universities
      BY TablesAssumption
    <3> QED
      BY <2>1, <3>1
  <2>3. chosen \in DOMAIN Universities
    BY <2>2
  <2>4. FirstRow(Universities, LAMBDA u : Named(u, text)) = Universities[chosen]
    BY DEF FirstRow
  <2> HIDE DEF chosen
  <2> QED
    BY <2>3, <2>4, TableRows
<1>8. ASSUME NEW i \in DOMAIN Aliases, Normalize(Aliases[i].alias) = text,
             Aliases[i].university # "none"
      PROVE  FirstRow(Aliases, LAMBDA a : Normalize(a.alias) = text /\ a.university # "none")
               .university \in Found
  <2> DEFINE Has(k) == Normalize(Aliases[k].alias) = text /\ Aliases[k].university # "none"
             T == {k \in DOMAIN Aliases : Has(k)}
             First_(k) == Has(k) /\ \A j \in 1 .. k - 1 : ~Has(j)
             chosen == CHOOSE k \in DOMAIN Aliases : First_(k)
  <2>1. PICK k \in T : \A j \in 1 .. k - 1 : j \notin T
    <3>1. T \subseteq 1 .. Len(Aliases) /\ T # {}
      BY <1>6, <1>8
    <3> HIDE DEF T
    <3> QED
      BY <1>6, <3>1, FirstIndex
  <2>2. k \in DOMAIN Aliases /\ First_(k)
    <3>1. \A j \in 1 .. k - 1 : j \in DOMAIN Aliases
      BY TablesAssumption
    <3> QED
      BY <2>1, <3>1
  <2>3. chosen \in DOMAIN Aliases
    BY <2>2
  <2>4. FirstRow(Aliases, LAMBDA a : Normalize(a.alias) = text /\ a.university # "none")
          = Aliases[chosen]
    BY DEF FirstRow
  <2> HIDE DEF chosen
  <2> QED
    BY <2>3, <2>4, TableRows
<1> DEFINE ParentAlias(a) == Normalize(a.alias) = text /\ a.parent # "none"
           CampusAlias(a) == Normalize(a.alias) = text /\ a.university # "none"
           Exact(u) == Named(u, text)
<1>9. MatchUniversity(raw) =
        IF text = Blank THEN NoMatch
        ELSE IF Exists(Aliases, ParentAlias)
        THEN Match("alias", "none", FirstRow(Aliases, ParentAlias).parent)
        ELSE IF Exists(Universities, Exact)
        THEN Match("exact", FirstRow(Universities, Exact).id, "none")
        ELSE IF Exists(Aliases, CampusAlias)
        THEN Match("alias", FirstRow(Aliases, CampusAlias).university, "none")
        ELSE MatchFuzzy(text, Nearest(text))
  BY DEF MatchUniversity
<1>10. Exists(Universities, Exact) => FirstRow(Universities, Exact).id \in Found
  BY <1>7 DEF Exists
<1>11. Exists(Aliases, CampusAlias) => FirstRow(Aliases, CampusAlias).university \in Found
  BY <1>8 DEF Exists
<1>12. Good(MatchUniversity(raw))
  BY <1>1, <1>2, <1>5, <1>9, <1>10, <1>11 DEF Kinds
<1> QED
  BY <1>12 DEF Good

\* scan_entities_by_ngram finds a university, or none.
LEMMA ScanTyped ==
    ASSUME NEW raw \in Texts
    PROVE  ScanEntities(raw).university \in Found
<1> DEFINE text == Normalize(raw)
           hits == Hits(text)
           windows == {w \in DOMAIN hits : hits[w].kind # "none"}
           best == {w \in windows : \A v \in windows : Rank(hits[w]) <= Rank(hits[v])}
<1>1. text \in Seq(STRING)
  <2>1. raw \in Seq(STRING)
    BY DEF Texts
  <2>2. CASE raw # Blank /\ raw[Len(raw)] \in DroppedWords
    <3>1. text = SubSeq(raw, 1, Len(raw) - 1)
      BY <2>2 DEF Normalize
    <3>2. Len(raw) \in Nat \ {0}
      BY <2>1, <2>2 DEF Blank
    <3> HIDE DEF text
    <3> QED
      BY <2>1, <3>1, <3>2
  <2>3. CASE ~(raw # Blank /\ raw[Len(raw)] \in DroppedWords)
    BY <2>1, <2>3 DEF Normalize
  <2> QED
    BY <2>2, <2>3
<1> HIDE DEF text
<1>2. DOMAIN hits \subseteq (1 .. 4) \X Nat
  <2>1. DOMAIN hits \subseteq (1 .. 4) \X DOMAIN text
    BY DEF Hits, Windows
  <2>2. DOMAIN text \subseteq Nat
    BY <1>1
  <2> HIDE DEF hits
  <2> QED
    BY <2>1, <2>2
<1>3. \A w \in DOMAIN hits : hits[w].kind \in Kinds /\ hits[w].university \in Found
  BY MatchTyped DEF Hits
<1> HIDE DEF hits
<1>4. \A w \in windows : Rank(hits[w]) \in Nat
  BY <1>3 DEF Rank, Kinds
<1>5. CASE windows = {}
  BY <1>5 DEF ScanEntities, BestHit, NoMatch, Match, Found, hits, text
<1>6. CASE windows # {}
  <2> DEFINE ranks == {Rank(hits[w]) : w \in windows}
  <2>1. PICK r \in ranks : \A q \in ranks : r <= q
    <3>1. ranks \subseteq Nat /\ ranks # {}
      BY <1>4, <1>6
    <3> HIDE DEF ranks
    <3> QED
      BY <3>1, Least
  <2>2. PICK w \in windows : r = Rank(hits[w])
    BY <2>1
  <2>3. w \in best
    BY <2>1, <2>2
  <2>4. best # {} /\ best \subseteq (1 .. 4) \X Nat /\ best \subseteq DOMAIN hits
    BY <1>2, <2>3
  <2>5. ScanEntities(raw) = hits[FirstWindow(best)]
    BY <1>6 DEF ScanEntities, BestHit, hits, text
  <2> HIDE DEF best
  <2> QED
    BY <1>3, <2>4, <2>5, FirstWindowIsOne
<1> QED
  BY <1>5, <1>6

\* resolve_university_override returns a text, or withholds the campus.
Proposals == Texts \cup {Withheld}

LEMMA OverrideTyped ==
    ASSUME NEW belt \in Texts, NEW heard, NEW echo
    PROVE  Override(belt, heard, echo) \in Proposals
<1>1. \A canon : Overridden(belt, heard, canon) \in Proposals
  BY ListValueTyped DEF Overridden, Proposals
<1> QED
  BY <1>1 DEF Override, Proposals

\* What the row says is shown as texts.
LEMMA DisplayTyped ==
    ASSUME NEW r \in Row
    PROVE  Display(r) \in [Fields -> Texts]
<1>1. r.gender \in Texts /\ r.room \in Texts /\ ListValue(r.university) \in Texts
  BY ListValueTyped DEF Row
<1> QED
  BY <1>1 DEF Display, Fields

\* The mismatches merge_attributes finds are flags.
LEMMA FlagTyped ==
    ASSUME NEW f \in Fields, NEW c \in Texts, NEW p \in Proposals, NEW why \in Reasons
    PROVE  Block(f, c, p, why).blocked \subseteq Flag /\ Block(f, c, p, why).accepted = Unset
BY DEF Block, Flag, Proposals

LEMMA VerdictsTyped ==
    ASSUME NEW current \in [Fields -> Texts], NEW setBy, NEW proposed \in [Fields -> Proposals],
           NEW resolved \in Texts, NEW heard, NEW f \in Fields
    PROVE  Verdicts(current, setBy, proposed, resolved, heard)[f].blocked \subseteq Flag
<1>1. /\ \A x : Accept(x).blocked = {}
      /\ Nothing.blocked = {}
  BY DEF Accept, Nothing
<1>2. /\ current[f] \in Texts /\ proposed[f] \in Proposals
      /\ resolved \in Proposals
  BY DEF Proposals
<1>3. CASE f = "university"
  <2>1. MergeUniversity(current[f], setBy[f], proposed[f], resolved).blocked \subseteq Flag
    BY <1>1, <1>2, <1>3, FlagTyped DEF MergeUniversity, Fields, Reasons
  <2> QED
    BY <1>3, <2>1 DEF Verdicts
<1>4. CASE f = "gender"
  <2>1. MergeGender(current[f], setBy[f], proposed[f], heard).blocked \subseteq Flag
    BY <1>1, <1>2, <1>4, FlagTyped DEF MergeGender, Fields, Reasons
  <2> QED
    BY <1>4, <2>1 DEF Verdicts
<1>5. CASE f = "room"
  <2>1. MergeRoom(current[f], setBy[f], proposed[f]).blocked \subseteq Flag
    BY <1>1, <1>2, <1>5, FlagTyped DEF MergeRoom, Fields, Reasons
  <2> QED
    BY <1>5, <2>1 DEF Verdicts
<1> QED
  BY <1>3, <1>4, <1>5 DEF Fields

LEMMA NoFlagTyped == NoFlag \in Flag
<1>1. Unset \in Texts
  BY EmptySeq DEF Unset, Texts
<1> QED
  BY <1>1 DEF NoFlag, Flag

LEMMA PrimaryTyped ==
    ASSUME NEW blocked, blocked \subseteq Flag
    PROVE  Primary(blocked) \in Flag
<1> DEFINE Of(f) == {m \in blocked : m.field = f}
           chosen == IF Of("university") # {} THEN Of("university")
                     ELSE IF Of("gender") # {} THEN Of("gender") ELSE Of("room")
<1>1. chosen \subseteq Flag
  OBVIOUS
<1>2. Primary(blocked) = IF chosen = {} THEN NoFlag ELSE CHOOSE m \in chosen : TRUE
  BY DEF Primary
<1> HIDE DEF chosen
<1> QED
  BY <1>1, <1>2, NoFlagTyped

\* apply_info_check adds no label but its own, and writes flags.
LEMMA InfoCheckTyped ==
    ASSUME NEW labs, NEW flag, NEW suppressed, NEW expired, NEW blocked, blocked \subseteq Flag
    PROVE  /\ InfoCheck(labs, flag, suppressed, expired, blocked).labels
                \subseteq labs \cup {"info-check"}
           /\ InfoCheck(labs, flag, suppressed, expired, blocked).writes \subseteq Flag
<1>1. Primary(blocked) \in Flag /\ NoFlag \in Flag
  BY PrimaryTyped, NoFlagTyped
<1> QED
  BY <1>1 DEF InfoCheck

\* The labels resolved and computed are labels.
LEMMA LabelsTyped ==
    ASSUME NEW before, before \subseteq Labels
    PROVE  /\ \A proposed : \A resolved \in Resolutions(before, proposed) :
                 resolved \subseteq Labels
           /\ \A resolved, n, copy : resolved \subseteq Labels =>
                 Compute(resolved, n, copy) \subseteq Labels
<1>1. ASSUME NEW proposed, NEW resolved \in Resolutions(before, proposed)
      PROVE  resolved \subseteq Labels
  <2>1. PICK enforced : resolved = Merge(before, enforced)
    BY <1>1 DEF Resolutions
  <2> QED
    BY <2>1, LabelsAssumption DEF Merge
<1>2. ASSUME NEW resolved, NEW n, NEW copy, resolved \subseteq Labels
      PROVE  Compute(resolved, n, copy) \subseteq Labels
  BY <1>2, LabelsAssumption DEF Compute, DealAwaiting, Computed
<1> QED
  BY <1>1, <1>2

----------------------------------------------------------------------------
(***************************************************************************)
(* Every step keeps the types, one variable after the other.               *)
(***************************************************************************)
LEMMA InitTyped == Init => TypeOK
<1> SUFFICES ASSUME Init PROVE TypeOK
  OBVIOUS
<1>1. Unset \in Texts /\ Blank \in Texts /\ NoFlag \in Flag
  BY EmptySeq, NoFlagTyped DEF Unset, Blank, Texts
<1>2. Attributes(Empty) /\ NewRow \in Row /\ NoAnswer \in Answer
  BY <1>1 DEF Attributes, Empty, NewRow, Row, Setters, NoAnswer, Answer, Texts
<1>3. PICK b \in Begins : labels = b.labels /\ shown = b.shown /\ row = b.row /\ thread = b.thread
  BY DEF Init
<1>4. labels \subseteq Labels /\ Attributes(shown) /\ row \in Row /\ thread \in Seq(Message)
  BY <1>3, InputsAssumption DEF AtRest
<1>5. wire = <<>> /\ DOMAIN wire = {}
  BY DEF Init
<1>6. DOMAIN sync = Handlers /\ \A h \in Handlers : SyncOK(sync[h])
  BY <1>1, <1>2 DEF Init, IdleSync, SyncOK
<1>7. filler \in [pc : {"unused", "push", "mark", "append", "done"},
                  university : Found, gender : Texts, labels : SUBSET Labels]
  BY <1>1 DEF Init, Found
<1>8. run \in Run
  <2>1. 0 \in 0 .. MaxWrites - 1
    BY InputsAssumption
  <2> QED
    BY <1>1, <1>2, <2>1 DEF Init, IdleRun, Run
<1>9. seen \in Seen
  BY <1>1 DEF Init, Seen
<1> QED
  BY <1>4, <1>5, <1>6, <1>7, <1>8, <1>9 DEF Init, TypeOK, Found

\* The labels, the run's and InfoGatherer's writes of them included.
LEMMA LabelsStay ==
    ASSUME TypeOK, [Next]_vars
    PROVE  labels' \subseteq Labels
<1>1. labels \subseteq Labels /\ filler.labels \subseteq Labels /\ run.after \subseteq Labels
  BY DEF TypeOK, Run
<1>2. CASE AgentLabel
  BY <1>1, <1>2, InputsAssumption DEF AgentLabel
<1>3. CASE AppendWrites
  BY <1>1, <1>3 DEF AppendWrites
<1>4. CASE RunWrites
  BY <1>1, <1>4 DEF RunWrites
<1>5. CASE labels' = labels
  BY <1>1, <1>5
<1> QED
  BY <1>2, <1>3, <1>4, <1>5
  DEF Next, Run_, Others, vars, RunStarts, RunLoads, RunCopies, RunUpdates, RunRereads,
      RunFetches, RunFlags, RunPushes, RunEnds, Speaks, AgentEnters, SyncSkips, SyncReceives,
      SyncDismisses, SyncStores, SyncGender, BotStores, FillerReads,
      FillerPushes, FillerMarks, AppendReads

\* Attributes put into the dictionary.
LEMMA PutTyped ==
    ASSUME Attributes(shown), NEW values, DOMAIN values \subseteq Fields,
           \A f \in DOMAIN values : values[f] \in Texts
    PROVE  Attributes(Put(values))
BY DEF Attributes, Put

LEMMA ShownStays ==
    ASSUME TypeOK, [Next]_vars
    PROVE  Attributes(shown')
<1>1. Attributes(shown) /\ filler.gender \in Texts /\ run.patches \in [Fields -> Texts]
  BY DEF TypeOK, Run
<1>2. CASE AgentEnters
  <2>1. PICK entry \in AgentValues : shown' = Put([f \in {entry[1]} |-> entry[2]])
    BY <1>2 DEF AgentEnters
  <2>2. entry[1] \in Fields /\ entry[2] \in Texts
    BY InputsAssumption
  <2> DEFINE values == [f \in {entry[1]} |-> entry[2]]
  <2>3. shown' = Put(values)
    BY <2>1
  <2>4. DOMAIN values \subseteq Fields /\ \A f \in DOMAIN values : values[f] \in Texts
    BY <2>2
  <2> HIDE DEF values
  <2> QED
    BY <1>1, <2>3, <2>4, PutTyped
<1>3. CASE FillerPushes
  <2> DEFINE values == [f \in Filled |-> IF f = "gender" THEN filler.gender
                                         ELSE ListValue(filler.university)]
  <2>1. DOMAIN values \subseteq Fields /\ \A f \in DOMAIN values : values[f] \in Texts
    BY <1>1, ListValueTyped DEF Filled, Fields
  <2>2. shown' = Put(values) \/ shown' = shown
    BY <1>3 DEF FillerPushes
  <2> HIDE DEF values
  <2> QED
    BY <1>1, <2>1, <2>2, PutTyped
<1>4. CASE RunPushes
  <2> DEFINE values == [f \in Patched |-> run.patches[f]]
  <2>1. DOMAIN values \subseteq Fields /\ \A f \in DOMAIN values : values[f] \in Texts
    BY <1>1 DEF Patched
  <2>2. shown' = Put(values)
    BY <1>4 DEF RunPushes
  <2> HIDE DEF values
  <2> QED
    BY <1>1, <2>1, <2>2, PutTyped
<1>5. CASE shown' = shown
  BY <1>1, <1>5
<1> QED
  BY <1>2, <1>3, <1>4, <1>5
  DEF Next, Run_, Others, vars, RunStarts, RunLoads, RunCopies, RunUpdates, RunRereads,
      RunFetches, RunFlags, RunWrites, RunEnds, Speaks, AgentLabel, SyncSkips, SyncReceives,
      SyncDismisses, SyncStores, SyncGender, BotStores, FillerReads,
      FillerMarks, AppendReads, AppendWrites

\* The webhooks announce labels and attributes.
LEMMA WireStays ==
    ASSUME TypeOK, Webhooks, [Next]_vars
    PROVE  \A i \in DOMAIN wire' : wire'[i].labels \subseteq Labels /\ Attributes(wire'[i].shown)
<1>1. \A i \in DOMAIN wire : wire[i].labels \subseteq Labels /\ Attributes(wire[i].shown)
  BY DEF TypeOK
<1>2. CASE Announce
  <2>1. CASE wire' = wire
    BY <1>1, <2>1
  <2>2. CASE wire' = Append(wire, [labels |-> labels', shown |-> shown'])
    <3> DEFINE e == [labels |-> labels', shown |-> shown']
    <3>1. e.labels \subseteq Labels /\ Attributes(e.shown)
      BY LabelsStay, ShownStays
    <3> HIDE DEF e
    <3>2. /\ DOMAIN wire' = DOMAIN wire \cup {Len(wire) + 1} /\ wire'[Len(wire) + 1] = e
          /\ \A i \in DOMAIN wire : wire'[i] = wire[i]
      BY <2>2, WireAppend DEF e
    <3> QED
      BY <1>1, <3>1, <3>2
  <2> QED
    BY <1>2, <2>1, <2>2 DEF Announce
<1>3. CASE SyncSkips \/ \E h \in Handlers : SyncReceives(h)
  <2>1. PICK k \in DOMAIN wire : wire' = RemoveAt(wire, k)
    BY <1>3 DEF SyncSkips, SyncReceives
  <2>2. \A i \in DOMAIN wire' : \E j \in DOMAIN wire : wire'[i] = wire[j]
    <3>1. /\ Len(wire) \in Nat \ {0} /\ DOMAIN wire = 1 .. Len(wire)
          /\ DOMAIN wire' = 1 .. Len(wire) - 1
          /\ \A j \in DOMAIN wire' : wire'[j] = IF j < k THEN wire[j] ELSE wire[j + 1]
      BY <2>1, WireLess
    <3>2. \A i \in DOMAIN wire' : i \in DOMAIN wire /\ i + 1 \in DOMAIN wire
      BY <3>1
    <3> QED
      BY <3>1, <3>2
  <2> QED
    BY <1>1, <2>2
<1>4. CASE wire' = wire
  BY <1>1, <1>4
<1> QED
  BY <1>2, <1>3, <1>4
  DEF Next, Run_, Others, vars, RunStarts, RunLoads, RunCopies, RunUpdates, RunRereads,
      RunFetches, RunFlags, RunWrites, RunPushes, RunEnds, Speaks, AgentLabel, AgentEnters,
      SyncDismisses, SyncStores, SyncGender, BotStores, FillerReads,
      FillerPushes, FillerMarks, AppendReads, AppendWrites

\* The handlers of the webhooks and InfoGatherer's writes.
LEMMA SyncStays ==
    ASSUME TypeOK, Webhooks, [Next]_vars
    PROVE  DOMAIN sync' = Handlers /\ \A h \in Handlers : SyncOK(sync'[h])
<1>1. /\ DOMAIN sync = Handlers /\ row.flag \in Flag /\ row.room \in Texts
      /\ \A h \in Handlers : SyncOK(sync[h]) /\ DOMAIN sync[h] = SyncFields
  BY DEF TypeOK, Webhooks, Row
<1>2. SyncOK(IdleSync)
  <2>1. Attributes(Empty) /\ Unset \in Texts
    BY EmptySeq DEF Attributes, Empty, Unset, Texts
  <2> QED
    BY <2>1, NoFlagTyped DEF IdleSync, SyncOK
<1>3. ASSUME NEW h \in Handlers, NEW s, sync' = [sync EXCEPT ![h] = s], SyncOK(s)
      PROVE  DOMAIN sync' = Handlers /\ \A g \in Handlers : SyncOK(sync'[g])
  BY <1>1, <1>3
<1>4. ASSUME NEW h \in Handlers, NEW pc \in {"store", "gender"},
             sync' = [sync EXCEPT ![h].pc = pc]
      PROVE  DOMAIN sync' = Handlers /\ \A g \in Handlers : SyncOK(sync'[g])
  <2>1. SyncOK([sync[h] EXCEPT !.pc = pc])
    BY <1>1, <1>4 DEF SyncOK, SyncFields
  <2> QED
    BY <1>3, <1>4, <2>1
<1>5. ASSUME NEW h \in Handlers, SyncReceives(h)
      PROVE  DOMAIN sync' = Handlers /\ \A g \in Handlers : SyncOK(sync'[g])
  <2>1. PICK i \in DOMAIN wire :
           sync' = [sync EXCEPT ![h] =
               [pc     |-> IF "info-check" \in row.labels \ wire[i].labels
                           THEN "dismiss" ELSE "store",
                labels |-> wire[i].labels, shown |-> wire[i].shown,
                flag   |-> row.flag, room |-> row.room]]
    BY <1>5 DEF SyncReceives
  <2>2. wire[i].labels \subseteq Labels /\ Attributes(wire[i].shown)
    BY DEF TypeOK
  <2>3. SyncOK([pc     |-> IF "info-check" \in row.labels \ wire[i].labels
                           THEN "dismiss" ELSE "store",
                labels |-> wire[i].labels, shown |-> wire[i].shown,
                flag   |-> row.flag, room |-> row.room])
    BY <1>1, <2>2 DEF SyncOK
  <2> QED
    BY <1>3, <2>1, <2>3
<1>6. CASE \E h \in Handlers : SyncDismisses(h) \/ SyncStores(h) \/ SyncGender(h)
  BY <1>2, <1>3, <1>4, <1>6 DEF SyncDismisses, SyncStores, SyncGender
<1>7. CASE sync' = sync
  BY <1>1, <1>7
<1> QED
  BY <1>5, <1>6, <1>7
  DEF Next, Run_, Others, vars, RunStarts, RunLoads, RunCopies, RunUpdates, RunRereads,
      RunFetches, RunFlags, RunWrites, RunPushes, RunEnds, Speaks, AgentLabel, AgentEnters,
      SyncSkips, BotStores, FillerReads, FillerPushes, FillerMarks, AppendReads, AppendWrites

Fillers == [pc : {"unused", "push", "mark", "append", "done"},
            university : Found, gender : Texts, labels : SUBSET Labels]

LEMMA FillerStays ==
    ASSUME TypeOK, [Next]_vars
    PROVE  filler' \in Fillers
<1>1. /\ filler \in Fillers /\ labels \subseteq Labels
      /\ row.university \in Found /\ row.gender \in Texts
  BY DEF TypeOK, Row, Fillers, Found
<1>2. CASE FillerReads
  BY <1>1, <1>2 DEF FillerReads, Fillers
<1>3. CASE FillerPushes
  BY <1>1, <1>3 DEF FillerPushes, Fillers
<1>4. CASE FillerMarks
  BY <1>1, <1>4 DEF FillerMarks, Fillers
<1>5. CASE AppendReads
  <2>1. PICK label \in {"human_needed", "deal_awaiting"} :
           filler' = [filler EXCEPT !.pc = "append", !.labels = labels \cup {label}]
    BY <1>5 DEF AppendReads
  <2>2. labels \cup {label} \subseteq Labels
    BY <1>1, LabelsAssumption DEF Computed
  <2> QED
    BY <1>1, <2>1, <2>2 DEF Fillers
<1>6. CASE AppendWrites
  BY <1>1, <1>6 DEF AppendWrites, Fillers
<1>7. CASE filler' = filler
  BY <1>1, <1>7
<1> QED
  BY <1>2, <1>3, <1>4, <1>5, <1>6, <1>7
  DEF Next, Run_, Others, vars, RunStarts, RunLoads, RunCopies, RunUpdates, RunRereads,
      RunFetches, RunFlags, RunWrites, RunPushes, RunEnds, Speaks, AgentLabel, AgentEnters,
      SyncSkips, SyncReceives, SyncDismisses, SyncStores, SyncGender, BotStores

\* A handler asks for the gender only where its webhook shows one.
GenderShown ==
    \A h \in Handlers : sync[h].pc = "gender" => "gender" \in DOMAIN sync[h].shown

LEMMA InitGenderShown == Init => GenderShown
BY DEF Init, IdleSync, GenderShown

LEMMA NextGenderShown ==
    ASSUME Webhooks, GenderShown, [Next]_vars
    PROVE  GenderShown'
<1>1. ASSUME NEW h \in Handlers,
             \/ SyncReceives(h) \/ SyncDismisses(h) \/ SyncStores(h) \/ SyncGender(h)
      PROVE  GenderShown'
  <2>1. \A g \in Handlers \ {h} : sync'[g] = sync[g]
    <3>1. CASE SyncReceives(h)
      BY <3>1 DEF SyncReceives, Webhooks
    <3>2. CASE SyncDismisses(h) \/ SyncGender(h)
      BY <3>2 DEF SyncDismisses, SyncGender, Webhooks
    <3>3. CASE SyncStores(h)
      <4>1. sync' = [sync EXCEPT ![h].pc = "gender"] \/ sync' = [sync EXCEPT ![h] = IdleSync]
        BY <3>3 DEF SyncStores
      <4> QED
        BY <4>1 DEF Webhooks
    <3> QED
      BY <1>1, <3>1, <3>2, <3>3
  <2>2. sync'[h].pc = "gender" => "gender" \in DOMAIN sync'[h].shown
    <3>1. CASE SyncReceives(h)
      BY <3>1 DEF SyncReceives, Webhooks
    <3>2. CASE SyncDismisses(h) \/ SyncGender(h)
      BY <3>2 DEF SyncDismisses, SyncGender, IdleSync, Webhooks, SyncFields
    <3>3. CASE SyncStores(h)
      BY <3>3 DEF SyncStores, IdleSync, Webhooks, SyncFields
    <3> QED
      BY <1>1, <3>1, <3>2, <3>3
  <2> QED
    BY <2>1, <2>2 DEF GenderShown
<1>2. CASE sync' = sync
  BY <1>2 DEF GenderShown
<1> QED
  BY <1>1, <1>2
  DEF Next, Run_, Others, vars, RunStarts, RunLoads, RunCopies, RunUpdates, RunRereads,
      RunFetches, RunFlags, RunWrites, RunPushes, RunEnds, Speaks, AgentLabel, AgentEnters,
      SyncSkips, BotStores, FillerReads, FillerPushes, FillerMarks, AppendReads, AppendWrites

\* What the run's merge of the attributes makes of the row and of the run.
LEMMA UpdateStays ==
    ASSUME TypeOK, Answered, RunUpdates
    PROVE  row' \in Row /\ run' \in Run
<1> DEFINE n        == IF run.loaded THEN run.history ELSE Len(thread)
           chosen   == Override(run.answer.values["university"], Heard(n), run.answer.echo)
           proposed == [run.answer.values EXCEPT !["university"] = chosen]
           found    == ResolveListValue(proposed["university"])
           verdicts == Verdicts(Display(run.copy), run.copy.setBy, proposed,
                                ListValue(found), Signal(n))
           accepted == Accepted(verdicts)
           patches  == [f \in Fields |-> IF f \in accepted THEN proposed[f] ELSE Unset]
           blocked  == UNION {verdicts[f].blocked : f \in Fields}
<1>1. /\ row \in Row /\ run \in Run /\ run.copy \in Row /\ run.history \in Nat
      /\ run.answer.values \in [Fields -> Texts] /\ thread \in Seq(Message)
  <2>1. row \in Row /\ run \in Run /\ thread \in Seq(Message)
    BY DEF TypeOK
  <2>2. run.copy \in Row /\ run.history \in Nat /\ run.answer \in Answer
    BY <2>1 DEF Run
  <2>3. run.answer.values \in [Fields -> Texts]
    BY <2>2 DEF Answer, Texts
  <2> QED
    BY <2>1, <2>2, <2>3
<1>2. n \in Nat
  BY <1>1
<1>3. row' = Updated(row, accepted, proposed, found)
  BY DEF RunUpdates
<1>4. run' = [run EXCEPT !.pc = IF accepted = {} THEN "fetch" ELSE "reread", !.history = n,
                         !.patches = patches, !.blocked = blocked]
  BY DEF RunUpdates
<1> HIDE DEF n
<1>5. chosen \in Proposals
  <2>1. run.answer.values["university"] \in Texts
    BY <1>1 DEF Fields
  <2> QED
    BY <2>1, OverrideTyped
<1> HIDE DEF chosen
<1>6. /\ proposed \in [Fields -> Proposals]
      /\ proposed["gender"] \in Texts /\ proposed["room"] \in Texts
      /\ proposed["university"] \in Texts \/ proposed["university"] = Withheld
  BY <1>1, <1>5 DEF Fields, Proposals
<1> HIDE DEF proposed
<1>7. found \in Found
  BY ResolvedTyped
<1>8. Display(run.copy) \in [Fields -> Texts] /\ ListValue(found) \in Texts
  BY <1>1, DisplayTyped, ListValueTyped
<1> HIDE DEF found
<1>9. \A f \in Fields : verdicts[f].blocked \subseteq Flag
  BY <1>6, <1>8, VerdictsTyped
<1>10. "university" \in accepted => proposed["university"] \in Texts
  BY <1>6, UniversityAccepted
<1> HIDE DEF verdicts
<1>11. blocked \subseteq Flag
  BY <1>9
<1>12. patches \in [Fields -> Texts]
  <2>1. Unset \in Texts
    BY EmptySeq DEF Unset, Texts
  <2>2. \A f \in accepted : proposed[f] \in Texts
    BY <1>6, <1>10 DEF Accepted, Fields
  <2> HIDE DEF accepted
  <2> QED
    BY <2>1, <2>2
<1> HIDE DEF accepted, patches, blocked
<1>13. row' \in Row
  <2>1. row.setBy \in [Fields -> Setters]
    BY <1>1 DEF Row
  <2>2. [f \in Fields |-> IF f \in accepted THEN "tagAssigner" ELSE row.setBy[f]]
          \in [Fields -> Setters]
    BY <2>1 DEF Setters
  <2> QED
    BY <1>1, <1>3, <1>6, <1>7, <2>2 DEF Updated, Row, Found
<1>14. run' \in Run
  BY <1>1, <1>2, <1>4, <1>11, <1>12 DEF Run
<1> QED
  BY <1>13, <1>14

\* What the run makes of the labels and of the flag.
LEMMA FlagsStay ==
    ASSUME TypeOK, RunFlags
    PROVE  /\ row' \in Row
           /\ run' = AfterWrite \/ \E after \in SUBSET Labels : run' = Rest("write", after)
<1>1. /\ row \in Row /\ run.before \subseteq Labels /\ run.blocked \subseteq Flag
  BY DEF TypeOK, Run
<1>2. PICK resolved \in Resolutions(run.before, Strip(run.answer.labels)),
           expired \in BOOLEAN :
         LET checked == InfoCheck(resolved, run.copy.flag, run.copy.suppressed, expired,
                                  run.blocked)
             after   == Compute(checked.labels, run.history, run.copy)
         IN  /\ row' = IF checked.writes = {} THEN row
                       ELSE [row EXCEPT !.flag = CHOOSE c \in checked.writes : TRUE]
             /\ run' = IF after = run.before THEN AfterWrite ELSE Rest("write", after)
  BY DEF RunFlags
<1> DEFINE checked == InfoCheck(resolved, run.copy.flag, run.copy.suppressed, expired,
                                run.blocked)
           after   == Compute(checked.labels, run.history, run.copy)
<1>3. checked.labels \subseteq Labels /\ checked.writes \subseteq Flag
  <2>1. resolved \subseteq Labels
    BY <1>1, LabelsTyped
  <2>2. "info-check" \in Labels
    BY LabelsAssumption DEF Computed
  <2> QED
    BY <1>1, <2>1, <2>2, InfoCheckTyped
<1> HIDE DEF checked
<1>4. after \in SUBSET Labels
  BY <1>1, <1>3, LabelsTyped
<1>5. run' = AfterWrite \/ run' = Rest("write", after)
  BY <1>2 DEF checked
<1>6. row' \in Row
  <2>1. row' = IF checked.writes = {} THEN row
               ELSE [row EXCEPT !.flag = CHOOSE c \in checked.writes : TRUE]
    BY <1>2 DEF checked
  <2>2. checked.writes # {} => (CHOOSE c \in checked.writes : TRUE) \in Flag
    BY <1>3
  <2> QED
    BY <1>1, <2>1, <2>2 DEF Row
<1> QED
  BY <1>4, <1>5, <1>6

LEMMA RowStays ==
    ASSUME TypeOK, Webhooks, Answered, GenderShown, [Next]_vars
    PROVE  row' \in Row
<1>1. /\ row \in Row /\ row.setBy \in [Fields -> Setters]
      /\ thread \in Seq(Message)
      /\ \A h \in Handlers : /\ sync[h].labels \subseteq Labels /\ Attributes(sync[h].shown)
                             /\ sync[h].flag \in Flag
  BY DEF TypeOK, Row, SyncOK
<1>2. CASE \E h \in Handlers : SyncDismisses(h)
  BY <1>1, <1>2, NoFlagTyped DEF SyncDismisses, Row
<1>3. ASSUME NEW h \in Handlers, SyncStores(h)
      PROVE  row' \in Row
  <2> DEFINE university == {r.id : r \in {v \in Rows(ListValues) :
                               v.value # Blank /\ v.value = Read(sync[h].shown, "university")}}
             roomGiven  == "room" \in DOMAIN sync[h].shown
             human(f)   == \/ f = "university" /\ university # {}
                           \/ f = "room" /\ roomGiven /\ sync[h].shown.room # sync[h].room
             setBy      == [f \in Fields |-> IF human(f) THEN "human" ELSE row.setBy[f]]
  <2>1. row' = [row EXCEPT
           !.labels     = sync[h].labels,
           !.university = IF university # {} THEN CHOOSE u \in university : TRUE ELSE @,
           !.room       = IF roomGiven THEN sync[h].shown.room ELSE @,
           !.setBy      = setBy]
    BY <1>3 DEF SyncStores
  <2>2. university # {} => (CHOOSE u \in university : TRUE) \in Found
    <3>1. university \subseteq Found
      BY ListRows DEF Rows, Found
    <3> HIDE DEF university
    <3> QED
      BY <3>1
  <2>3. roomGiven => sync[h].shown.room \in Texts
    BY <1>1 DEF Attributes
  <2>4. setBy \in [Fields -> Setters]
    <3> HIDE DEF human
    <3> QED
      BY <1>1 DEF Setters
  <2> HIDE DEF university, roomGiven, human, setBy
  <2> QED
    BY <1>1, <2>1, <2>2, <2>3, <2>4 DEF Row, Found
<1>4. ASSUME NEW h \in Handlers, SyncGender(h)
      PROVE  row' \in Row
  <2>1. CASE row' = row
    BY <1>1, <2>1
  <2>2. CASE row' # row
    <3>1. row' = [row EXCEPT !.gender = sync[h].shown.gender, !.setBy.gender = "human"]
      BY <1>4, <2>2 DEF SyncGender
    <3>2. sync[h].shown.gender \in Texts
      <4>1. "gender" \in DOMAIN sync[h].shown
        BY <1>4 DEF SyncGender, GenderShown
      <4> QED
        BY <1>1, <4>1 DEF Attributes
    <3>3. [row.setBy EXCEPT !.gender = "human"] \in [Fields -> Setters]
      BY <1>1 DEF Setters
    <3> QED
      BY <1>1, <3>1, <3>2, <3>3 DEF Row
  <2> QED
    BY <2>1, <2>2
<1>5. CASE BotStores
  <2>1. thread # <<>> /\ thread[Len(thread)] \in Message
    BY <1>1, <1>5 DEF BotStores
  <2> DEFINE said == thread[Len(thread)]
  <2>2. said.words \in Texts /\ said.gender \in Texts
    BY <2>1 DEF Message, Texts
  <2>3. ScanEntities(said.words).university \in Found
    BY <2>2, ScanTyped
  <2>4. \/ row' = [row EXCEPT !.university = ScanEntities(said.words).university]
        \/ row' = [row EXCEPT !.gender = said.gender]
    BY <1>5 DEF BotStores
  <2> HIDE DEF said
  <2> QED
    BY <1>1, <2>2, <2>3, <2>4 DEF Row, Found
<1>6. CASE FillerMarks
  <2>1. [f \in Fields |-> IF f \in Filled THEN "infoGatherer" ELSE row.setBy[f]]
          \in [Fields -> Setters]
    BY <1>1 DEF Setters
  <2> QED
    BY <1>1, <1>6, <2>1 DEF FillerMarks, Row
<1>7. CASE RunUpdates
  BY <1>7, UpdateStays
<1>8. CASE RunFlags
  BY <1>8, FlagsStay
<1>9. CASE row' = row
  BY <1>1, <1>9
<1> QED
  BY <1>2, <1>3, <1>4, <1>5, <1>6, <1>7, <1>8, <1>9
  DEF Next, Run_, Others, vars, RunStarts, RunLoads, RunCopies, RunRereads, RunFetches,
      RunWrites, RunPushes, RunEnds, Speaks, AgentLabel, AgentEnters, SyncSkips, SyncReceives,
      FillerReads, FillerPushes, AppendReads, AppendWrites

LEMMA IdleRunTyped == IdleRun \in Run
<1>1. Unset \in Texts /\ Blank \in Texts /\ NoFlag \in Flag
  BY EmptySeq, NoFlagTyped DEF Unset, Blank, Texts
<1>2. NewRow \in Row /\ NoAnswer \in Answer
  BY <1>1 DEF NewRow, Row, Setters, NoAnswer, Answer, Texts
<1>3. 0 \in 0 .. MaxWrites - 1
  BY InputsAssumption
<1> QED
  BY <1>1, <1>2, <1>3 DEF IdleRun, Run

\* What is left of the run to be done.
LEMMA RestTyped ==
    ASSUME run \in Run, NEW pc \in {"write", "push"}, NEW after \in SUBSET Labels
    PROVE  Rest(pc, after) \in Run
<1>1. run.patches \in [Fields -> Texts] /\ run.blind \in BOOLEAN
  BY DEF Run
<1>2. IdleRun \in Run
  BY IdleRunTyped
<1> QED
  BY <1>1, <1>2 DEF Rest, Run

LEMMA AfterWriteTyped ==
    ASSUME run \in Run
    PROVE  AfterWrite \in Run
BY IdleRunTyped, RestTyped DEF AfterWrite

LEMMA RunStays ==
    ASSUME TypeOK, Answered, [Next]_vars
    PROVE  run' \in Run
<1>1. run \in Run /\ row \in Row /\ labels \subseteq Labels /\ Attributes(shown)
      /\ thread \in Seq(Message)
  BY DEF TypeOK
<1>2. CASE RunStarts
  <2>1. PICK pc \in {"load", "ask"} :
           run' = [IdleRun EXCEPT !.pc = pc, !.before = labels \ {"tag"}]
    <3>1. PICK full \in BOOLEAN :
             run' = [IdleRun EXCEPT !.pc = IF full THEN "load" ELSE "ask",
                                    !.before = labels \ {"tag"}]
      BY <1>2 DEF RunStarts
    <3> QED
      BY <3>1
  <2> QED
    BY <1>1, <2>1, IdleRunTyped DEF Run
<1>3. CASE RunLoads
  <2>1. Len(thread) \in Nat
    <3> HIDE DEF Message
    <3> QED
      BY <1>1
  <2>2. ASSUME NEW n \in Nat
        PROVE  [run EXCEPT !.pc = "ask", !.history = n, !.loaded = TRUE] \in Run
    BY <1>1 DEF Run
  <2> QED
    BY <1>3, <2>1, <2>2 DEF RunLoads
<1>4. CASE RunCopies
  <2>1. PICK answer \in Answers :
           run' = [run EXCEPT !.pc = "update", !.answer = answer, !.copy = row]
    BY <1>4 DEF RunCopies
  <2>2. answer \in Answer
    BY InputsAssumption
  <2> QED
    BY <1>1, <2>1, <2>2 DEF Run
<1>5. CASE RunUpdates
  BY <1>5, UpdateStays
<1>6. CASE RunRereads
  BY <1>1, <1>6 DEF RunRereads, Run
<1>7. CASE RunFetches
  <2>1. PICK blind \in BOOLEAN, stale \in SUBSET Fields :
           run' = [run EXCEPT
             !.pc      = "flag",
             !.blind   = blind,
             !.patches = [f \in Fields |-> IF @[f] # Unset THEN @[f]
                                           ELSE IF f \in stale THEN Display(run.copy)[f]
                                           ELSE Unset]]
    <3>1. PICK blind \in BOOLEAN :
             LET desired == Display(run.copy)
                 stale   == Stale(desired, run.copy.setBy, IF blind THEN Empty ELSE shown)
             IN  run' = [run EXCEPT
                   !.pc      = "flag",
                   !.blind   = blind,
                   !.patches = [f \in Fields |-> IF @[f] # Unset THEN @[f]
                                                 ELSE IF f \in stale THEN desired[f] ELSE Unset]]
      BY <1>7 DEF RunFetches
    <3> DEFINE stale == Stale(Display(run.copy), run.copy.setBy, IF blind THEN Empty ELSE shown)
    <3>2. stale \in SUBSET Fields
      BY DEF Stale
    <3> QED
      BY <3>1, <3>2
  <2>2. /\ run.patches \in [Fields -> Texts] /\ Display(run.copy) \in [Fields -> Texts]
        /\ Unset \in Texts
    <3>1. run.patches \in [Fields -> Texts] /\ run.copy \in Row
      BY <1>1 DEF Run
    <3> QED
      BY <3>1, DisplayTyped, EmptySeq DEF Unset, Texts
  <2>3. [f \in Fields |-> IF run.patches[f] # Unset THEN run.patches[f]
                          ELSE IF f \in stale THEN Display(run.copy)[f]
                          ELSE Unset] \in [Fields -> Texts]
    BY <2>2
  <2> QED
    BY <1>1, <2>1, <2>3 DEF Run
<1>8. CASE RunFlags
  BY <1>1, <1>8, FlagsStay, AfterWriteTyped, RestTyped
<1>9. CASE RunWrites
  <2>1. NextAttempt \in Run
    <3>1. run.writes \in 0 .. MaxWrites - 1 /\ MaxWrites \in Nat
      BY <1>1, InputsAssumption DEF Run
    <3>2. run.writes + 1 < MaxWrites => run.writes + 1 \in 0 .. MaxWrites - 1
      BY <3>1
    <3>3. ASSUME NEW w \in 0 .. MaxWrites - 1 PROVE [run EXCEPT !.writes = w] \in Run
      BY <1>1 DEF Run
    <3> QED
      BY <3>2, <3>3, IdleRunTyped DEF NextAttempt
  <2>2. run' = AfterWrite \/ run' = NextAttempt
    BY <1>9 DEF RunWrites
  <2> QED
    BY <1>1, <2>1, <2>2, AfterWriteTyped
<1>10. CASE RunPushes \/ RunEnds
  BY <1>10, IdleRunTyped DEF RunPushes, RunEnds
<1>11. CASE run' = run
  BY <1>1, <1>11
<1> QED
  BY <1>2, <1>3, <1>4, <1>5, <1>6, <1>7, <1>8, <1>9, <1>10, <1>11
  DEF Next, Run_, Others, vars, Speaks, AgentLabel, AgentEnters, SyncSkips, SyncReceives,
      SyncDismisses, SyncStores, SyncGender, BotStores, FillerReads,
      FillerPushes, FillerMarks, AppendReads, AppendWrites

\* The history.
LEMMA SeenStays ==
    ASSUME TypeOK, [Next]_vars
    PROVE  seen' \in Seen
<1>1. seen \in Seen /\ row.flag \in Flag /\ NoFlag \in Flag
  BY NoFlagTyped DEF TypeOK, Row
<1>2. \A s \in Seen : Forget(s) \in Seen
  BY DEF Forget, Seen
<1>3. Differ(labels, labels') \subseteq Labels
  BY LabelsStay DEF TypeOK, Differ
<1>4. CASE AgentLabel
  <2>1. PICK l \in AgentLabels :
           seen' = [seen EXCEPT
                    !.changed   = @ \cup {k \in {l} : run.pc # "idle"},
                    !.dismissed = IF l # "info-check" THEN @
                                  ELSE IF l \in labels THEN row.flag ELSE NoFlag,
                    !.moved     = \/ @
                                  \/ l = "info-check" /\ run.pc # "idle"
                                  \/ l = "info-check" /\ l \notin labels /\ Pending]
    BY <1>4 DEF AgentLabel
  <2>2. l \in Labels
    BY InputsAssumption
  <2>3. seen.moved \in BOOLEAN /\ seen.changed \subseteq Labels /\ seen.dismissed \in Flag
    BY <1>1 DEF Seen
  <2>4. ASSUME NEW c \in SUBSET Labels, NEW d \in Flag, NEW m \in BOOLEAN
        PROVE  [seen EXCEPT !.changed = c, !.dismissed = d, !.moved = m] \in Seen
    BY <1>1 DEF Seen
  <2>5. /\ seen.changed \cup {k \in {l} : run.pc # "idle"} \in SUBSET Labels
        /\ (IF l # "info-check" THEN seen.dismissed
            ELSE IF l \in labels THEN row.flag ELSE NoFlag) \in Flag
        /\ (\/ seen.moved
            \/ l = "info-check" /\ run.pc # "idle"
            \/ l = "info-check" /\ l \notin labels /\ Pending) \in BOOLEAN
    BY <1>1, <2>2, <2>3
  <2> QED
    BY <2>1, <2>4, <2>5
<1>5. CASE AgentEnters
  <2>1. PICK entry \in AgentValues : seen' = [seen EXCEPT !.byAgent = @ \cup {entry[1]}]
    BY <1>5 DEF AgentEnters
  <2>2. entry[1] \in Fields
    BY InputsAssumption
  <2> QED
    BY <1>1, <2>1, <2>2 DEF Seen
<1>6. CASE FillerPushes \/ SyncSkips \/ \E h \in Handlers : SyncReceives(h)
  <2>1. CASE FillerPushes \/ SyncSkips
    BY <1>1, <2>1 DEF FillerPushes, SyncSkips, Seen
  <2>2. CASE \E h \in Handlers : SyncReceives(h)
    <3>1. PICK i \in DOMAIN wire :
             seen' = [seen EXCEPT !.crossed = @ \/ i # 1 \/ \E g \in Handlers : Storing(g)]
      BY <2>2 DEF SyncReceives
    <3>2. (seen.crossed \/ i # 1 \/ \E g \in Handlers : Storing(g)) \in BOOLEAN
      BY <1>1 DEF Seen
    <3>3. ASSUME NEW c \in BOOLEAN PROVE [seen EXCEPT !.crossed = c] \in Seen
      BY <1>1 DEF Seen
    <3> QED
      BY <3>1, <3>2, <3>3
  <2> QED
    BY <1>6, <2>1, <2>2
<1>7. CASE AppendWrites
  <2>1. /\ seen.changed \cup {l \in Differ(labels, labels') : run.pc # "idle"} \in SUBSET Labels
        /\ (seen.moved \/ "info-check" \in Differ(labels, labels')) \in BOOLEAN
    BY <1>1, <1>3 DEF Seen
  <2>2. ASSUME NEW c \in SUBSET Labels, NEW m \in BOOLEAN
        PROVE  [seen EXCEPT !.changed = c, !.moved = m] \in Seen
    BY <1>1 DEF Seen
  <2> QED
    BY <1>7, <2>1, <2>2 DEF AppendWrites
<1>8. CASE RunCopies \/ RunRereads \/ RunFetches
  BY <1>1, <1>8 DEF RunCopies, RunRereads, RunFetches, Seen
<1>9. CASE RunFlags
  <2>1. (seen.moved \/ (row' # row /\ Pending)) \in BOOLEAN
    BY <1>1 DEF Seen
  <2>2. [seen EXCEPT !.moved = @ \/ (row' # row /\ Pending)] \in Seen
    BY <1>1, <2>1 DEF Seen
  <2> QED
    BY <1>2, <1>9, <2>2 DEF RunFlags
<1>10. CASE RunWrites
  <2>1. [seen EXCEPT !.moved = \/ @
                               \/ "info-check" \in labels \ labels'
                               \/ "info-check" \in labels' \ labels /\ Pending] \in Seen
    BY <1>1 DEF Seen
  <2> QED
    BY <1>2, <1>10, <2>1 DEF RunWrites
<1>11. CASE RunPushes
  <2>1. [seen EXCEPT !.byAgent = @ \ Patched] \in Seen
    BY <1>1 DEF Seen
  <2> QED
    BY <1>2, <1>11, <2>1 DEF RunPushes
<1>12. CASE RunEnds
  BY <1>1, <1>2, <1>12 DEF RunEnds
<1>13. CASE seen' = seen
  BY <1>1, <1>13
<1> QED
  BY <1>4, <1>5, <1>6, <1>7, <1>8, <1>9, <1>10, <1>11, <1>12, <1>13
  DEF Next, Run_, Others, vars, RunStarts, RunLoads, RunUpdates, Speaks, SyncReceives,
      SyncDismisses, SyncStores, SyncGender, BotStores, FillerReads,
      FillerMarks, AppendReads

\* Types, with what the steps need to keep them.
LEMMA NextTyped ==
    ASSUME TypeOK, Webhooks, Answered, GenderShown, [Next]_vars
    PROVE  TypeOK'
<1>1. labels' \subseteq Labels /\ Attributes(shown')
  BY LabelsStay, ShownStays
<1>2. \A i \in DOMAIN wire' : wire'[i].labels \subseteq Labels /\ Attributes(wire'[i].shown)
  BY WireStays
<1>3. row' \in Row /\ run' \in Run /\ seen' \in Seen
  BY RowStays, RunStays, SeenStays
<1>4. DOMAIN sync' = Handlers /\ \A h \in Handlers : SyncOK(sync'[h])
  BY SyncStays
<1>5. filler' \in [pc : {"unused", "push", "mark", "append", "done"},
                   university : Ids \cup {"none"}, gender : Texts, labels : SUBSET Labels]
  BY FillerStays DEF Fillers, Found
<1>6. thread' \in Seq(Message)
  <2>1. thread \in Seq(Message)
    BY DEF TypeOK
  <2>2. CASE Speaks
    <3>1. PICK m \in Message : thread' = Append(thread, m)
      BY <2>2, InputsAssumption DEF Speaks
    <3> HIDE DEF Message
    <3> QED
      BY <2>1, <3>1
  <2>3. CASE thread' = thread
    BY <2>1, <2>3
  <2> QED
    BY <2>2, <2>3
    DEF Next, Run_, Others, vars, RunStarts, RunLoads, RunCopies, RunUpdates, RunRereads,
        RunFetches, RunFlags, RunWrites, RunPushes, RunEnds, AgentLabel, AgentEnters,
        SyncSkips, SyncReceives, SyncDismisses, SyncStores, SyncGender, BotStores,
        FillerReads, FillerPushes, FillerMarks, AppendReads, AppendWrites
<1>7. selfWrite' \in BOOLEAN /\ assignee' \in Assignees
  <2>1. selfWrite \in BOOLEAN /\ assignee \in Assignees
    BY DEF TypeOK
  <2> QED
    BY <2>1
    DEF Next, Run_, Others, vars, RunStarts, RunLoads, RunCopies, RunUpdates, RunRereads,
        RunFetches, RunFlags, RunWrites, RunPushes, RunEnds, Speaks, AgentLabel, AgentEnters,
        SyncSkips, SyncReceives, SyncDismisses, SyncStores, SyncGender, BotStores,
        FillerReads, FillerPushes, FillerMarks, AppendReads, AppendWrites
<1>8. runs' \in Nat /\ events' \in Nat
  <2>1. runs \in Nat /\ events \in Nat
    BY DEF TypeOK
  <2>2. runs' = runs \/ runs' = runs + 1
    BY DEF Next, Run_, Others, vars, RunStarts, RunLoads, RunCopies, RunUpdates, RunRereads,
           RunFetches, RunFlags, RunWrites, RunPushes, RunEnds, Speaks, AgentLabel, AgentEnters,
           SyncSkips, SyncReceives, SyncDismisses, SyncStores, SyncGender,
           BotStores, FillerReads, FillerPushes, FillerMarks, AppendReads, AppendWrites
  <2>3. events' = events \/ events' = events + 1
    <3>1. CASE Run_
      BY <3>1 DEF Run_, RunStarts, RunLoads, RunCopies, RunUpdates, RunRereads, RunFetches,
                  RunFlags, RunWrites, RunPushes, RunEnds, Event, Fault
    <3>2. CASE Others
      BY <3>2 DEF Others, Speaks, AgentLabel, AgentEnters, SyncSkips, SyncReceives,
                  SyncDismisses, SyncStores, SyncGender, BotStores, FillerReads,
                  FillerPushes, FillerMarks, AppendReads, AppendWrites, Event, Fault
    <3> QED
      BY <3>1, <3>2 DEF Next, vars
  <2> QED
    BY <2>1, <2>2, <2>3
<1> QED
  BY <1>1, <1>2, <1>3, <1>4, <1>5, <1>6, <1>7, <1>8 DEF TypeOK

\* The types hold for every content of the tables: whatever the lead, the LLM and
\* the agents write, the row, the run, the webhooks and what they carry stay
\* within them, the number of attempts to write (len(_WRITEBACK_DELAYS)) included.
THEOREM TypeCorrect == Spec => []TypeOK
<1>1. Spec => [](Webhooks /\ Follows)
  BY InitFollows, NextFollows, AlwaysShaped, PTL DEF Spec
<1>2. Spec => [](Answered /\ GenderShown)
  BY <1>1, InitAnswered, NextAnswered, InitGenderShown, NextGenderShown, AlwaysShaped, PTL
  DEF Spec
<1> QED
  BY <1>1, <1>2, InitTyped, NextTyped, PTL DEF Spec
=============================================================================
