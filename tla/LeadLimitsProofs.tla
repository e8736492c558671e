-------------------------- MODULE LeadLimitsProofs --------------------------
(***************************************************************************)
(* Proofs of the three limits on what the bot says to a lead: how often it *)
(* repeats an answer, how much it still sends after a takeover, and that   *)
(* it asks for a campus only of a parent it has stored.  Each is a part of *)
(* Limits, which is inductive beside IInv.                                 *)
(***************************************************************************)
EXTENDS LeadConversationProofs

----------------------------------------------------------------------------
\* What a turn's step does to the memory of the last answer, unless it is the
\* step that counts an intent, answers it or clears the memory: nothing; and
\* the copy it counts from is kept, or is as fresh as the row.
MemoryMoves ==
    /\ row'.intent = row.intent /\ row'.repeats = row.repeats
    /\ told'.intent = told.intent /\ told'.answers = told.answers
    /\ turn'.pc # "answer"
    /\ Counting' =>
          \/ Counting /\ turn'.start = turn.start
          \/ turn'.start.intent = row.intent /\ turn'.start.repeats = row.repeats

Remembers ==
    \/ MemoryMoves
    \/ Settle \/ Reset \/ Answer
    \/ \E intent \in Intents : Diverge(intent)

\* The lines of its list that a turn has sent.
SentMoves ==
    \/ turn'.sent = 0
    \/ /\ turn'.sent = turn.sent
       /\ turn.pc \in {"pitch", "attributes"} => turn'.pc \in {"pitch", "attributes"}
    \/ /\ turn.pc = "pitch" /\ turn'.pc = "pitch"
       /\ turn'.sent = turn.sent + 1

\* A message after a takeover is a line of a pitch or the last of its turn.
SpeechMoves ==
    /\ SentMoves
    /\ MaySpeak' => \/ turn'.pc = "route"
                    \/ MaySpeak /\ turn'.sent \in {turn.sent, turn.sent + 1}
    /\ \/ told'.late = told.late
       \/ /\ row.flow = "stopped" /\ told'.late = told.late + 1
          /\ MaySpeak
          /\ \/ MaySpeak' /\ turn'.sent = turn.sent + 1
             \/ ~MaySpeak' /\ turn.pc # "pitch"

\* How a turn comes to the campus question and away from it.
CampusMoves ==
    /\ row.pendingParent /\ ~row'.pendingParent
       => turn.pc = "entity" /\ turn'.pc = "matched" /\ turn'.conv = turn.conv
    /\ row'.flow = "awaiting_campus_clarification"
       => row.flow = "awaiting_campus_clarification" \/ turn'.pc = "pendParent"
    /\ turn.pc = "pendParent" => row'.pendingParent
    /\ turn.pc = "matched"
       => \/ turn'.pc = "askGender" /\ turn'.conv = turn.conv
          \/ turn'.pc = "fire" /\ turn'.conv = ConvOf(row) /\ row.gender
    /\ turn.pc = "askGender" /\ row.flow = turn.conv.flow => row'.flow = "awaiting_gender"
    /\ turn.pc = "fire" => ~MayFire
    /\ turn'.pc \in {"reread", "entity"} => turn.pc \in {"route", "reread"}

LimitMoves == Remembers /\ SpeechMoves /\ CampusMoves

\* A step that keeps the row has the fields of the row.
Unread(r) ==
    /\ r.intent = row.intent /\ r.repeats = row.repeats
    /\ r.pendingParent = row.pendingParent

\* A change of flow state leaves the divergence memory and the parent alone.
LEMMA FlowUnread ==
    ASSUME row \in Row, NEW new, SetFlow(new)
    PROVE  row'.flow = new /\ Unread(row')
BY DEF SetFlow, Row, Unread

\* An admitted turn counts from the row it was called with.
LEMMA AdmitCounts ==
    ASSUME NEW r \in Row
    PROVE  \/ Admit(r) = NoTurn
           \/ /\ Admit(r).pc = "route" /\ Admit(r).sent = 0
              /\ Admit(r).start.intent = r.intent /\ Admit(r).start.repeats = r.repeats
BY DEF Admit, NoTurn, StartOf

\* The free lock may not speak or count.
LEMMA NoTurnQuiet == NoTurn.pc = "idle"
BY DEF NoTurn

\* What one message adds to the history.
LEMMA LateFields ==
    ASSUME NEW t \in Told
    PROVE  /\ Late(t).intent = t.intent /\ Late(t).answers = t.answers
           /\ \/ Late(t).late = t.late
              \/ row.flow = "stopped" /\ Late(t).late = t.late + 1
BY DEF Late, Told

\* What a canned answer adds to it.
LEMMA AnswerFields ==
    ASSUME told \in Told, NEW intent, SpeakAnswer(intent)
    PROVE  /\ told'.intent = intent
           /\ told'.answers = IF told.intent = intent THEN told.answers + 1 ELSE 1
           /\ \/ told'.late = told.late
              \/ row.flow = "stopped" /\ told'.late = told.late + 1
<1> DEFINE count == IF told.intent = intent THEN Late(told).answers + 1 ELSE 1
<1>1. told' = [Late(told) EXCEPT !.answers = count, !.intent = intent]
  BY DEF SpeakAnswer
<1>2. count = IF told.intent = intent THEN told.answers + 1 ELSE 1
  BY LateFields
<1> HIDE DEF count
<1>3. told'.intent = intent /\ told'.answers = count /\ told'.late = Late(told).late
  BY <1>1, LateTyped DEF Told
<1> QED
  BY <1>2, <1>3, LateFields

\* A turn begins.
LEMMA AdmissionLimits ==
    ASSUME TurnTyped, TurnStarts \/ Backfill
    PROVE  LimitMoves
<1> USE NoTurnFields, AdmitCounts
    DEF TurnTyped, LimitMoves, Remembers, MemoryMoves, SpeechMoves, SentMoves, CampusMoves,
        Counting,
        MaySpeak
<1>1. CASE TurnStarts
  BY <1>1 DEF TurnStarts, NoTurn
<1>2. CASE Backfill
  <2>1. row' \in Row /\ row'.flow = row.flow /\ Unread(row')
    BY <1>2 DEF Backfill, Row, Unread
  <2>2. turn' = Admit(row') \/ turn' = NoTurn
    BY <1>2 DEF Backfill
  <2> QED
    BY <1>2, <2>1, <2>2 DEF Backfill, Unread
<1> QED
  BY <1>1, <1>2

\* The hotel check and the gender extraction.
LEMMA RoutingLimits ==
    ASSUME TurnTyped, HotelNamed \/ PostCompletion \/ ExtractGender \/ ReadBack
    PROVE  LimitMoves
<1> USE NoTurnFields, AtFields, AtThenFields, FlowUnread, PCsNamed
    DEF TurnTyped, LimitMoves, Remembers, MemoryMoves, SpeechMoves, SentMoves, CampusMoves,
        Counting,
        MaySpeak
<1>1. CASE HotelNamed
  BY <1>1 DEF HotelNamed, Advance, Unread
<1>2. CASE PostCompletion
  BY <1>2 DEF PostCompletion, Escalating
<1>3. CASE ExtractGender
  <2>1. row'.flow = row.flow /\ Unread(row')
    BY <1>3 DEF ExtractGender, Row, Unread
  <2>2. ASSUME NEW t \in Turn, NEW b \in BOOLEAN, NEW e
        PROVE  LET u == [t EXCEPT !.genderFilled = b, !.ifEmpty = e]
               IN  u.pc = t.pc /\ u.start = t.start /\ u.sent = t.sent
    BY DEF Turn
  <2>3. PICK e \in {"divergence", "activate"}, named \in BOOLEAN :
             turn' = [At(IF named THEN "reread" ELSE "entity") EXCEPT
                         !.genderFilled = named, !.ifEmpty = e]
    BY <1>3 DEF ExtractGender, IfEmpty
  <2>4. At("reread") \in Turn /\ At("entity") \in Turn
    BY AtTyped, PCsNamed
  <2>5. /\ turn'.pc \in {"reread", "entity"} /\ turn'.start = turn.start
        /\ turn'.sent = turn.sent
    BY <2>2, <2>3, <2>4
  <2> QED
    BY <1>3, <2>1, <2>5 DEF ExtractGender, Unread
<1>4. CASE ReadBack
  <2>1. turn'.pc = "entity" /\ turn'.start = turn.start /\ turn'.sent = turn.sent
    BY <1>4, AtTyped, ConvSet DEF ReadBack
  <2> QED
    BY <1>4, <2>1 DEF ReadBack
<1> QED
  BY <1>1, <1>2, <1>3, <1>4

\* The campus question.
LEMMA CampusLimits ==
    ASSUME TurnTyped, CampusMatched \/ CampusNotMatched \/ ParentMatched \/ PendParent
    PROVE  LimitMoves
<1> USE NoTurnFields, AtFields, AtThenFields, PCsNamed
    DEF TurnTyped, LimitMoves, Remembers, MemoryMoves, SpeechMoves, SentMoves, CampusMoves,
        Counting,
        MaySpeak, Saying, Escalating
<1>1. CASE CampusMatched
  BY <1>1 DEF CampusMatched, Row
<1>2. CASE CampusNotMatched
  BY <1>2 DEF CampusNotMatched, Row, Fallback
<1>3. CASE ParentMatched
  <2> DEFINE c == [row EXCEPT !.clarification = 0]
             f == [c EXCEPT !.flow = "awaiting_campus_clarification"]
  <2>1. c.flow = row.flow /\ Unread(c) /\ Unread(f)
    BY DEF Row, Unread
  <2>2. \/ row' = c /\ turn' \in {At("reset"), Escalating("reset")}
        \/ row' = f /\ turn' = At("pendParent")
    BY <1>3 DEF ParentMatched
  <2> HIDE DEF c, f
  <2> QED
    BY <1>3, <2>1, <2>2 DEF ParentMatched, Unread
<1>4. CASE PendParent
  BY <1>4 DEF PendParent, Row
<1> QED
  BY <1>1, <1>2, <1>3, <1>4

\* The university scan.
LEMMA EntityLimits ==
    ASSUME TurnTyped,
           UniversityMatched \/ AmbiguousUniversity \/ OutOfCity \/ NoEntity
    PROVE  LimitMoves
<1> USE NoTurnFields, AtFields, AtThenFields, FlowUnread, PCsNamed
    DEF TurnTyped, LimitMoves, Remembers, MemoryMoves, SpeechMoves, SentMoves, CampusMoves,
        Counting,
        MaySpeak, Saying, Escalating
<1>1. CASE UniversityMatched
  BY <1>1 DEF UniversityMatched, Row
<1>2. CASE AmbiguousUniversity
  BY <1>2 DEF AmbiguousUniversity, Advance, Unread
<1>3. CASE OutOfCity
  BY <1>3 DEF OutOfCity, Advance, Unread
<1>4. CASE NoEntity
  BY <1>4 DEF NoEntity, Fallback
<1> QED
  BY <1>1, <1>2, <1>3, <1>4

\* What follows a match.
LEMMA MatchedLimits ==
    ASSUME TurnTyped, MatchedReadsBack \/ AskGender \/ NotReady \/ Settle \/ Reset
    PROVE  LimitMoves
<1> USE NoTurnFields, AtFields, AtThenFields, FlowUnread, PCsNamed, NextNamed
    DEF TurnTyped, LimitMoves, Remembers, MemoryMoves, SpeechMoves, SentMoves, CampusMoves,
        Counting,
        MaySpeak, Saying, Escalating
<1>1. CASE MatchedReadsBack
  BY <1>1, ConvSet, AtTyped DEF MatchedReadsBack
<1>2. CASE AskGender
  BY <1>2 DEF AskGender, Advance, LockHolds, Unread
<1>3. CASE NotReady
  BY <1>3 DEF NotReady
<1>4. /\ ResetDivergence(row).flow = row.flow
      /\ ResetDivergence(row).pendingParent = row.pendingParent
      /\ Forget(told).late = told.late
  BY DEF ResetDivergence, Forget, Row, Told
<1>5. CASE Settle
  <2>1. AtThen("fire", "idle") \in Turn
    BY AtThenTyped
  <2>2. turn'.pc \in {"fire", "escalate", "idle"} /\ turn'.sent \in {turn.sent, 0}
    BY <1>5, <2>1, ConvSet DEF Settle
  <2> QED
    BY <1>4, <1>5, <2>2 DEF Settle
<1>6. CASE Reset
  BY <1>4, <1>6 DEF Reset
<1> QED
  BY <1>1, <1>2, <1>3, <1>5, <1>6

\* The divergence pipeline.
LEMMA DivergenceLimits ==
    ASSUME TurnTyped,
           \/ Activate \/ ClassifierFails \/ NearMiss
           \/ \E intent \in Intents : Diverge(intent)
           \/ Answer \/ Reanchor \/ Clarified
    PROVE  LimitMoves
<1> USE NoTurnFields, AtFields, AtThenFields, FlowUnread, PCsNamed
    DEF TurnTyped, LimitMoves, Remembers, MemoryMoves, SpeechMoves, SentMoves, CampusMoves,
        Counting,
        MaySpeak, Saying, Escalating
<1>1. CASE Activate
  BY <1>1 DEF Activate, Advance, LockHolds, Unread
<1>2. CASE ClassifierFails
  BY <1>2 DEF ClassifierFails
<1>3. CASE NearMiss
  BY <1>3 DEF NearMiss
<1>4. ASSUME NEW intent \in Intents, Diverge(intent) PROVE LimitMoves
  <2>1. row'.flow = row.flow /\ row'.pendingParent = row.pendingParent
    BY <1>4 DEF Diverge, RecordDivergence, Row
  <2>2. told'.late = told.late
    BY <1>4 DEF Diverge, Forget, Told
  <2> QED
    BY <1>4, <2>1, <2>2 DEF Diverge
<1>5. CASE Answer
  <2>1. \/ told'.late = told.late
        \/ row.flow = "stopped" /\ told'.late = told.late + 1
    BY <1>5, AnswerFields DEF Answer
  <2> QED
    BY <1>5, <2>1 DEF Answer
<1>6. CASE Reanchor
  BY <1>6 DEF Reanchor, Advance, LockHolds, Unread
<1>7. CASE Clarified
  BY <1>7 DEF Clarified, Row, LockHolds
<1> QED
  BY <1>1, <1>2, <1>3, <1>4, <1>5, <1>6, <1>7

\* Sends and escalations.
LEMMA SendsLimits ==
    ASSUME TurnTyped, Say \/ PitchLine \/ Pitched \/ Escalate \/ WriteAttributes
    PROVE  LimitMoves
<1> USE NoTurnFields, AtFields, AtThenFields, FlowUnread, LateFields, PCsNamed, NextNamed
    DEF TurnTyped, LimitMoves, Remembers, MemoryMoves, SpeechMoves, SentMoves, CampusMoves,
        Counting,
        MaySpeak, Saying, Escalating, Speak
<1>1. CASE Say
  BY <1>1 DEF Say
<1>2. CASE PitchLine
  <2>1. /\ turn'.pc = turn.pc /\ turn'.start = turn.start /\ turn'.conv = turn.conv
        /\ turn'.sent = turn.sent + 1
    BY <1>2 DEF PitchLine, Turn
  <2> QED
    BY <1>2, <2>1 DEF PitchLine
<1>5. CASE Pitched
  <2>1. turn.sent \in 0 .. Lines
    BY DEF Turn
  <2> QED
    BY <1>5, <2>1, LinesAssumption DEF Pitched
<1>3. CASE Escalate
  BY <1>3 DEF Escalate, SetHumanNeeded, Unread
<1>4. CASE WriteAttributes
  BY <1>4 DEF WriteAttributes, MarkCompanions, Row
<1> QED
  BY <1>1, <1>2, <1>3, <1>4, <1>5

\* Every step of a turn.
LEMMA TurnStepLimits ==
    ASSUME TypeOK, StartTurn \/ GatherStep
    PROVE  LimitMoves
BY AdmissionLimits, RoutingLimits, CampusLimits, EntityLimits, MatchedLimits,
   DivergenceLimits, SendsLimits
DEF TypeOK, GatherTypeOK, TurnTyped, StartTurn, GatherStep, TurnStep

----------------------------------------------------------------------------
\* A ladder, a run, another writer or a fault touches neither the divergence
\* memory nor the parent, and the start of a matching ends the turn's search.
LEMMA OutsideTurn ==
    ASSUME TypeOK, [Next]_vars, ~StartTurn, ~GatherStep
    PROVE  /\ Unread(row')
           /\ told'.intent = told.intent /\ told'.answers = told.answers
           /\ \/ turn' = turn
              \/ /\ turn'.pc \in {"idle", "reset", "settle", "clarified", "attributes"}
                 /\ turn'.sent = 0 \/ (turn.pc = "fire" /\ turn'.sent = turn.sent)
           /\ row'.flow = "awaiting_campus_clarification" => row'.flow = row.flow
           /\ faults' \in Nat /\ faults' >= faults
           /\ turn' = turn \/ faults' # 0 \/ FireRecEngine
<1> USE NoTurnFields DEF Unread
<1>1. row \in Row /\ told \in Told /\ turn \in Turn /\ RecTypeOK /\ faults \in Nat
  BY DEF TypeOK, GatherTypeOK
<1>2. CASE FireRecEngine
  <2>1. PICK k \in Keys : Fire(k)
    BY <1>2 DEF FireRecEngine
  <2>2. /\ turn'.pc \in {"idle", "reset", "settle", "clarified", "attributes"}
        /\ turn'.sent = 0 \/ (turn.pc = "fire" /\ turn'.sent = turn.sent)
    BY <1>1, <2>1, NextNamed, AtFields, NoTurnFields, PCsNamed DEF Fire
  <2>3. Unread(row') /\ row'.flow = "recengine_running" /\ told' = told
    BY <1>1, <2>1, FlowUnread DEF Fire
  <2> QED
    BY <1>1, <1>2, <2>2, <2>3 DEF FireRecEngine
<1>3. ASSUME NEW k \in Keys, Ladders(k)
      PROVE  /\ Unread(row') /\ told' = told /\ UNCHANGED <<turn, faults>>
             /\ row'.flow = "awaiting_campus_clarification" => row'.flow = row.flow
  BY <1>1, <1>3, FlowUnread
  DEF Ladders, LadderStep, PostStart, PollLog, LadderEscalates, SetHumanNeeded, gatherVars
<1>4. ASSUME NEW k \in Keys, NEW a \in Tries, Runs(k, a)
      PROVE  /\ Unread(row') /\ told'.intent = told.intent /\ told'.answers = told.answers
             /\ UNCHANGED <<turn, faults>>
             /\ row'.flow = "awaiting_campus_clarification" => row'.flow = row.flow
  <2>1. CASE Callback(k, a) \/ CallbackEscalates(k, a)
    BY <1>1, <1>4, <2>1, FlowUnread
    DEF Callback, CallbackEscalates, SetHumanNeeded, Runs, gatherVars
  <2>2. CASE SendLine(k, a)
    <3>1. ASSUME NEW t \in Told, NEW n
          PROVE  LET u == [t EXCEPT !.pitches = n]
                 IN  u.intent = t.intent /\ u.answers = t.answers
      BY DEF Told
    <3>2. told'.intent = told.intent /\ told'.answers = told.answers
      BY <1>1, <2>2, <3>1, LateTyped, LateFields DEF SendLine, SpeakPitch
    <3> QED
      BY <1>4, <2>2, <3>2 DEF SendLine, Runs, gatherVars
  <2>3. CASE CallbackWritesAttributes(k, a)
    <3>1. Unread(row') /\ row'.flow = row.flow
      BY <1>1, <2>3 DEF CallbackWritesAttributes, MarkCompanions, Row
    <3> QED
      BY <1>4, <2>3, <3>1 DEF CallbackWritesAttributes, Runs, gatherVars
  <2> QED
    BY <1>4, <2>1, <2>2, <2>3
    DEF Runs, RunStep, StartHandler, InsertProcessing, SkipIfResolved, SelectHotels,
        ResolveLog, LoseCallback, Delivered, gatherVars
<1>5. CASE Others
  <2>1. /\ Unread(row')
        /\ row'.flow \in {row.flow, "stopped"}
    BY <1>1, <1>5
    DEF Others, Takeover, CrmSetsGender, CrmSetsUniversity, TaggerFills, TurnRaises,
        TaskRaises, SendTimesOut, Restart, Row
  <2>2. told'.intent = told.intent /\ told'.answers = told.answers
    BY <1>1, <1>5, LateFields
    DEF Others, Takeover, CrmSetsGender, CrmSetsUniversity, TaggerFills, TurnRaises,
        TaskRaises, SendTimesOut, Speak, Restart, Told
  <2>3. \/ turn' = turn /\ faults' \in {faults, faults + 1}
        \/ turn' = NoTurn /\ faults' = faults + 1
    BY <1>5
    DEF Others, Takeover, CrmSetsGender, CrmSetsUniversity, TaggerFills, TurnRaises,
        TaskRaises, SendTimesOut, Restart, gatherVars
  <2> QED
    BY <1>1, <2>1, <2>2, <2>3
<1>6. CASE UNCHANGED vars
  BY <1>1, <1>6 DEF vars
<1> QED
  BY <1>1, <1>2, <1>3, <1>4, <1>5, <1>6 DEF Next

----------------------------------------------------------------------------
\* The limit on answers is kept.
LEMMA AnswersKept ==
    ASSUME IInv, AnswersRemembered, SameAnswerCap, [Next]_vars
    PROVE  AnswersRemembered' /\ SameAnswerCap'
<1> USE DEF SameAnswerCap
<1>1. row \in Row /\ told \in Told /\ turn \in Turn
  BY DEF IInv, TypeOK, GatherTypeOK
<1>2. row.repeats \in Nat /\ told.answers \in Nat /\ row.intent \in Intents \cup {NoIntent}
  BY <1>1 DEF Row, Told
<1>3. CASE ~StartTurn /\ ~GatherStep
  <2>1. /\ Unread(row')
        /\ told'.intent = told.intent /\ told'.answers = told.answers
        /\ \/ turn'.pc = turn.pc /\ turn'.start = turn.start
           \/ turn'.pc \in {"idle", "reset", "settle", "clarified", "attributes"}
    BY <1>3, OutsideTurn DEF IInv
  <2> QED
    BY <2>1 DEF AnswersRemembered, Counting, Unread
<1>4. CASE MemoryMoves
  BY <1>4 DEF MemoryMoves, AnswersRemembered
<1>5. CASE Settle \/ Reset
  <2>1. /\ row'.intent = NoIntent /\ row'.repeats = 0
        /\ told'.intent = NoIntent /\ told'.answers = 0
    BY <1>1, <1>5 DEF Settle, Reset, ResetDivergence, Forget, Row, Told
  <2>2. ~Counting' /\ turn'.pc # "answer"
    <3>1. AtThen("fire", "idle") \in Turn
      BY <1>1, AtThenTyped, PCsNamed
    <3>2. Escalating("idle").pc = "escalate" /\ AtThen("fire", "idle").pc = "fire"
      BY <1>1, AtThenFields, PCsNamed DEF Escalating
    <3>3. CASE Settle
      BY <3>1, <3>2, <3>3, ConvSet, NoTurnQuiet DEF Settle, Counting
    <3>4. CASE Reset
      BY <3>4, NoTurnQuiet DEF Reset, Counting
    <3> QED
      BY <1>5, <3>3, <3>4
  <2> QED
    BY <2>1, <2>2 DEF AnswersRemembered
<1>6. ASSUME NEW intent \in Intents, Diverge(intent)
      PROVE  AnswersRemembered' /\ SameAnswerCap'
  <2>1. /\ row'.intent = intent
        /\ row'.repeats = IF row.intent = intent THEN row.repeats + 1 ELSE 1
    BY <1>1, <1>6
    DEF Diverge, RecordDivergence, RepeatCount, AnswersRemembered, Counting, Row
  <2>2. \/ told.intent = intent /\ told' = told
        \/ told'.intent = NoIntent /\ told'.answers = 0
    BY <1>1, <1>6 DEF Diverge, Forget, Told
  <2>3. turn'.pc \in {"answer", "activate", "escalate", "idle"}
    BY <1>1, <1>6, AtFields, AtThenFields, NoTurnFields, PCsNamed DEF Diverge, Escalating
  <2>4. turn'.pc = "answer" => row'.repeats \in 1 .. 2
    <3>1. ASSUME turn'.pc = "answer" PROVE RepeatCount(intent) < 3
      <4>1. RepeatCount(intent) \in Nat
        BY <1>1 DEF RepeatCount, Turn, Start
      <4>2. Decision(intent) = "answer_and_reanchor"
        BY <1>1, <1>6, <3>1, AtFields, AtThenFields, NoTurnFields, PCsNamed
        DEF Diverge, Escalating
      <4> QED
        BY <4>1, <4>2 DEF Decision
    <3>2. row'.repeats = RepeatCount(intent)
      BY <1>1, <1>6 DEF Diverge, RecordDivergence, Row
    <3> QED
      BY <1>2, <2>1, <3>1, <3>2
  <2> QED
    BY <1>2, <2>1, <2>2, <2>3, <2>4, IntentsAssumption DEF AnswersRemembered, Counting
<1>7. CASE Answer
  <2>1. row' = row /\ turn'.pc \in {"reanchor", "idle"}
    BY <1>1, <1>7, AtFields, NoTurnFields, PCsNamed DEF Answer
  <2>2. \/ told' = told
        \/ /\ told'.intent = row.intent
           /\ told'.answers = IF told.intent = row.intent THEN told.answers + 1 ELSE 1
    BY <1>1, <1>7, AnswerFields DEF Answer
  <2>3. turn.pc = "answer"
    BY <1>7 DEF Answer
  <2> QED
    BY <1>2, <2>1, <2>2, <2>3, IntentsAssumption DEF AnswersRemembered, Counting
<1>8. CASE StartTurn \/ GatherStep
  BY <1>4, <1>5, <1>6, <1>7, <1>8, TurnStepLimits DEF IInv, LimitMoves, Remembers
<1> QED
  BY <1>3, <1>8

----------------------------------------------------------------------------
\* What the tasks beside the turn send after a takeover: the run under way a
\* line of its list, and any send a copy that costs a fault.
Quiet ==
    /\ told'.late = told.late
    /\ row'.flow = "stopped" =>
          /\ row.flow = "stopped"
          /\ \A l \in Keys, b \in Tries :
                run'[l][b].pc = "delivering" => run'[l][b] = run[l][b]

LineOf(k, a) ==
    /\ row.flow = "stopped" /\ told'.late = told.late + 1 /\ row' = row
    /\ run[k][a].pc = "delivering" /\ run[k][a].sent < Lines
    /\ run'[k][a].pc = "delivering" /\ run'[k][a].sent = run[k][a].sent + 1
    /\ \A l \in Keys, b \in Tries : l # k \/ b # a => run'[l][b] = run[l][b]

CopySent ==
    told'.late = told.late + 1 /\ faults' = faults + 1 /\ UNCHANGED <<row, run, turn>>

\* A step of a run is quiet or sends one line.
LEMMA RunSpeech ==
    ASSUME IInv, NEW k \in Keys, NEW a \in Tries, RunStep(k, a)
    PROVE  Quiet \/ LineOf(k, a)
<1>1. told \in Told /\ RecTypeOK
  BY DEF IInv, TypeOK
<1>2. RunShape(k, a)
  BY RunStepShape DEF IInv
<1>3. CASE SendLine(k, a)
  <2>1. /\ row' = row
        /\ run[k][a].pc = "delivering" /\ run[k][a].sent < Lines
        /\ run'[k][a].pc = run[k][a].pc
        /\ run'[k][a].sent = run[k][a].sent + 1
        /\ \A l \in Keys, b \in Tries : l # k \/ b # a => run'[l][b] = run[l][b]
    BY <1>1, <1>3 DEF SendLine, Unsent, RecTypeOK, Run
  <2>2. told'.late = Late(told).late
    BY <1>1, <1>3, LateTyped DEF SendLine, SpeakPitch, Told
  <2>3. told'.late = IF row.flow = "stopped" THEN told.late + 1 ELSE told.late
    BY <1>1, <2>2 DEF Late, Told
  <2> QED
    BY <2>1, <2>3 DEF LineOf, Quiet
<1>4. CASE ~SendLine(k, a)
  <2>1. told' = told
    BY <1>4
    DEF RunStep, StartHandler, InsertProcessing, SkipIfResolved, SelectHotels, ResolveLog,
        LoseCallback, Callback, Delivered, CallbackEscalates, CallbackWritesAttributes
  <2>2. run'[k][a].pc = "delivering" => row'.flow = "completed"
    BY <1>1, <1>4, ToRunFields, FlowUnread
    DEF RunStep, StartHandler, InsertProcessing, SkipIfResolved, SelectHotels, ResolveLog,
        LoseCallback, Callback, Delivered, CallbackEscalates, CallbackWritesAttributes,
        IInv, TypeOK, RecTypeOK, Run
  <2> QED
    BY <1>2, <2>1, <2>2 DEF RunShape, Quiet
<1> QED
  BY <1>3, <1>4

\* A step outside the turn is quiet, sends one line of a run or one copy, or is
\* the takeover itself.
LEMMA OutsideSpeech ==
    ASSUME IInv, [Next]_vars, ~StartTurn, ~GatherStep
    PROVE  \/ Quiet
           \/ faults' = faults /\ turn' = turn /\ \E k \in Keys, a \in Tries : LineOf(k, a)
           \/ CopySent
           \/ told'.late = 0 /\ UNCHANGED <<turn, run, faults>>
<1>1. row \in Row /\ told \in Told /\ RecTypeOK /\ turn \in Turn
  BY DEF IInv, TypeOK, GatherTypeOK
<1>2. CASE FireRecEngine
  <2>1. row'.flow = "recengine_running" /\ told' = told
    BY <1>1, <1>2, FlowUnread DEF FireRecEngine, Fire
  <2> QED
    BY <2>1 DEF Quiet
<1>3. ASSUME NEW k \in Keys, Ladders(k) PROVE Quiet
  <2>1. told' = told /\ row'.flow \in {row.flow, "human_needed"}
    BY <1>1, <1>3, FlowUnread
    DEF Ladders, LadderStep, PostStart, PollLog, LadderEscalates, SetHumanNeeded
  <2>2. \A l \in Keys, a \in Tries :
           run'[l][a] = run[l][a] \/ run'[l][a].pc = "starting"
    BY <1>1, <1>3, ToRunFields
    DEF Ladders, LadderStep, PostStart, PollLog, LadderEscalates, RecTypeOK, Ladder
  <2> QED
    BY <2>1, <2>2 DEF Quiet
<1>4. ASSUME NEW k \in Keys, NEW a \in Tries, Runs(k, a)
      PROVE  Quiet \/ (faults' = faults /\ turn' = turn /\ LineOf(k, a))
  BY <1>4, RunSpeech DEF Runs, gatherVars
<1>5. CASE Takeover
  BY <1>1, <1>5 DEF Takeover, Told, recVars, gatherVars
<1>6. CASE SendTimesOut
  BY <1>1, <1>6 DEF SendTimesOut, Speak, Late, Told, CopySent, Quiet, recVars, gatherVars
<1>7. CASE Others /\ ~Takeover /\ ~SendTimesOut
  <2>1. told' = told /\ row'.flow = row.flow
    BY <1>1, <1>7
    DEF Others, CrmSetsGender, CrmSetsUniversity, TaggerFills, TurnRaises, TaskRaises,
        Restart, Row
  <2>2. \A k \in Keys, a \in Tries : run'[k][a] = run[k][a] \/ run'[k][a].pc # "delivering"
    <3>1. CASE Restart
      BY <1>1, <3>1 DEF Restart, RecRestart, RecTypeOK, Run
    <3>2. CASE TaskRaises
      BY <1>1, <3>2, ToRunFields DEF TaskRaises, LadderRaises, RunRaises
    <3>3. CASE ~Restart /\ ~TaskRaises
      BY <1>7, <3>3
      DEF Others, CrmSetsGender, CrmSetsUniversity, TaggerFills, TurnRaises, recVars
    <3> QED
      BY <3>1, <3>2, <3>3
  <2> QED
    BY <2>1, <2>2 DEF Quiet
<1>8. CASE UNCHANGED vars
  BY <1>8 DEF vars, Quiet
<1> QED
  BY <1>2, <1>3, <1>4, <1>5, <1>6, <1>7, <1>8 DEF Next

\* The sums of SendsLeft are sums of numbers.
Counted ==
    /\ Lines \in Nat \ {0} /\ faults \in Nat /\ told.late \in Nat
    /\ turn.sent \in Nat /\ turn.sent <= Lines
    /\ TurnLeft \in Nat /\ TurnLeft <= Lines
    /\ \A k \in Keys, a \in Tries : run[k][a].sent \in Nat /\ run[k][a].sent <= Lines

LEMMA Counts == TypeOK => Counted
<1> SUFFICES ASSUME TypeOK PROVE Counted
  OBVIOUS
<1>1. Lines \in Nat \ {0} /\ faults \in Nat /\ told.late \in Nat
  BY LinesAssumption DEF TypeOK, Told
<1>2. turn.sent \in Nat /\ turn.sent <= Lines
  BY <1>1 DEF TypeOK, GatherTypeOK, Turn
<1>3. TurnLeft \in Nat /\ TurnLeft <= Lines
  BY <1>1, <1>2 DEF TurnLeft
<1>4. \A k \in Keys, a \in Tries : run[k][a].sent \in 0 .. Lines
  BY DEF TypeOK, RecTypeOK, Run
<1> QED
  BY <1>1, <1>2, <1>3, <1>4 DEF Counted

\* They are so after every step.
LEMMA CountsNext == IInv /\ [Next]_vars => Counted'
<1>1. TypeOK' => Counted'
  BY Counts, PTL
<1> QED
  BY <1>1, NextTyped DEF IInv

\* What a step of the turn sends is taken off what it may still send.
LEMMA TurnSpends ==
    ASSUME IInv, SendsLeft, StartTurn \/ GatherStep
    PROVE  /\ turn'.pc \notin {"pitch", "attributes"} => turn'.sent = 0
           /\ row'.flow = "stopped" =>
                 row.flow = "stopped" /\ told'.late + TurnLeft' <= told.late + TurnLeft
           /\ told'.late # told.late =>
                 row.flow = "stopped" /\ told'.late + TurnLeft' <= told.late + TurnLeft
           /\ UNCHANGED <<run, faults>>
<1>1. SpeechMoves /\ TurnShape /\ UNCHANGED <<run, faults>>
  BY TurnStepLimits, TurnStepShape DEF IInv, LimitMoves, StartTurn, GatherStep, recVars
<1>2. row'.flow = "stopped" => row.flow = "stopped" /\ turn'.pc # "route"
  BY <1>1, FlowNames DEF TurnShape, FlowMoves, TurnMoves
<1>3. turn'.pc \notin {"pitch", "attributes"} => turn'.sent = 0
  BY <1>1 DEF SpeechMoves, SentMoves, SendsLeft
<1>4. ASSUME row'.flow = "stopped" \/ told'.late # told.late
      PROVE  told'.late + TurnLeft' <= told.late + TurnLeft
  <2> USE Counts DEF IInv, TurnLeft, Counted
  <2>1. CASE MaySpeak'
    <3>1. /\ MaySpeak
          /\ turn'.sent \in {turn.sent, turn.sent + 1}
          /\ told'.late = told.late \/ (told'.late = told.late + 1 /\ turn'.sent = turn.sent + 1)
      BY <1>1, <1>2, <1>4, <2>1 DEF SpeechMoves
    <3> QED
      BY <2>1, <3>1
  <2>2. CASE ~MaySpeak' /\ told'.late = told.late
    BY <2>2
  <2>3. CASE ~MaySpeak' /\ told'.late # told.late
    <3>1. told'.late = told.late + 1 /\ MaySpeak /\ turn.pc \notin {"pitch", "attributes"}
      BY <1>1, <2>3 DEF SpeechMoves, MaySpeak
    <3>2. turn.sent = 0
      BY <3>1 DEF SendsLeft
    <3> QED
      BY <2>3, <3>1, <3>2
  <2> QED
    BY <2>1, <2>2, <2>3
<1> QED
  BY <1>1, <1>2, <1>3, <1>4 DEF SpeechMoves

\* A step outside the turn leaves it no more to send.
LEMMA TurnNoMore ==
    ASSUME IInv, SendsLeft, [Next]_vars, ~StartTurn, ~GatherStep
    PROVE  /\ turn'.pc \notin {"pitch", "attributes"} => turn'.sent = 0
           /\ TurnLeft' <= TurnLeft
<1>1. \/ turn' = turn
      \/ /\ turn'.pc \in {"idle", "reset", "settle", "clarified", "attributes"}
         /\ turn'.sent = 0 \/ (turn.pc = "fire" /\ turn'.sent = turn.sent)
  BY OutsideTurn DEF IInv
<1>2. TurnLeft \in Nat
  BY Counts DEF IInv, Counted
<1> QED
  BY <1>1, <1>2 DEF SendsLeft, TurnLeft, MaySpeak

\* The limit on late messages is kept.
LEMMA SpeechKept ==
    ASSUME IInv, SendsLeft, LateSpeechBounded, [Next]_vars
    PROVE  SendsLeft' /\ LateSpeechBounded'
<1> DEFINE left(k, a) == Lines - run[k][a].sent
           bound == 2 * Lines + faults
<1>1. Counted /\ Counted'
  BY Counts, CountsNext DEF IInv
<1>2. bound \in Nat /\ bound' \in Nat /\ 2 * Lines <= bound'
  BY <1>1 DEF Counted
<1>3. \A k \in Keys, a \in Tries : left(k, a) \in 0 .. Lines /\ left(k, a)' \in 0 .. Lines
  BY <1>1 DEF Counted
<1>4. told.late <= bound
  BY DEF LateSpeechBounded
<1>5. ASSUME row.flow = "stopped"
      PROVE  /\ told.late + TurnLeft <= bound
             /\ \A k \in Keys, a \in Tries :
                   run[k][a].pc = "delivering" => told.late + TurnLeft + left(k, a) <= bound
  BY <1>5 DEF SendsLeft
<1> HIDE DEF left, bound
<1> DEFINE Goal ==
        /\ turn'.pc \notin {"pitch", "attributes"} => turn'.sent = 0
        /\ told'.late <= bound'
        /\ row'.flow = "stopped" =>
              /\ told'.late + TurnLeft' <= bound'
              /\ \A k \in Keys, a \in Tries :
                    run'[k][a].pc = "delivering"
                    => told'.late + TurnLeft' + left(k, a)' <= bound'
<1>6. ASSUME StartTurn \/ GatherStep PROVE Goal
  <2>1. /\ bound' = bound
        /\ \A k \in Keys, a \in Tries : run'[k][a] = run[k][a] /\ left(k, a)' = left(k, a)
    BY <1>6, TurnSpends DEF bound, left
  <2>2. turn'.pc \notin {"pitch", "attributes"} => turn'.sent = 0
    BY <1>6, TurnSpends
  <2>3. ASSUME row'.flow = "stopped"
        PROVE  row.flow = "stopped" /\ told'.late + TurnLeft' <= told.late + TurnLeft
    BY <1>6, <2>3, TurnSpends
  <2>4. told'.late <= bound'
    <3>1. CASE told'.late = told.late
      BY <1>4, <2>1, <3>1
    <3>2. CASE told'.late # told.late
      <4>1. row.flow = "stopped" /\ told'.late + TurnLeft' <= told.late + TurnLeft
        BY <1>6, <3>2, TurnSpends
      <4> QED
        BY <1>1, <1>2, <1>5, <2>1, <4>1 DEF Counted
    <3> QED
      BY <3>1, <3>2
  <2>5. ASSUME row'.flow = "stopped"
        PROVE  told'.late + TurnLeft' <= bound'
    BY <1>1, <1>2, <1>5, <2>1, <2>3, <2>5 DEF Counted
  <2>6. ASSUME row'.flow = "stopped", NEW k \in Keys, NEW a \in Tries,
               run'[k][a].pc = "delivering"
        PROVE  told'.late + TurnLeft' + left(k, a)' <= bound'
    BY <1>1, <1>2, <1>3, <1>5, <2>1, <2>3, <2>6 DEF Counted
  <2> QED
    BY <2>2, <2>4, <2>5, <2>6
<1>7. ASSUME ~StartTurn, ~GatherStep PROVE Goal
  <2>1. /\ turn'.pc \notin {"pitch", "attributes"} => turn'.sent = 0
        /\ TurnLeft' <= TurnLeft
    BY <1>7, TurnNoMore
  <2>2. bound <= bound'
    <3>1. faults' >= faults
      BY <1>7, OutsideTurn DEF IInv
    <3> QED
      BY <1>1, <3>1 DEF bound, Counted
  <2>3. ASSUME Quiet PROVE Goal
    <3>1. told'.late <= bound'
      BY <1>1, <1>2, <1>4, <2>2, <2>3 DEF Quiet, Counted
    <3>2. ASSUME row'.flow = "stopped" PROVE told'.late + TurnLeft' <= bound'
      BY <1>1, <1>2, <1>5, <2>1, <2>2, <2>3, <3>2 DEF Quiet, Counted
    <3>3. ASSUME row'.flow = "stopped", NEW k \in Keys, NEW a \in Tries,
                 run'[k][a].pc = "delivering"
          PROVE  told'.late + TurnLeft' + left(k, a)' <= bound'
      <4>1. run'[k][a] = run[k][a] /\ row.flow = "stopped" /\ told'.late = told.late
        BY <2>3, <3>3 DEF Quiet
      <4>2. left(k, a)' = left(k, a)
        BY <4>1 DEF left
      <4> QED
        BY <1>1, <1>2, <1>3, <1>5, <2>1, <2>2, <3>3, <4>1, <4>2 DEF Counted
    <3> QED
      BY <2>1, <3>1, <3>2, <3>3
  <2>4. ASSUME faults' = faults, turn' = turn, NEW k \in Keys, NEW a \in Tries, LineOf(k, a)
        PROVE  Goal
    <3>1. /\ row.flow = "stopped" /\ told'.late = told.late + 1
          /\ run[k][a].pc = "delivering" /\ run[k][a].sent < Lines
          /\ run'[k][a].sent = run[k][a].sent + 1
      BY <2>4 DEF LineOf
    <3>2. left(k, a) > 0 /\ left(k, a)' = left(k, a) - 1
      BY <1>1, <3>1 DEF left, Counted
    <3>3. told.late + TurnLeft + left(k, a) <= bound
      BY <1>5, <3>1
    <3>4. told'.late + TurnLeft' + left(k, a)' <= bound'
      BY <1>1, <1>2, <1>3, <2>1, <2>2, <3>1, <3>2, <3>3 DEF Counted
    <3>5. ASSUME NEW l \in Keys, NEW b \in Tries, run'[l][b].pc = "delivering"
          PROVE  l = k /\ b = a
      BY <2>4, <3>1, <3>5 DEF LineOf, IInv, OneDelivery
    <3>6. told'.late + TurnLeft' <= bound' /\ told'.late <= bound'
      BY <1>1, <1>2, <1>3, <3>4 DEF Counted
    <3> QED
      BY <2>1, <3>4, <3>5, <3>6
  <2>5. ASSUME CopySent PROVE Goal
    <3>1. /\ told'.late = told.late + 1 /\ bound' = bound + 1 /\ TurnLeft' = TurnLeft
          /\ row' = row
          /\ \A k \in Keys, a \in Tries : run'[k][a] = run[k][a] /\ left(k, a)' = left(k, a)
      BY <1>1, <2>5 DEF CopySent, bound, left, Counted, TurnLeft, MaySpeak
    <3>2. ASSUME row'.flow = "stopped", NEW k \in Keys, NEW a \in Tries,
                 run'[k][a].pc = "delivering"
          PROVE  told'.late + TurnLeft' + left(k, a)' <= bound'
      BY <1>1, <1>2, <1>3, <1>5, <3>1, <3>2 DEF Counted
    <3> QED
      BY <1>1, <1>2, <1>4, <1>5, <2>1, <3>1, <3>2 DEF Counted
  <2>6. ASSUME told'.late = 0, UNCHANGED <<turn, run, faults>> PROVE Goal
    <3>1. \A k \in Keys, a \in Tries :
             told'.late + TurnLeft' + left(k, a)' <= bound'
      <4>1. TurnLeft' <= Lines /\ TurnLeft' \in Nat /\ Lines \in Nat
        BY <1>1 DEF Counted
      <4> QED
        BY <1>2, <1>3, <2>6, <4>1
    <3> QED
      BY <1>1, <1>2, <2>1, <2>6, <3>1 DEF Counted
  <2> QED
    BY <1>7, <2>3, <2>4, <2>5, <2>6, OutsideSpeech
<1> QED
  BY <1>6, <1>7 DEF SendsLeft, LateSpeechBounded, left, bound

----------------------------------------------------------------------------
\* The campus question keeps its parent.
LEMMA CampusKept ==
    ASSUME IInv, CampusTurn, [Next]_vars
    PROVE  CampusTurn'
<1>1. row \in Row /\ turn \in Turn /\ faults \in Nat /\ row' \in Row
  BY NextTyped DEF IInv, TypeOK, GatherTypeOK
<1>2. CASE StartTurn \/ GatherStep
  <2>1. CampusMoves /\ TurnShape
    BY <1>2, TurnStepLimits, TurnStepShape DEF IInv, LimitMoves
  <2>2. faults' = faults
    BY <1>2 DEF StartTurn, GatherStep
  <2>3. ASSUME faults = 0, row'.flow = "awaiting_campus_clarification", ~row'.pendingParent,
               turn'.pc # "pendParent"
        PROVE  /\ turn'.pc \in {"matched", "askGender", "fire"}
               /\ turn'.conv.flow = row'.flow
               /\ turn'.pc = "fire" => SlotsFilled(turn'.conv)
    <3>1. row.flow = "awaiting_campus_clarification"
      BY <2>1, <2>3 DEF CampusMoves
    <3>2. CASE row.pendingParent
      BY <2>1, <2>3, <3>1, <3>2 DEF CampusMoves, CampusTurn
    <3>3. CASE ~row.pendingParent
      <4>1. turn.pc # "pendParent"
        BY <2>1, <2>3 DEF CampusMoves
      <4>2. CASE turn.pc = "matched"
        BY <2>1, <2>3, <3>1, <3>3, <4>2, ConvFields, <1>1
        DEF CampusMoves, CampusTurn, IInv, UniversityKept, SlotsFilled
      <4>3. turn.pc # "askGender"
        BY <2>1, <2>3, <3>1, <3>3 DEF CampusMoves, CampusTurn
      <4>4. turn.pc # "fire"
        BY <2>1, <2>3, <3>1, <3>3 DEF CampusMoves, CampusTurn, MayFire, LockHolds, Collecting
      <4> QED
        BY <2>3, <3>1, <3>3, <4>1, <4>2, <4>3, <4>4 DEF CampusTurn
    <3> QED
      BY <3>2, <3>3
  <2>4. ASSUME faults = 0, row'.flow = "awaiting_campus_clarification",
               turn'.pc \in {"route", "reread", "entity"}
        PROVE  turn'.conv.flow = row'.flow
    <3>1. row.flow = "awaiting_campus_clarification"
      BY <2>1, <2>4 DEF CampusMoves
    <3>2. CASE turn'.pc = "route"
      BY <1>1, <2>1, <3>2, ConvFields DEF TurnShape, TurnMoves
    <3>3. CASE turn'.pc # "route"
      BY <1>1, <2>1, <2>4, <3>1, <3>3, ConvFields
      DEF CampusMoves, TurnShape, TurnMoves, CampusTurn
    <3> QED
      BY <3>2, <3>3
  <2> QED
    BY <2>2, <2>3, <2>4 DEF CampusTurn
<1>3. CASE FireRecEngine
  <2>1. row'.flow = "recengine_running"
    BY <1>1, <1>3, FlowUnread DEF FireRecEngine, Fire
  <2> QED
    BY <2>1 DEF CampusTurn
<1>4. CASE ~StartTurn /\ ~GatherStep /\ ~FireRecEngine
  <2>1. /\ Unread(row') /\ faults' \in Nat /\ faults' >= faults
        /\ row'.flow = "awaiting_campus_clarification" => row'.flow = row.flow
        /\ turn' = turn \/ faults' # 0
    BY <1>4, OutsideTurn DEF IInv
  <2>2. faults' = 0 => faults = 0
    BY <1>1, <2>1
  <2> QED
    BY <2>1, <2>2 DEF CampusTurn, Unread, SlotsFilled
<1> QED
  BY <1>2, <1>3, <1>4

----------------------------------------------------------------------------
\* The limits hold initially.
LEMMA InitLimits == Init => Limits
BY IntentsAssumption, LinesAssumption
DEF Init, NewRow, ToldNothing, GatherInit, NoTurn, Limits, AnswersRemembered, SameAnswerCap,
    SendsLeft, TurnLeft, MaySpeak, LateSpeechBounded, CampusTurn, Counting, RecInit, NoRun

\* The limits are inductive beside IInv.
LEMMA NextLimits == IInv /\ Limits /\ [Next]_vars => Limits'
BY AnswersKept, SpeechKept, CampusKept DEF Limits

\* The limits hold in every reachable state, for any number of turns, keys,
\* attempts and faults and any routing table.
THEOREM LimitsInvariance == Spec => []Limits
BY InitLimits, NextLimits, Invariance, PTL DEF Spec

\* The same question is answered at most twice without another question or a
\* filled slot in between, also across restarts (the repeat cap of
\* _run_divergence).
THEOREM AnsweredTwice == Spec => []SameAnswerCap
<1>1. Limits => SameAnswerCap
  BY DEF Limits
<1> QED
  BY <1>1, LimitsInvariance, PTL

\* After an agent's message the bot gets out at most what the turn and the run
\* under way had left, a list of hotels each, and a copy for every send that
\* timed out (set_conversation_stopped cancels neither of them, and the send
\* loops never read the row), for lists of any length.
THEOREM LateSpeechIsBounded == Spec => []LateSpeechBounded
<1>1. Limits => LateSpeechBounded
  BY DEF Limits
<1> QED
  BY <1>1, LimitsInvariance, PTL

\* Between turns, the bot waits for a campus only of a parent it has stored,
\* when no fault fell between the two statements (_handle_parent_match).
THEOREM CampusHasParent == Spec => []CampusQuestionHasParent
<1>1. Limits => CampusQuestionHasParent
  BY DEF Limits, CampusTurn, CampusQuestionHasParent
<1> QED
  BY <1>1, LimitsInvariance, PTL
=============================================================================
