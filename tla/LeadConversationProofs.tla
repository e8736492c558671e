----------------------- MODULE LeadConversationProofs -----------------------
(***************************************************************************)
(* Proofs about LeadConversation: type correctness, and the safety         *)
(* invariants through the inductive invariant IInv.                        *)
(***************************************************************************)
EXTENDS LeadConversation, TLAPS

----------------------------------------------------------------------------
\* What the two copies of a row and the ways out of a step look like.
LEMMA CopiesTyped ==
    ASSUME NEW r \in Row
    PROVE  StartOf(r) \in Start /\ ConvOf(r) \in Conv
BY DEF Row, Start, Conv, StartOf, ConvOf

\* The row a first message creates is a row.
LEMMA NewRowTyped == NewRow \in Row
BY DEF NewRow, Row, FlowStates, Collecting

\* The free lock is a turn.
LEMMA NoTurnTyped == NoTurn \in Turn
BY CopiesTyped, NewRowTyped, LinesAssumption DEF NoTurn, Turn, TurnPCs

\* One more line of a list is counted within its bound.
LEMMA OneMoreLine ==
    ASSUME NEW n \in 0 .. Lines, n < Lines
    PROVE  n + 1 \in 0 .. Lines
BY LinesAssumption

\* process_message starts a turn, or none.
LEMMA AdmitTyped ==
    ASSUME NEW r \in Row
    PROVE  Admit(r) \in Turn
BY CopiesTyped, NoTurnTyped DEF Admit, Turn, TurnPCs

\* Moving on keeps the turn a turn.
LEMMA AtTyped ==
    ASSUME turn \in Turn, NEW pc \in TurnPCs
    PROVE  At(pc) \in Turn
BY NoTurnTyped DEF At, Turn

\* So does moving on with somewhere to go afterwards.
LEMMA AtThenTyped ==
    ASSUME turn \in Turn, NEW pc \in TurnPCs,
           NEW next \in {"idle", "reset", "settle", "clarified", "attributes"}
    PROVE  AtThen(pc, next) \in Turn
BY DEF AtThen, Turn

\* One row statement at a time.
LEMMA FlowTyped ==
    ASSUME row \in Row, NEW new \in FlowStates, SetFlow(new)
    PROVE  row' \in Row
BY DEF SetFlow, Row

\* update_conversation_state keeps the row a row on both branches.
LEMMA AdvanceTyped ==
    ASSUME row \in Row, NEW new \in FlowStates, NEW expected,
           NEW won \in Turn, NEW lost \in Turn, Advance(expected, new, won, lost)
    PROVE  row' \in Row /\ turn' \in Turn
BY FlowTyped DEF Advance

\* Forgetting the last answer keeps the history a history.
LEMMA ForgetTyped ==
    ASSUME told \in Told
    PROVE  Forget(told) \in Told
BY DEF Told, Forget

\* So does counting a message sent after a takeover.
LEMMA LateTyped ==
    ASSUME NEW t \in Told
    PROVE  Late(t) \in Told
<1>1. [t EXCEPT !.late = @ + 1] \in Told
  BY DEF Told
<1> QED
  BY <1>1 DEF Late

\* A message, or a line of the recommendation, keeps the history a history.
LEMMA SpeakTyped ==
    ASSUME told \in Told, Speak \/ (\E sent \in 0 .. Lines : SpeakPitch(sent))
    PROVE  told' \in Told
<1>1. ASSUME NEW t \in Told, NEW b \in BOOLEAN
      PROVE  [t EXCEPT !.pitches = IF b THEN @ + 1 ELSE @] \in Told
  BY DEF Told
<1>2. ASSUME NEW sent, SpeakPitch(sent) PROVE told' \in Told
  <2>1. told' = [Late(told) EXCEPT !.pitches = IF (sent = 0) THEN @ + 1 ELSE @]
    BY <1>2 DEF SpeakPitch
  <2>2. (sent = 0) \in BOOLEAN
    OBVIOUS
  <2> QED
    BY <1>1, <2>1, <2>2, LateTyped
<1> QED
  BY <1>2, LateTyped DEF Speak

\* So does a canned answer.
LEMMA AnswerTyped ==
    ASSUME told \in Told, NEW intent \in Intents \cup {NoIntent}, SpeakAnswer(intent)
    PROVE  told' \in Told
<1> DEFINE count == IF told.intent = intent THEN Late(told).answers + 1 ELSE 1
<1>1. count \in Nat
  BY LateTyped DEF Told
<1>2. told' = [Late(told) EXCEPT !.answers = count, !.intent = intent]
  BY DEF SpeakAnswer
<1> HIDE DEF count
<1> QED
  BY <1>1, <1>2, LateTyped DEF Told

----------------------------------------------------------------------------
\* The types of the turn's variables, one group of actions at a time.
TurnTyped == row \in Row /\ told \in Told /\ turn \in Turn

\* A turn begins with typed variables.
LEMMA AdmissionTyped ==
    ASSUME TurnTyped, TurnStarts \/ Backfill
    PROVE  TurnTyped'
<1>1. CASE TurnStarts
  <2>1. [NoTurn EXCEPT !.pc = "backfill"] \in Turn
    BY NoTurnTyped DEF Turn, TurnPCs
  <2> QED
    BY <1>1, <2>1, AdmitTyped DEF TurnStarts, TurnTyped
<1>2. CASE Backfill
  <2>1. row' \in Row
    BY <1>2 DEF Backfill, TurnTyped, Row
  <2> QED
    BY <1>2, <2>1, AdmitTyped, NoTurnTyped DEF Backfill, TurnTyped
<1> QED
  BY <1>1, <1>2

\* The constants the actions write are states of the turn and of the flow.
LEMMA PCsNamed ==
    /\ \A pc \in {"idle", "backfill", "route", "reread", "entity", "pendParent",
                  "matched", "askGender", "fire", "settle", "reset", "activate",
                  "classify", "clarified", "answer", "reanchor", "say", "pitch",
                  "escalate", "attributes"} : pc \in TurnPCs
    /\ \A f \in {"new", "awaiting_university", "awaiting_university_clarification",
                 "awaiting_campus_clarification", "awaiting_gender", "stopped",
                 "human_needed", "recengine_running", "completed"} : f \in FlowStates
BY DEF TurnPCs, FlowStates, Collecting, HumanOwned

\* Every way out of a step leaves a turn.
LEMMA WaysOutTyped ==
    ASSUME turn \in Turn,
           NEW next \in {"idle", "reset", "settle", "clarified", "attributes"}
    PROVE  /\ Saying(next) \in Turn /\ Escalating(next) \in Turn
           /\ At(next) \in Turn /\ At(turn.next) \in Turn
           /\ Fallback \in Turn
<1>1. turn.next \in TurnPCs /\ next \in TurnPCs
  BY DEF Turn, TurnPCs
<1> QED
  BY <1>1, PCsNamed, AtTyped, AtThenTyped DEF Saying, Escalating, Fallback

\* The hotel check and the gender extraction keep the types.
LEMMA RoutingTyped ==
    ASSUME TurnTyped, HotelNamed \/ PostCompletion \/ ExtractGender \/ ReadBack
    PROVE  TurnTyped'
<1> USE DEF TurnTyped
<1>1. CASE HotelNamed
  BY <1>1, AdvanceTyped, AtTyped, NoTurnTyped, PCsNamed DEF HotelNamed
<1>2. CASE PostCompletion
  BY <1>2, WaysOutTyped DEF PostCompletion
<1>3. CASE ExtractGender
  <2>1. row' \in Row
    BY <1>3 DEF ExtractGender, Row
  <2>2. ASSUME NEW t \in Turn, NEW b \in BOOLEAN, NEW e \in {"divergence", "activate"}
        PROVE  [t EXCEPT !.genderFilled = b, !.ifEmpty = e] \in Turn
    BY DEF Turn
  <2>3. PICK e \in {"divergence", "activate"}, named \in BOOLEAN :
             turn' = [At(IF named THEN "reread" ELSE "entity") EXCEPT
                         !.genderFilled = named, !.ifEmpty = e]
    BY <1>3 DEF ExtractGender, IfEmpty
  <2>4. At("reread") \in Turn /\ At("entity") \in Turn
    BY AtTyped, PCsNamed
  <2>5. At(IF named THEN "reread" ELSE "entity") \in Turn
    BY <2>4
  <2> QED
    BY <1>3, <2>1, <2>2, <2>3, <2>5 DEF ExtractGender
<1>4. CASE ReadBack
  <2>1. ASSUME NEW t \in Turn PROVE [t EXCEPT !.conv = ConvOf(row)] \in Turn
    BY CopiesTyped DEF Turn
  <2> QED
    BY <1>4, <2>1, AtTyped, PCsNamed DEF ReadBack
<1> QED
  BY <1>1, <1>2, <1>3, <1>4

\* The campus question and its answers keep the types.
LEMMA CampusTyped ==
    ASSUME TurnTyped, CampusMatched \/ CampusNotMatched \/ ParentMatched \/ PendParent
    PROVE  TurnTyped'
<1> USE DEF TurnTyped
<1>1. CASE CampusMatched
  <2>1. row' \in Row
    BY <1>1 DEF CampusMatched, Row
  <2> QED
    BY <1>1, <2>1, AtThenTyped, PCsNamed DEF CampusMatched
<1>2. CASE CampusNotMatched
  <2>1. row' \in Row
    BY <1>2 DEF CampusNotMatched, Row
  <2> QED
    BY <1>2, <2>1, WaysOutTyped DEF CampusNotMatched
<1>3. CASE ParentMatched
  <2>1. [row EXCEPT !.clarification = 0] \in Row
    BY DEF Row
  <2>2. ASSUME NEW r \in Row
        PROVE  [r EXCEPT !.flow = "awaiting_campus_clarification"] \in Row
    BY PCsNamed DEF Row
  <2>3. row' \in Row
    BY <1>3, <2>1, <2>2 DEF ParentMatched
  <2> QED
    BY <1>3, <2>3, AtTyped, WaysOutTyped, PCsNamed DEF ParentMatched
<1>4. CASE PendParent
  <2>1. row' \in Row
    BY <1>4 DEF PendParent, Row
  <2> QED
    BY <1>4, <2>1, WaysOutTyped DEF PendParent
<1> QED
  BY <1>1, <1>2, <1>3, <1>4

\* The university scan keeps the types.
LEMMA EntityTyped ==
    ASSUME TurnTyped,
           UniversityMatched \/ AmbiguousUniversity \/ OutOfCity \/ NoEntity
    PROVE  TurnTyped'
<1> USE DEF TurnTyped
<1>1. CASE UniversityMatched
  <2>1. row' \in Row
    BY <1>1 DEF UniversityMatched, Row
  <2> QED
    BY <1>1, <2>1, AtThenTyped, PCsNamed DEF UniversityMatched
<1>2. CASE AmbiguousUniversity
  BY <1>2, AdvanceTyped, WaysOutTyped, PCsNamed DEF AmbiguousUniversity
<1>3. CASE OutOfCity
  BY <1>3, AdvanceTyped, WaysOutTyped, PCsNamed DEF OutOfCity
<1>4. CASE NoEntity
  BY <1>4, AtTyped, WaysOutTyped, PCsNamed DEF NoEntity
<1> QED
  BY <1>1, <1>2, <1>3, <1>4

\* What follows a match keeps the types.
LEMMA MatchedTyped ==
    ASSUME TurnTyped, MatchedReadsBack \/ AskGender \/ NotReady \/ Settle \/ Reset
    PROVE  TurnTyped'
<1> USE DEF TurnTyped
<1>0. ASSUME NEW t \in Turn, NEW r \in Row PROVE [t EXCEPT !.conv = ConvOf(r)] \in Turn
  BY CopiesTyped DEF Turn
<1>1. CASE MatchedReadsBack
  BY <1>0, <1>1, AtTyped, PCsNamed DEF MatchedReadsBack
<1>2. CASE AskGender
  <2>1. turn.next \in {"idle", "reset", "settle", "clarified", "attributes"}
    BY DEF Turn
  <2> QED
    BY <1>2, <2>1, AdvanceTyped, WaysOutTyped, PCsNamed DEF AskGender
<1>3. CASE NotReady
  BY <1>3, WaysOutTyped DEF NotReady
<1>4. ResetDivergence(row) \in Row
  BY DEF ResetDivergence, Row
<1>5. CASE Settle
  BY <1>0, <1>4, <1>5, ForgetTyped, AtThenTyped, WaysOutTyped, NoTurnTyped, PCsNamed
  DEF Settle
<1>6. CASE Reset
  BY <1>4, <1>6, ForgetTyped, NoTurnTyped DEF Reset
<1> QED
  BY <1>1, <1>2, <1>3, <1>5, <1>6

\* The divergence pipeline keeps the types.
LEMMA DivergenceTyped ==
    ASSUME TurnTyped,
           \/ Activate \/ ClassifierFails \/ NearMiss
           \/ \E intent \in Intents : Diverge(intent)
           \/ Answer \/ Reanchor \/ Clarified
    PROVE  TurnTyped'
<1> USE DEF TurnTyped
<1>1. CASE Activate
  BY <1>1, AdvanceTyped, WaysOutTyped, NoTurnTyped, PCsNamed DEF Activate
<1>2. CASE ClassifierFails
  BY <1>2, WaysOutTyped, NoTurnTyped DEF ClassifierFails
<1>3. CASE NearMiss
  BY <1>3, WaysOutTyped, NoTurnTyped DEF NearMiss
<1>4. ASSUME NEW intent \in Intents, Diverge(intent) PROVE TurnTyped'
  <2>1. RepeatCount(intent) \in Nat
    BY DEF RepeatCount, Turn, Start
  <2>2. row' \in Row
    BY <1>4, <2>1 DEF Diverge, RecordDivergence, Row
  <2>3. turn' \in Turn
    BY <1>4, AtTyped, WaysOutTyped, NoTurnTyped, PCsNamed DEF Diverge
  <2> QED
    BY <1>4, <2>2, <2>3, ForgetTyped DEF Diverge
<1>5. CASE Answer
  <2>1. row.intent \in Intents \cup {NoIntent}
    BY DEF Row
  <2> QED
    BY <1>5, <2>1, AnswerTyped, AtTyped, PCsNamed DEF Answer
<1>6. CASE Reanchor
  BY <1>6, AdvanceTyped, NoTurnTyped, PCsNamed DEF Reanchor
<1>7. CASE Clarified
  <2>1. [row EXCEPT !.clarification = @ + 1] \in Row
    BY DEF Row
  <2>2. ASSUME NEW r \in Row
        PROVE  [r EXCEPT !.flow = "awaiting_university_clarification"] \in Row
    BY PCsNamed DEF Row
  <2> QED
    BY <1>7, <2>1, <2>2, NoTurnTyped DEF Clarified
<1> QED
  BY <1>1, <1>2, <1>3, <1>4, <1>5, <1>6, <1>7

\* Attribute companions keep the row a row.
LEMMA MarkTyped ==
    ASSUME row \in Row, MarkCompanions \/ UNCHANGED row
    PROVE  row' \in Row
BY DEF Row, MarkCompanions

\* Sends and escalations keep the types.
LEMMA SendsTyped ==
    ASSUME TurnTyped, Say \/ PitchLine \/ Pitched \/ Escalate \/ WriteAttributes
    PROVE  TurnTyped'
<1> USE DEF TurnTyped
<1>1. CASE Say
  BY <1>1, SpeakTyped, WaysOutTyped DEF Say
<1>2. CASE PitchLine
  <2>1. [turn EXCEPT !.sent = @ + 1] \in Turn
    BY <1>2, OneMoreLine DEF PitchLine, Turn
  <2> QED
    BY <1>2, <2>1, SpeakTyped DEF PitchLine
<1>5. CASE Pitched
  BY <1>5, AtTyped, WaysOutTyped, PCsNamed DEF Pitched
<1>3. CASE Escalate
  BY <1>3, FlowTyped, WaysOutTyped, PCsNamed DEF Escalate, SetHumanNeeded
<1>4. CASE WriteAttributes
  BY <1>4, MarkTyped, NoTurnTyped DEF WriteAttributes
<1> QED
  BY <1>1, <1>2, <1>3, <1>4, <1>5

----------------------------------------------------------------------------
\* The types of the recommendation engine.
LEMMA ToRunTyped ==
    ASSUME RecTypeOK, NEW k \in Keys, NEW a \in Tries, NEW pc \in RunPCs, ToRun(k, a, pc)
    PROVE  run' \in [Keys -> [Tries -> Run]]
<1>1. ASSUME NEW r \in Run PROVE [r EXCEPT !.pc = pc] \in Run
  BY DEF Run
<1>2. run \in [Keys -> [Tries -> Run]]
  BY DEF RecTypeOK
<1>3. [run[k][a] EXCEPT !.pc = pc] \in Run
  BY <1>1, <1>2
<1>4. [run[k] EXCEPT ![a] = [run[k][a] EXCEPT !.pc = pc]] \in [Tries -> Run]
  BY <1>2, <1>3
<1> QED
  BY <1>2, <1>4 DEF ToRun

\* The constants the actions write are states of a run.
LEMMA RunPCsNamed ==
    \A pc \in {"none", "starting", "created", "inserted", "selecting", "resolving",
               "posting", "delivering", "escalating", "attributes", "done"} : pc \in RunPCs
BY DEF RunPCs

\* A started ladder is a ladder.
LEMMA StartLadderTyped ==
    ASSUME RecTypeOK, NEW k \in Keys, StartLadder(k)
    PROVE  ladder' \in [Keys -> Ladder]
BY DEF RecTypeOK, StartLadder, Ladder

\* The retry ladder keeps the types.
LEMMA LadderStepTyped ==
    ASSUME row \in Row, told \in Told, RecTypeOK, NEW k \in Keys, LadderStep(k)
    PROVE  row' \in Row /\ told' \in Told /\ RecTypeOK'
<1>1. CASE PostStart(k)
  <2>1. ladder' \in [Keys -> Ladder]
    BY <1>1 DEF PostStart, RecTypeOK, Ladder
  <2>2. ladder[k].attempt \in Tries
    BY DEF RecTypeOK, Ladder
  <2>3. run' \in [Keys -> [Tries -> Run]]
    BY <1>1, <2>2, ToRunTyped, RunPCsNamed DEF PostStart, RecTypeOK
  <2> QED
    BY <1>1, <2>1, <2>3 DEF PostStart, RecTypeOK
<1>2. CASE PollLog(k)
  <2>1. ladder \in [Keys -> Ladder] /\ ladder[k] \in Ladder
    BY DEF RecTypeOK
  <2>2. ASSUME NEW l \in Ladder, NEW n \in Tries
        PROVE  /\ [l EXCEPT !.pc = "done"] \in Ladder
               /\ [l EXCEPT !.pc = "escalate"] \in Ladder
               /\ [pc |-> "post", attempt |-> n] \in Ladder
    BY DEF Ladder
  <2>3. ASSUME ladder[k].attempt < Attempts
        PROVE  [pc |-> "post", attempt |-> ladder[k].attempt + 1] \in Ladder
    <3>1. ladder[k].attempt + 1 \in Tries
      BY <2>1, <2>3, AttemptsAssumption DEF Ladder, Tries
    <3> QED
      BY <2>2, <2>1, <3>1
  <2>4. ASSUME NEW l \in Ladder PROVE [ladder EXCEPT ![k] = l] \in [Keys -> Ladder]
    BY <2>1
  <2>5. \/ ladder' = [ladder EXCEPT ![k] = [ladder[k] EXCEPT !.pc = "done"]]
        \/ ladder' = [ladder EXCEPT ![k] = [ladder[k] EXCEPT !.pc = "escalate"]]
        \/ /\ ladder[k].attempt < Attempts
           /\ ladder' = [ladder EXCEPT ![k] =
                           [pc |-> "post", attempt |-> ladder[k].attempt + 1]]
    BY <1>2 DEF PollLog
  <2>6. ladder[k].attempt \in Tries
    BY <2>1 DEF Ladder
  <2>7. ladder' \in [Keys -> Ladder]
    BY <2>1, <2>2, <2>3, <2>4, <2>5, <2>6
  <2> QED
    BY <1>2, <2>7 DEF PollLog, RecTypeOK
<1>3. CASE LadderEscalates(k)
  <2>1. ladder' \in [Keys -> Ladder]
    BY <1>3 DEF LadderEscalates, RecTypeOK, Ladder
  <2> QED
    BY <1>3, <2>1, FlowTyped, PCsNamed DEF LadderEscalates, SetHumanNeeded, RecTypeOK
<1> QED
  BY <1>1, <1>2, <1>3 DEF LadderStep

\* A run keeps the types.
LEMMA RunStepTyped ==
    ASSUME row \in Row, told \in Told, RecTypeOK,
           NEW k \in Keys, NEW a \in Tries, RunStep(k, a)
    PROVE  row' \in Row /\ told' \in Told /\ RecTypeOK'
<1>0. ASSUME NEW pc \in RunPCs, ToRun(k, a, pc)
      PROVE  run' \in [Keys -> [Tries -> Run]]
  BY <1>0, ToRunTyped
<1>1. CASE StartHandler(k, a)
  BY <1>0, <1>1, RunPCsNamed DEF StartHandler, RecTypeOK
<1>2. CASE InsertProcessing(k, a)
  <2>1. log' \in [Keys -> LogStatus]
    BY <1>2 DEF InsertProcessing, RecTypeOK, LogStatus
  <2> QED
    BY <1>0, <1>2, <2>1, RunPCsNamed DEF InsertProcessing, RecTypeOK
<1>3. CASE SkipIfResolved(k, a)
  BY <1>0, <1>3, RunPCsNamed DEF SkipIfResolved, RecTypeOK
<1>4. CASE SelectHotels(k, a)
  <2>1. PICK result \in Results :
           run' = [run EXCEPT ![k][a].pc = "resolving", ![k][a].result = result]
    BY <1>4 DEF SelectHotels
  <2>2. ASSUME NEW r \in Run
        PROVE  /\ [r EXCEPT !.pc = "resolving"] \in Run
               /\ [r EXCEPT !.result = result] \in Run
    BY RunPCsNamed DEF Run
  <2>3. run' \in [Keys -> [Tries -> Run]]
    BY <2>1, <2>2 DEF RecTypeOK
  <2> QED
    BY <1>4, <2>3 DEF SelectHotels, RecTypeOK
<1>5. CASE ResolveLog(k, a)
  <2>1. log' \in [Keys -> LogStatus]
    BY <1>5 DEF ResolveLog, RecTypeOK, LogStatus
  <2> QED
    BY <1>0, <1>5, <2>1, RunPCsNamed DEF ResolveLog, RecTypeOK
<1>6. CASE LoseCallback(k, a)
  BY <1>0, <1>6, RunPCsNamed DEF LoseCallback, RecTypeOK
<1>7. CASE Callback(k, a)
  BY <1>0, <1>7, FlowTyped, PCsNamed, RunPCsNamed DEF Callback, RecTypeOK
<1>8. CASE SendLine(k, a)
  <2>1. run[k][a] \in Run /\ run[k][a].sent \in 0 .. Lines
    BY DEF RecTypeOK, Run
  <2>2. [run[k][a] EXCEPT !.sent = @ + 1] \in Run
    BY <1>8, <2>1, OneMoreLine DEF SendLine, Unsent, Run
  <2>3. run' \in [Keys -> [Tries -> Run]]
    BY <1>8, <2>2 DEF SendLine, RecTypeOK
  <2> QED
    BY <1>8, <2>1, <2>3, SpeakTyped DEF SendLine, RecTypeOK
<1>11. CASE Delivered(k, a)
  BY <1>0, <1>11, RunPCsNamed DEF Delivered, RecTypeOK
<1>9. CASE CallbackEscalates(k, a)
  BY <1>0, <1>9, FlowTyped, PCsNamed, RunPCsNamed
  DEF CallbackEscalates, SetHumanNeeded, RecTypeOK
<1>10. CASE CallbackWritesAttributes(k, a)
  BY <1>0, <1>10, MarkTyped, RunPCsNamed DEF CallbackWritesAttributes, RecTypeOK
<1> QED
  BY <1>1, <1>2, <1>3, <1>4, <1>5, <1>6, <1>7, <1>8, <1>9, <1>10, <1>11 DEF RunStep

\* So does the death of the process.
LEMMA RestartTyped ==
    ASSUME RecTypeOK, RecRestart
    PROVE  RecTypeOK'
<1>1. ladder' \in [Keys -> Ladder]
  BY DEF RecTypeOK, RecRestart, Ladder
<1>2. ASSUME NEW r \in Run PROVE [r EXCEPT !.pc = "done"] \in Run
  BY RunPCsNamed DEF Run
<1>3. run' \in [Keys -> [Tries -> Run]]
  BY <1>2 DEF RecTypeOK, RecRestart
<1> QED
  BY <1>1, <1>3 DEF RecTypeOK, RecRestart

----------------------------------------------------------------------------
\* Every step of a turn keeps the types.
LEMMA TurnStepTyped ==
    ASSUME TurnTyped, inbound \in Nat, TurnStep
    PROVE  TurnTyped' /\ inbound' \in Nat
<1>1. TurnTyped'
  BY AdmissionTyped, RoutingTyped, CampusTyped, EntityTyped, MatchedTyped,
     DivergenceTyped, SendsTyped DEF TurnStep
<1>2. UNCHANGED inbound
  BY DEF TurnStep, Backfill, HotelNamed, PostCompletion, ExtractGender, ReadBack,
         CampusMatched, CampusNotMatched, UniversityMatched, ParentMatched, PendParent,
         AmbiguousUniversity, OutOfCity, NoEntity, MatchedReadsBack, AskGender,
         NotReady, Settle, Reset, Activate, ClassifierFails, NearMiss, Diverge,
         Answer, Reanchor, Clarified, Say, PitchLine, Pitched, Escalate, WriteAttributes
<1> QED
  BY <1>1, <1>2

\* The other writers of the row keep the types.
LEMMA OthersTyped ==
    ASSUME TypeOK, Others
    PROVE  TypeOK'
<1> USE DEF TypeOK, GatherTypeOK
<1>1. CASE Takeover
  <2>1. row' \in Row
    BY <1>1, PCsNamed DEF Takeover, Row
  <2>2. told' \in Told
    BY <1>1 DEF Takeover, Told
  <2> QED
    BY <1>1, <2>1, <2>2 DEF Takeover, recVars, gatherVars, RecTypeOK
<1>2. ASSUME NEW known \in BOOLEAN, CrmSetsGender(known) PROVE TypeOK'
  <2>1. row' \in Row
    BY <1>2 DEF CrmSetsGender, Row
  <2> QED
    BY <1>2, <2>1 DEF CrmSetsGender, recVars, gatherVars, RecTypeOK
<1>3. CASE CrmSetsUniversity
  <2>1. row' \in Row
    BY <1>3 DEF CrmSetsUniversity, Row
  <2> QED
    BY <1>3, <2>1 DEF CrmSetsUniversity, recVars, gatherVars, RecTypeOK
<1>4. CASE TaggerFills
  <2>1. row' \in Row
    BY <1>4 DEF TaggerFills, Row
  <2> QED
    BY <1>4, <2>1 DEF TaggerFills, recVars, gatherVars, RecTypeOK
<1>5. CASE TurnRaises
  BY <1>5, NoTurnTyped DEF TurnRaises, recVars, RecTypeOK
<1>6. CASE Restart
  BY <1>6, NoTurnTyped, RestartTyped DEF Restart
<1>7. CASE TaskRaises
  <2>1. ASSUME NEW k \in Keys, LadderRaises(k) PROVE RecTypeOK'
    BY <2>1 DEF LadderRaises, RecTypeOK, Ladder
  <2>2. ASSUME NEW k \in Keys, NEW a \in Tries, RunRaises(k, a) PROVE RecTypeOK'
    BY <2>2, ToRunTyped, RunPCsNamed DEF RunRaises, RecTypeOK
  <2> QED
    BY <1>7, <2>1, <2>2 DEF TaskRaises, gatherVars
<1>8. CASE SendTimesOut
  BY <1>8, SpeakTyped DEF SendTimesOut, recVars, gatherVars, RecTypeOK
<1> QED
  BY <1>1, <1>2, <1>3, <1>4, <1>5, <1>6, <1>7, <1>8 DEF Others

\* The initial state is typed.
LEMMA InitTyped == Init => TypeOK
BY NewRowTyped, NoTurnTyped, RunPCsNamed, AttemptsAssumption, LinesAssumption
DEF Init, TypeOK, ToldNothing, Told, RecInit, RecTypeOK, Ladder, Tries, Run, NoRun, LogStatus,
    GatherInit, GatherTypeOK

\* Every step keeps the types.
LEMMA NextTyped == TypeOK /\ [Next]_vars => TypeOK'
<1> SUFFICES ASSUME TypeOK, [Next]_vars PROVE TypeOK'
  OBVIOUS
<1> USE DEF TypeOK, GatherTypeOK
<1>1. CASE StartTurn
  BY <1>1, AdmissionTyped DEF StartTurn, TurnStarts, TurnTyped, recVars, RecTypeOK
<1>2. CASE GatherStep
  BY <1>2, TurnStepTyped DEF GatherStep, TurnTyped, recVars, RecTypeOK
<1>3. CASE FireRecEngine
  <2>1. PICK k \in Keys : Fire(k)
    BY <1>3 DEF FireRecEngine
  <2>2. row' \in Row /\ turn' \in Turn /\ ladder' \in [Keys -> Ladder]
    BY <2>1, FlowTyped, PCsNamed, WaysOutTyped, StartLadderTyped DEF Fire
  <2> QED
    BY <1>3, <2>1, <2>2 DEF FireRecEngine, Fire, RecTypeOK
<1>4. ASSUME NEW k \in Keys, Ladders(k) PROVE TypeOK'
  BY <1>4, LadderStepTyped DEF Ladders, gatherVars
<1>5. ASSUME NEW k \in Keys, NEW a \in Tries, Runs(k, a) PROVE TypeOK'
  BY <1>5, RunStepTyped DEF Runs, gatherVars
<1>6. CASE Others
  BY <1>6, OthersTyped
<1>7. CASE UNCHANGED vars
  BY <1>7 DEF vars, RecTypeOK
<1> QED
  BY <1>1, <1>2, <1>3, <1>4, <1>5, <1>6, <1>7 DEF Next

\* Every variable keeps its type, whatever interleaving of turns, runs and
\* outside writers (all of LeadConversation's actions).
THEOREM TypeCorrect == Spec => []TypeOK
BY InitTyped, NextTyped, PTL DEF Spec

----------------------------------------------------------------------------
\* What a step reads of a record after an update of it.
LEMMA AtFields ==
    ASSUME turn \in Turn, NEW pc \in TurnPCs, pc # "idle"
    PROVE  /\ At(pc).pc = pc
           /\ At(pc).next = turn.next
           /\ At(pc).start = turn.start
           /\ At(pc).conv = turn.conv
           /\ At(pc).genderFilled = turn.genderFilled
           /\ At(pc).sent = turn.sent
BY DEF At, Turn

\* AtThen changes the counter and the continuation only.
LEMMA AtThenFields ==
    ASSUME turn \in Turn, NEW pc, NEW next
    PROVE  /\ AtThen(pc, next).pc = pc
           /\ AtThen(pc, next).next = next
           /\ AtThen(pc, next).start = turn.start
           /\ AtThen(pc, next).conv = turn.conv
           /\ AtThen(pc, next).genderFilled = turn.genderFilled
           /\ AtThen(pc, next).sent = turn.sent
BY DEF AtThen, Turn

\* The free lock holds no copy of a filled row.
LEMMA NoTurnFields ==
    /\ NoTurn.pc = "idle"
    /\ NoTurn.next = "idle"
    /\ NoTurn.sent = 0
    /\ NoTurn.conv.university = FALSE
    /\ At("idle") = NoTurn
BY DEF NoTurn, At, ConvOf, NewRow

\* The copy of a row agrees with it.
LEMMA ConvFields ==
    ASSUME NEW r \in Row
    PROVE  /\ ConvOf(r).flow = r.flow
           /\ ConvOf(r).university = r.university
           /\ ConvOf(r).gender = r.gender
BY DEF ConvOf

\* An admitted turn has fresh copies of a row the bot may work on.
LEMMA AdmitFields ==
    ASSUME NEW r \in Row
    PROVE  \/ Admit(r) = NoTurn
           \/ /\ Admit(r).pc = "route"
              /\ Admit(r).next = "idle" /\ Admit(r).sent = 0
              /\ Admit(r).start.flow = r.flow
              /\ Admit(r).conv = ConvOf(r)
              /\ r.flow \in Collecting \cup {"completed"}
BY DEF Admit, NoTurn, StartOf, Row, FlowStates

\* A change of flow state leaves the slots alone.
LEMMA FlowFields ==
    ASSUME row \in Row, NEW new, SetFlow(new)
    PROVE  /\ row'.flow = new
           /\ row'.university = row.university
           /\ row'.gender = row.gender
           /\ row'.genderByHuman = row.genderByHuman
BY DEF SetFlow, Row

\* What a turn's step can do to the flow state: nothing; hand it to a human;
\* or move it on, having found it in the state that one of the copies names.
FlowMoves ==
    \/ row'.flow = row.flow
    \/ row'.flow = "human_needed" /\ turn.pc = "escalate"
    \/ /\ row'.flow \in Collecting \cup {"completed"}
       /\ row'.flow = "awaiting_gender" => turn.pc = "askGender"
       /\ \/ row.flow = turn.start.flow /\ turn.pc \in {"activate", "reanchor"}
          \/ row.flow = turn.start.flow /\ turn.pc = "route" /\ row'.flow = "completed"
          \/ row.flow = turn.conv.flow /\ turn.pc \in {"entity", "askGender"}
          \/ row.flow = "awaiting_university" /\ turn.pc = "clarified"

\* Slots are only ever filled; the mark of a human's gender is overwritten
\* only when attributes are written.
SlotMoves ==
    /\ row.university => row'.university
    /\ row.gender => row'.gender
    /\ row.genderByHuman /\ turn.pc # "attributes" => row'.genderByHuman

\* Where the turn's program counter and copies come from.
TurnMoves ==
    /\ turn'.pc \in {"reread", "entity", "pendParent", "matched", "askGender"}
       => Extracting
    /\ turn'.pc \in {"classify", "answer", "activate", "reanchor"}
       => Extracting \/ turn.pc \in {"classify", "answer"}
    /\ turn'.pc = "matched" => row'.university
    /\ turn'.pc = "askGender" => turn.pc = "matched"
    /\ turn'.pc = "route"
       => /\ row'.flow = row.flow
          /\ turn'.start.flow = row'.flow
          /\ turn'.conv = ConvOf(row')
          /\ row'.flow \in Collecting \cup {"completed"}
    /\ turn'.pc \in {"idle", "backfill", "route"} \/ turn'.start = turn.start
    /\ turn'.pc = "fire"
       => /\ turn'.conv = ConvOf(row)
          /\ row'.flow = row.flow /\ row'.gender = row.gender
          /\ Extracting \/ turn.pc = "settle"
    /\ \/ turn'.conv = turn.conv
       \/ ~turn'.conv.university /\ turn'.pc \in {"idle", "backfill"}
       \/ turn'.conv = ConvOf(row') /\ turn'.pc = "route"
       \/ turn'.conv = ConvOf(row) /\ turn'.pc = "fire"
       \/ turn'.conv = ConvOf(row) /\ turn.pc = "reread" /\ row' = row
    /\ turn'.pc = "reread" => turn'.genderFilled
    /\ turn'.pc \in {"entity", "pendParent", "matched", "askGender"}
       => \/ turn'.genderFilled = turn.genderFilled
          \/ turn.pc = "route"
    /\ \/ turn'.pc = "pitch"
       \/ turn'.next = "attributes"
       => \/ turn.pc = "pitch"
          \/ turn.next = "attributes"
          \/ turn.pc = "route" /\ turn.start.flow = "completed"
          \/ row'.flow = "completed"
    /\ turn'.pc = "attributes" => turn.pc = "pitch" \/ turn.next = "attributes"
    /\ turn'.next = "attributes"
       => \/ turn.pc = "pitch" /\ turn'.pc = "escalate"
          \/ /\ turn.next = "attributes" /\ turn.pc # "attributes"
             /\ turn.pc = "escalate" => turn'.pc = "attributes"

TurnShape == FlowMoves /\ SlotMoves /\ TurnMoves /\ told'.pitches = told.pitches

\* A turn begins with fresh copies.
LEMMA AdmissionShape ==
    ASSUME TurnTyped, TurnStarts \/ Backfill
    PROVE  TurnShape
<1> USE NoTurnFields DEF TurnTyped
<1>1. CASE TurnStarts
  BY <1>1, AdmitFields DEF TurnStarts, TurnShape, FlowMoves, SlotMoves, TurnMoves, NoTurn
<1>2. CASE Backfill
  <2>1. /\ row' \in Row /\ row'.flow = row.flow /\ row'.university = row.university
        /\ row'.gender = row.gender /\ row'.genderByHuman = row.genderByHuman
    BY <1>2 DEF Backfill, Row
  <2> QED
    BY <1>2, <2>1, AdmitFields DEF Backfill, TurnShape, FlowMoves, SlotMoves, TurnMoves
<1> QED
  BY <1>1, <1>2

\* The hotel check and the gender extraction have the shape.
LEMMA RoutingShape ==
    ASSUME TurnTyped, HotelNamed \/ PostCompletion \/ ExtractGender \/ ReadBack
    PROVE  TurnShape
<1> USE NoTurnFields, AtFields, AtThenFields, FlowFields, PCsNamed
    DEF TurnTyped, TurnShape, FlowMoves, SlotMoves, TurnMoves
<1>1. CASE HotelNamed
  BY <1>1 DEF HotelNamed, Advance, LockHolds
<1>2. CASE PostCompletion
  BY <1>2 DEF PostCompletion, Escalating
<1>3. CASE ExtractGender
  <2>1. /\ row'.flow = row.flow /\ row'.university = row.university
        /\ row'.genderByHuman = row.genderByHuman
        /\ row.gender => row'.gender
    BY <1>3 DEF ExtractGender, Row
  <2>2. ASSUME NEW t \in Turn, NEW b \in BOOLEAN, NEW e
        PROVE  LET u == [t EXCEPT !.genderFilled = b, !.ifEmpty = e] IN
               /\ u.pc = t.pc /\ u.next = t.next /\ u.start = t.start /\ u.conv = t.conv
               /\ u.genderFilled = b
    BY DEF Turn
  <2>3. PICK e \in {"divergence", "activate"}, named \in BOOLEAN :
             turn' = [At(IF named THEN "reread" ELSE "entity") EXCEPT
                         !.genderFilled = named, !.ifEmpty = e]
    BY <1>3 DEF ExtractGender, IfEmpty
  <2>4. At("reread") \in Turn /\ At("entity") \in Turn
    BY AtTyped, PCsNamed
  <2>5. turn.pc = "route" /\ Extracting /\ told' = told
    BY <1>3 DEF ExtractGender, Extracting
  <2>6. CASE named
    BY <2>1, <2>2, <2>3, <2>4, <2>5, <2>6
  <2>7. CASE ~named
    BY <2>1, <2>2, <2>3, <2>4, <2>5, <2>7
  <2> QED
    BY <2>6, <2>7
<1>4. CASE ReadBack
  BY <1>4 DEF ReadBack, Extracting
<1> QED
  BY <1>1, <1>2, <1>3, <1>4

\* The campus question has the shape.
LEMMA CampusShape ==
    ASSUME TurnTyped, CampusMatched \/ CampusNotMatched \/ ParentMatched \/ PendParent
    PROVE  TurnShape
<1> USE NoTurnFields, AtFields, AtThenFields, FlowFields, PCsNamed
    DEF TurnTyped, TurnShape, FlowMoves, SlotMoves, TurnMoves, Saying, Escalating
<1>1. CASE CampusMatched
  BY <1>1 DEF CampusMatched, Row, Extracting
<1>2. CASE CampusNotMatched
  BY <1>2 DEF CampusNotMatched, Row, Extracting, Fallback
<1>3. CASE ParentMatched
  <2> DEFINE c == [row EXCEPT !.clarification = 0]
             f == [c EXCEPT !.flow = "awaiting_campus_clarification"]
  <2>1. /\ c.flow = row.flow /\ f.flow = "awaiting_campus_clarification"
        /\ c.university = row.university /\ f.university = row.university
        /\ c.gender = row.gender /\ f.gender = row.gender
        /\ c.genderByHuman = row.genderByHuman /\ f.genderByHuman = row.genderByHuman
    BY DEF Row
  <2>2. row' = c \/ (row.flow = turn.conv.flow /\ row' = f)
    BY <1>3 DEF ParentMatched, LockHolds
  <2> HIDE DEF c, f
  <2>4. /\ SlotMoves
        /\ \/ row'.flow = row.flow
           \/ row.flow = turn.conv.flow /\ row'.flow = "awaiting_campus_clarification"
    BY <2>1, <2>2
  <2>3. "awaiting_campus_clarification" \in Collecting
    BY DEF Collecting
  <2> QED
    BY <1>3, <2>3, <2>4 DEF ParentMatched, Extracting
<1>4. CASE PendParent
  BY <1>4 DEF PendParent, Row
<1> QED
  BY <1>1, <1>2, <1>3, <1>4

\* The university scan has the shape.
LEMMA EntityShape ==
    ASSUME TurnTyped,
           UniversityMatched \/ AmbiguousUniversity \/ OutOfCity \/ NoEntity
    PROVE  TurnShape
<1> USE NoTurnFields, AtFields, AtThenFields, FlowFields, PCsNamed
    DEF TurnTyped, TurnShape, FlowMoves, SlotMoves, TurnMoves, Saying, Escalating
<1>1. CASE UniversityMatched
  BY <1>1 DEF UniversityMatched, Row, Extracting
<1>2. CASE AmbiguousUniversity
  BY <1>2 DEF AmbiguousUniversity, Advance, LockHolds, Collecting
<1>3. CASE OutOfCity
  BY <1>3 DEF OutOfCity, Advance, LockHolds, Collecting
<1>4. CASE NoEntity
  BY <1>4 DEF NoEntity, Fallback, Extracting
<1> QED
  BY <1>1, <1>2, <1>3, <1>4

\* Clearing the divergence memory leaves flow state and slots alone.
LEMMA ResetFields ==
    ASSUME row \in Row
    PROVE  /\ ResetDivergence(row).flow = row.flow
           /\ ResetDivergence(row).university = row.university
           /\ ResetDivergence(row).gender = row.gender
           /\ ResetDivergence(row).genderByHuman = row.genderByHuman
BY DEF ResetDivergence, Row

\* Forgetting an answer leaves the recommendations alone.
LEMMA ForgetFields ==
    ASSUME told \in Told
    PROVE  Forget(told).pitches = told.pitches
BY DEF Forget, Told

\* The continuations of a turn.
LEMMA NextNamed ==
    ASSUME turn \in Turn
    PROVE  turn.next \in {"idle", "reset", "settle", "clarified", "attributes"}
BY DEF Turn

\* Re-reading conv changes conv only.
LEMMA ConvSet ==
    ASSUME NEW t \in Turn, NEW c
    PROVE  LET u == [t EXCEPT !.conv = c] IN
           /\ u.pc = t.pc /\ u.next = t.next /\ u.start = t.start
           /\ u.conv = c /\ u.genderFilled = t.genderFilled /\ u.sent = t.sent
BY DEF Turn

\* What follows a match has the shape.
LEMMA MatchedShape ==
    ASSUME TurnTyped, MatchedReadsBack \/ AskGender \/ NotReady \/ Settle \/ Reset
    PROVE  TurnShape
<1> USE NoTurnFields, AtFields, AtThenFields, FlowFields, PCsNamed, NextNamed
    DEF TurnTyped, TurnShape, FlowMoves, SlotMoves, TurnMoves, Saying, Escalating
<1>1. CASE MatchedReadsBack
  BY <1>1, ConvSet, AtTyped DEF MatchedReadsBack, Extracting
<1>2. CASE AskGender
  BY <1>2 DEF AskGender, Advance, LockHolds, Collecting
<1>3. CASE NotReady
  BY <1>3 DEF NotReady
<1>4. CASE Settle
  <2>1. ConvOf(row') = ConvOf(row)
    BY <1>4 DEF Settle, ResetDivergence, Row, ConvOf
  <2>2. AtThen("fire", "idle") \in Turn
    BY AtThenTyped
  <2> QED
    BY <1>4, <2>1, <2>2, ConvSet, ResetFields, ForgetFields DEF Settle
<1>5. CASE Reset
  BY <1>5, ResetFields, ForgetFields DEF Reset
<1> QED
  BY <1>1, <1>2, <1>3, <1>4, <1>5

\* The divergence pipeline has the shape.
LEMMA DivergenceShape ==
    ASSUME TurnTyped,
           \/ Activate \/ ClassifierFails \/ NearMiss
           \/ \E intent \in Intents : Diverge(intent)
           \/ Answer \/ Reanchor \/ Clarified
    PROVE  TurnShape
<1> USE NoTurnFields, AtFields, AtThenFields, FlowFields, PCsNamed, NextNamed
    DEF TurnTyped, TurnShape, FlowMoves, SlotMoves, TurnMoves, Saying, Escalating
<1>1. CASE Activate
  BY <1>1 DEF Activate, Advance, LockHolds, Collecting
<1>2. CASE ClassifierFails
  BY <1>2 DEF ClassifierFails
<1>3. CASE NearMiss
  BY <1>3 DEF NearMiss
<1>4. ASSUME NEW intent \in Intents, Diverge(intent) PROVE TurnShape
  <2>1. /\ row'.flow = row.flow /\ row'.university = row.university
        /\ row'.gender = row.gender /\ row'.genderByHuman = row.genderByHuman
    BY <1>4 DEF Diverge, RecordDivergence, Row
  <2>2. told'.pitches = told.pitches
    BY <1>4, ForgetFields DEF Diverge
  <2> QED
    BY <1>4, <2>1, <2>2 DEF Diverge
<1>5. CASE Answer
  <2>1. told'.pitches = told.pitches
    BY <1>5, LateTyped DEF Answer, SpeakAnswer, Late, Told
  <2> QED
    BY <1>5, <2>1 DEF Answer
<1>6. CASE Reanchor
  BY <1>6 DEF Reanchor, Advance, LockHolds, Collecting
<1>7. CASE Clarified
  BY <1>7 DEF Clarified, Row, LockHolds, Collecting
<1> QED
  BY <1>1, <1>2, <1>3, <1>4, <1>5, <1>6, <1>7

\* A message is no recommendation.
LEMMA SpeakFields ==
    ASSUME told \in Told, Speak \/ UNCHANGED told
    PROVE  told'.pitches = told.pitches
BY DEF Speak, Late, Told

\* Attribute companions leave flow state and slots alone.
LEMMA MarkFields ==
    ASSUME row \in Row, MarkCompanions \/ UNCHANGED row
    PROVE  /\ row'.flow = row.flow
           /\ row'.university = row.university
           /\ row'.gender = row.gender
BY DEF MarkCompanions, Row

\* Sends and escalations have the shape.
LEMMA SendsShape ==
    ASSUME TurnTyped, Say \/ PitchLine \/ Pitched \/ Escalate \/ WriteAttributes
    PROVE  TurnShape
<1> USE NoTurnFields, AtFields, AtThenFields, FlowFields, PCsNamed, NextNamed
    DEF TurnTyped, TurnShape, FlowMoves, SlotMoves, TurnMoves, Saying, Escalating
<1>1. CASE Say
  BY <1>1, SpeakFields DEF Say
<1>2. CASE PitchLine
  <2>1. /\ turn'.pc = turn.pc /\ turn'.next = turn.next /\ turn'.start = turn.start
        /\ turn'.conv = turn.conv /\ turn'.genderFilled = turn.genderFilled
    BY <1>2 DEF PitchLine, Turn
  <2> QED
    BY <1>2, <2>1, SpeakFields DEF PitchLine
<1>5. CASE Pitched
  BY <1>5 DEF Pitched
<1>3. CASE Escalate
  BY <1>3 DEF Escalate, SetHumanNeeded
<1>4. CASE WriteAttributes
  BY <1>4, MarkFields DEF WriteAttributes
<1> QED
  BY <1>1, <1>2, <1>3, <1>4, <1>5

\* Every step of a turn, its first one included, has the shape.
LEMMA TurnStepShape ==
    ASSUME TypeOK, StartTurn \/ GatherStep
    PROVE  TurnShape /\ UNCHANGED recVars
BY AdmissionShape, RoutingShape, CampusShape, EntityShape, MatchedShape,
   DivergenceShape, SendsShape
DEF TypeOK, GatherTypeOK, TurnTyped, StartTurn, GatherStep, TurnStep

----------------------------------------------------------------------------
(***************************************************************************)
(* The inductive invariant.  A step of the turn is used only through its   *)
(* shape; the other steps are few and small.                               *)
(***************************************************************************)
Safe ==
    /\ NotYetMatched /\ RunsAreFired /\ CopiesAreFresh /\ UniversityKept
    /\ NothingDelivered /\ OneDelivery /\ TurnKeepsSlots
    /\ SingleRecommendation /\ PitchedAtMostOnce /\ SlotsBeforeMatching

\* Which flow states collect slots.
LEMMA FlowNames ==
    /\ "recengine_running" \notin Collecting /\ "completed" \notin Collecting
    /\ "human_needed" \notin Collecting /\ "stopped" \notin Collecting
    /\ "awaiting_university" \in Collecting /\ "awaiting_gender" \in Collecting
BY DEF Collecting

\* A step of the turn, by its shape, keeps the invariant.
LEMMA TurnKeepsSafe ==
    ASSUME IInv, StartTurn \/ GatherStep
    PROVE  Safe'
<1> USE FlowNames, ConvFields DEF IInv
<1>1. /\ FlowMoves /\ SlotMoves /\ TurnMoves
      /\ told'.pitches = told.pitches
      /\ UNCHANGED <<ladder, run, log>>
  BY TurnStepShape DEF TurnShape, recVars
<1>2. row \in Row /\ turn \in Turn /\ row' \in Row /\ turn' \in Turn
  BY NextTyped DEF TypeOK, GatherTypeOK, Next
<1>3. Fired' = Fired
  BY <1>1 DEF Fired
<1>4. row'.flow = "recengine_running" => row.flow = "recengine_running"
  BY <1>1 DEF FlowMoves
<1>5. row'.flow \in Collecting => row.flow \in Collecting \/ Extracting
  BY <1>1 DEF FlowMoves, CopiesAreFresh, Extracting
<1>6. NotYetMatched'
  BY <1>1, <1>2, <1>3, <1>5 DEF NotYetMatched, TurnMoves, Extracting
<1>7. RunsAreFired'
  BY <1>1, <1>3 DEF RunsAreFired
<1>8. CopiesAreFresh'
  <2>1. Extracting' => Extracting \/ turn'.pc = "route"
    BY <1>1 DEF TurnMoves, Extracting
  <2>2. Extracting' => row'.flow # "human_needed"
    BY <1>1, <2>1 DEF CopiesAreFresh, TurnMoves, FlowMoves, Extracting
  <2>3. Extracting' => turn'.conv.flow # "human_needed"
    BY <1>1, <1>2, <2>1, <2>2 DEF CopiesAreFresh, TurnMoves, Extracting
  <2>4. /\ turn'.pc \in {"reread", "entity", "pendParent", "matched", "askGender",
                          "activate", "classify", "answer", "reanchor"}
           => turn'.start.flow \in Collecting
        /\ turn'.pc = "route" => turn'.start.flow \in Collecting \cup {"completed"}
    BY <1>1 DEF CopiesAreFresh, TurnMoves, Extracting
  <2>5. /\ turn'.pc = "route" /\ Extracting' => turn'.conv.flow \in Collecting
        /\ turn'.pc = "reread" => turn'.genderFilled
    BY <1>1, <1>2 DEF TurnMoves, Extracting
  <2>6. Extracting' /\ turn'.conv.flow \notin Collecting => turn'.genderFilled
    BY <1>1, <1>2, <2>1, <2>5 DEF CopiesAreFresh, TurnMoves, Extracting
  <2> QED
    BY <2>2, <2>3, <2>4, <2>5, <2>6 DEF CopiesAreFresh
<1>9. UniversityKept'
  BY <1>1, <1>2 DEF UniversityKept, TurnMoves, SlotMoves
<1>10. NothingDelivered'
  BY <1>1, <1>4 DEF NothingDelivered
<1>11. OneDelivery'
  BY <1>1, <1>3 DEF OneDelivery
<1>12. TurnKeepsSlots'
  BY <1>1, <1>2, <1>4 DEF TurnKeepsSlots, TurnMoves, SlotMoves
<1>13. SingleRecommendation'
  BY <1>3 DEF SingleRecommendation
<1>14. PitchedAtMostOnce'
  BY <1>1 DEF PitchedAtMostOnce
<1>15. SlotsBeforeMatching'
  BY <1>1, <1>4 DEF SlotsBeforeMatching, FlowMoves, SlotMoves, UniversityKept, TurnKeepsSlots
<1> QED
  BY <1>6, <1>7, <1>8, <1>9, <1>10, <1>11, <1>12, <1>13, <1>14, <1>15 DEF Safe

\* Starting a matching keeps the invariant: nothing was fired before.
LEMMA FireKeepsSafe ==
    ASSUME IInv, FireRecEngine
    PROVE  Safe'
<1> USE FlowNames DEF IInv
<1>1. PICK k \in Keys : Fire(k)
  BY DEF FireRecEngine
<1>2. /\ row \in Row /\ turn \in Turn /\ RecTypeOK
  BY DEF TypeOK, GatherTypeOK
<1>3. /\ row'.flow = "recengine_running" /\ row'.university = row.university
      /\ row'.gender = row.gender /\ row'.genderByHuman = row.genderByHuman
  BY <1>1, <1>2, FlowFields DEF Fire
<1>4. Fired = {} /\ turn.conv.university /\ turn.conv.gender
  BY <1>1 DEF Fire, MayFire, NotYetMatched, SlotsFilled
<1>5. Fired' = {k} /\ UNCHANGED <<run, told>>
  BY <1>1, <1>2, <1>4 DEF Fire, FireRecEngine, StartLadder, Fired, RecTypeOK, Ladder
<1>6. \A l \in Keys, a \in Tries : run[l][a].pc = "none"
  BY <1>4 DEF RunsAreFired
<1>7. /\ turn'.pc \in {"idle", "reset", "settle", "clarified"}
      /\ turn'.conv.university => turn.conv.university
      /\ turn.next # "attributes" /\ turn'.next # "attributes"
  <2>1. turn.next # "attributes"
    BY <1>1 DEF Fire, TurnKeepsSlots
  <2> QED
    BY <1>1, <1>2, <2>1, NextNamed, AtFields, NoTurnFields, PCsNamed DEF Fire
<1>8. NotYetMatched' /\ CopiesAreFresh'
  BY <1>3, <1>7 DEF NotYetMatched, CopiesAreFresh, Extracting
<1>9. RunsAreFired' /\ OneDelivery' /\ NothingDelivered'
  BY <1>3, <1>4, <1>5, <1>6 DEF RunsAreFired, OneDelivery, NothingDelivered
<1>10. UniversityKept' /\ SlotsBeforeMatching'
  BY <1>1, <1>3, <1>4, <1>7
  DEF UniversityKept, SlotsBeforeMatching, TurnKeepsSlots, Fire, MayFire
<1>11. TurnKeepsSlots'
  BY <1>1, <1>3, <1>7 DEF TurnKeepsSlots
<1>12. SingleRecommendation' /\ PitchedAtMostOnce'
  BY <1>5 DEF SingleRecommendation, PitchedAtMostOnce
<1> QED
  BY <1>8, <1>9, <1>10, <1>11, <1>12 DEF Safe

\* The parts of the invariant that speak of the row and the turn only, when a
\* step leaves the turn alone, or ends it, and fires nothing.
LEMMA OutsideStep ==
    ASSUME IInv, turn' = turn \/ turn' = NoTurn,
           row'.flow = row.flow \/ row'.flow = "stopped" \/ ~Extracting,
           row'.flow \in Collecting => row.flow \in Collecting,
           row'.flow = "recengine_running" => row.flow = "recengine_running",
           row'.flow = "awaiting_gender" => row.flow = "awaiting_gender",
           row.university => row'.university,
           (row.gender \/ row.genderByHuman => row'.gender \/ row'.genderByHuman)
              \/ (Fired # {} /\ row'.flow # "recengine_running"),
           Fired' = Fired
    PROVE  /\ NotYetMatched' /\ CopiesAreFresh' /\ UniversityKept'
           /\ TurnKeepsSlots' /\ SingleRecommendation' /\ SlotsBeforeMatching'
<1> USE NoTurnFields, FlowNames DEF IInv
<1>1. NotYetMatched'
  BY DEF NotYetMatched, Extracting
<1>2. CopiesAreFresh'
  BY DEF CopiesAreFresh, Extracting
<1>3. UniversityKept'
  BY DEF UniversityKept
<1>4. TurnKeepsSlots'
  BY DEF TurnKeepsSlots, NotYetMatched
<1>5. SingleRecommendation'
  BY DEF SingleRecommendation
<1>6. SlotsBeforeMatching'
  BY DEF SlotsBeforeMatching
<1> QED
  BY <1>1, <1>2, <1>3, <1>4, <1>5, <1>6

\* The retry ladder keeps the invariant.
LEMMA LadderKeepsSafe ==
    ASSUME IInv, NEW k \in Keys, Ladders(k)
    PROVE  Safe'
<1> USE DEF IInv
<1>1. row \in Row /\ RecTypeOK /\ turn' = turn
  BY DEF TypeOK, GatherTypeOK, Ladders, gatherVars
<1>2. k \in Fired
  BY DEF Ladders, LadderStep, PostStart, PollLog, LadderEscalates, Fired
<1>3. Fired' = Fired
  BY <1>1 DEF Ladders, LadderStep, PostStart, PollLog, LadderEscalates, Fired, RecTypeOK, Ladder
<1>4. /\ row'.flow = row.flow \/ row'.flow = "human_needed"
      /\ row'.university = row.university /\ row'.gender = row.gender
      /\ row'.genderByHuman = row.genderByHuman
      /\ told' = told
  BY <1>1, FlowFields
  DEF Ladders, LadderStep, PostStart, PollLog, LadderEscalates, SetHumanNeeded
<1>5. ~Extracting
  BY <1>2 DEF NotYetMatched
<1>6. \A l \in Keys, a \in Tries :
         \/ run'[l][a] = run[l][a]
         \/ run'[l][a].pc = "starting" /\ l = k
  BY <1>1 DEF Ladders, LadderStep, PostStart, PollLog, LadderEscalates, ToRun, RecTypeOK,
              Ladder, Run
<1>7. RunsAreFired' /\ NothingDelivered' /\ OneDelivery' /\ PitchedAtMostOnce'
  BY <1>2, <1>3, <1>4, <1>6
  DEF RunsAreFired, NothingDelivered, OneDelivery, PitchedAtMostOnce
<1> QED
  BY <1>1, <1>3, <1>4, <1>5, <1>7, OutsideStep, FlowNames DEF Safe

\* A run that moves on leaves all others alone.
LEMMA ToRunFields ==
    ASSUME RecTypeOK, NEW k \in Keys, NEW a \in Tries, NEW pc, ToRun(k, a, pc)
    PROVE  /\ run'[k][a].pc = pc
           /\ run'[k][a].result = run[k][a].result
           /\ run'[k][a].sent = run[k][a].sent
           /\ \A l \in Keys, b \in Tries : l # k \/ b # a => run'[l][b] = run[l][b]
BY DEF RecTypeOK, ToRun, Run

\* What a run's step does: it moves its own counter, and no step but the
\* callback's puts a run into delivery.
RunShape(k, a) ==
    /\ \A l \in Keys, b \in Tries : l # k \/ b # a => run'[l][b] = run[l][b]
    /\ run[k][a].pc # "none"
    /\ row'.university = row.university /\ row'.gender = row.gender
    /\ \/ /\ run[k][a].pc = "posting" /\ run'[k][a].pc = "delivering"
          /\ row.flow = "recengine_running" /\ row'.flow = "completed"
          /\ row'.genderByHuman = row.genderByHuman
          /\ told' = told
       \/ /\ run[k][a].pc = "delivering" /\ run'[k][a].pc = "delivering"
          /\ run'[k][a].sent = run[k][a].sent + 1
          /\ row' = row
          /\ told'.pitches = IF run[k][a].sent = 0 THEN told.pitches + 1 ELSE told.pitches
       \/ /\ run[k][a].pc = "delivering"
          /\ run'[k][a].pc \in {"attributes", "escalating"}
          /\ row' = row /\ told' = told
       \/ /\ run'[k][a].pc \in {"attributes", "done"}
          /\ row'.flow = "human_needed"
          /\ row'.genderByHuman = row.genderByHuman
          /\ told' = told
       \/ /\ run[k][a].pc = "attributes" /\ run'[k][a].pc = "done"
          /\ row'.flow = row.flow
          /\ told' = told
       \/ /\ run'[k][a].pc \notin {"delivering", "attributes"}
          /\ run'[k][a].pc = "escalating" => run'[k][a].result = "failed"
          /\ row' = row /\ told' = told

\* Every step of a run has the shape.
LEMMA RunStepShape ==
    ASSUME TypeOK, NEW k \in Keys, NEW a \in Tries, RunStep(k, a)
    PROVE  RunShape(k, a) /\ ladder' = ladder
<1>1. row \in Row /\ told \in Told /\ RecTypeOK
  BY DEF TypeOK
<1>2. CASE StartHandler(k, a)
  BY <1>1, <1>2, ToRunFields DEF StartHandler, RunShape
<1>3. CASE InsertProcessing(k, a)
  BY <1>1, <1>3, ToRunFields DEF InsertProcessing, RunShape
<1>4. CASE SkipIfResolved(k, a)
  BY <1>1, <1>4, ToRunFields DEF SkipIfResolved, RunShape
<1>5. CASE SelectHotels(k, a)
  <2>1. /\ run'[k][a].pc = "resolving"
        /\ \A l \in Keys, b \in Tries : l # k \/ b # a => run'[l][b] = run[l][b]
    BY <1>1, <1>5 DEF SelectHotels, RecTypeOK
  <2> QED
    BY <1>5, <2>1 DEF SelectHotels, RunShape
<1>6. CASE ResolveLog(k, a)
  BY <1>1, <1>6, ToRunFields DEF ResolveLog, RunShape
<1>7. CASE LoseCallback(k, a)
  BY <1>1, <1>7, ToRunFields DEF LoseCallback, RunShape
<1>8. CASE Callback(k, a)
  BY <1>1, <1>8, ToRunFields, FlowFields DEF Callback, RunShape, LockHolds
<1>9. CASE SendLine(k, a)
  <2>1. told'.pitches = IF run[k][a].sent = 0 THEN told.pitches + 1 ELSE told.pitches
    BY <1>1, <1>9, LateTyped DEF SendLine, SpeakPitch, Late, Told
  <2>2. /\ run'[k][a].pc = run[k][a].pc
        /\ run'[k][a].sent = run[k][a].sent + 1
        /\ \A l \in Keys, b \in Tries : l # k \/ b # a => run'[l][b] = run[l][b]
    BY <1>1, <1>9 DEF SendLine, RecTypeOK, Run
  <2> QED
    BY <1>9, <2>1, <2>2 DEF SendLine, Unsent, RunShape
<1>13. CASE Delivered(k, a)
  BY <1>1, <1>13, ToRunFields DEF Delivered, RunShape
<1>10. CASE CallbackEscalates(k, a)
  BY <1>1, <1>10, ToRunFields, FlowFields DEF CallbackEscalates, SetHumanNeeded, RunShape
<1>11. CASE CallbackWritesAttributes(k, a)
  BY <1>1, <1>11, ToRunFields, MarkFields DEF CallbackWritesAttributes, RunShape
<1>12. ladder' = ladder
  BY DEF RunStep, StartHandler, InsertProcessing, SkipIfResolved, SelectHotels, ResolveLog,
         LoseCallback, Callback, SendLine, Delivered, CallbackEscalates,
         CallbackWritesAttributes
<1> QED
  BY <1>2, <1>3, <1>4, <1>5, <1>6, <1>7, <1>8, <1>9, <1>10, <1>11, <1>12, <1>13 DEF RunStep

\* A step of a run, by its shape, keeps the invariant.
LEMMA RunKeepsSafe ==
    ASSUME IInv, NEW k \in Keys, NEW a \in Tries, Runs(k, a)
    PROVE  Safe'
<1> USE DEF IInv
<1>1. RunShape(k, a) /\ ladder' = ladder /\ turn' = turn
  BY RunStepShape DEF Runs, gatherVars
<1>2. k \in Fired /\ Fired' = Fired
  BY <1>1 DEF RunShape, RunsAreFired, Fired
<1>3. ~Extracting
  BY <1>2 DEF NotYetMatched
<1>4. /\ row'.flow \in {row.flow, "human_needed", "completed"}
      /\ row'.university = row.university /\ row'.gender = row.gender
      /\ \/ row'.genderByHuman = row.genderByHuman
         \/ row'.flow # "recengine_running"
  BY <1>1 DEF RunShape, NothingDelivered
<1>5. RunsAreFired'
  BY <1>1, <1>2 DEF RunShape, RunsAreFired
<1>6. told.pitches \in Nat /\ run[k][a].sent \in Nat
  BY DEF TypeOK, Told, RecTypeOK, Run
<1>7. NothingDelivered'
  BY <1>1 DEF RunShape, NothingDelivered
<1>8. OneDelivery'
  BY <1>1, <1>2, <1>6 DEF RunShape, OneDelivery, NothingDelivered
<1>9. PitchedAtMostOnce'
  BY <1>1, <1>6 DEF RunShape, PitchedAtMostOnce, OneDelivery
<1> QED
  BY <1>1, <1>2, <1>3, <1>4, <1>5, <1>7, <1>8, <1>9, OutsideStep, FlowNames DEF Safe

\* The other writers of the row keep the invariant.
LEMMA OthersKeepSafe ==
    ASSUME IInv, Others
    PROVE  Safe'
<1> USE DEF IInv
<1>1. row \in Row /\ told \in Told /\ RecTypeOK
  BY DEF TypeOK
<1>2. CASE Restart \/ TaskRaises
  <2>1. Fired' = Fired /\ row' = row /\ told' = told /\ turn' \in {turn, NoTurn}
    <3>1. CASE Restart
      BY <1>1, <3>1 DEF Restart, RecRestart, Fired, RecTypeOK, Ladder
    <3>2. CASE TaskRaises
      BY <1>1, <3>2
      DEF TaskRaises, LadderRaises, RunRaises, Fired, RecTypeOK, Ladder, gatherVars
    <3> QED
      BY <1>2, <3>1, <3>2
  <2>2. \A k \in Keys, a \in Tries :
           \/ run'[k][a] = run[k][a]
           \/ run[k][a].pc # "none" /\ run'[k][a].pc = "done"
    <3>1. CASE Restart
      BY <1>1, <3>1 DEF Restart, RecRestart, RecTypeOK, Run
    <3>2. CASE TaskRaises
      BY <1>1, <3>2, ToRunFields DEF TaskRaises, LadderRaises, RunRaises
    <3> QED
      BY <1>2, <3>1, <3>2
  <2>3. RunsAreFired' /\ NothingDelivered' /\ OneDelivery' /\ PitchedAtMostOnce'
    BY <2>1, <2>2 DEF RunsAreFired, NothingDelivered, OneDelivery, PitchedAtMostOnce
  <2> QED
    BY <2>1, <2>3, OutsideStep DEF Safe
<1>3. CASE Others /\ ~Restart /\ ~TaskRaises
  <2>1. /\ row'.flow \in {row.flow, "stopped"}
        /\ row.university => row'.university
        /\ row.gender \/ row.genderByHuman => row'.gender \/ row'.genderByHuman
    <3>1. CASE Takeover
      BY <1>1, <3>1 DEF Takeover, Row
    <3>2. CASE \E known \in BOOLEAN : CrmSetsGender(known)
      BY <1>1, <3>2 DEF CrmSetsGender, Row
    <3>3. CASE CrmSetsUniversity
      BY <1>1, <3>3 DEF CrmSetsUniversity, Row
    <3>4. CASE TaggerFills
      BY <1>1, <3>4 DEF TaggerFills, Row
    <3>5. CASE TurnRaises
      BY <3>5 DEF TurnRaises
    <3>6. CASE SendTimesOut
      BY <3>6 DEF SendTimesOut
    <3> QED
      BY <1>3, <3>1, <3>2, <3>3, <3>4, <3>5, <3>6 DEF Others
  <2>2. told'.pitches = told.pitches
    BY <1>1, <1>3, SpeakFields
    DEF Others, Takeover, CrmSetsGender, CrmSetsUniversity, TaggerFills, TurnRaises,
        SendTimesOut, Told
  <2>3. (turn' = turn \/ turn' = NoTurn) /\ UNCHANGED <<ladder, run>>
    BY <1>3
    DEF Others, Takeover, CrmSetsGender, CrmSetsUniversity, TaggerFills, TurnRaises,
        SendTimesOut, recVars, gatherVars
  <2>4. Fired' = Fired
    BY <2>3 DEF Fired
  <2>5. RunsAreFired' /\ NothingDelivered' /\ OneDelivery' /\ PitchedAtMostOnce'
    BY <2>1, <2>2, <2>3, <2>4
    DEF RunsAreFired, NothingDelivered, OneDelivery, PitchedAtMostOnce
  <2> QED
    BY <2>1, <2>3, <2>4, <2>5, OutsideStep, FlowNames DEF Safe
<1> QED
  BY <1>2, <1>3

\* The invariant holds initially.
LEMMA InitIInv == Init => IInv
<1> SUFFICES ASSUME Init PROVE IInv
  OBVIOUS
<1>1. TypeOK
  BY InitTyped
<1>2. /\ row.flow = "new" /\ turn = NoTurn /\ told.pitches = 0
      /\ \A k \in Keys : ladder[k].pc = "unused"
      /\ \A k \in Keys, a \in Tries : run[k][a].pc = "none"
  BY DEF Init, NewRow, ToldNothing, RecInit, NoRun, GatherInit
<1>3. Fired = {}
  BY <1>2 DEF Fired
<1>4. Safe
  BY <1>2, <1>3, NoTurnFields
  DEF Safe, NotYetMatched, RunsAreFired, CopiesAreFresh, UniversityKept, NothingDelivered,
      OneDelivery, TurnKeepsSlots, SingleRecommendation, PitchedAtMostOnce,
      SlotsBeforeMatching, Extracting
<1> QED
  BY <1>1, <1>4 DEF IInv, Safe

\* The invariant is inductive.
LEMMA NextIInv == IInv /\ [Next]_vars => IInv'
<1> SUFFICES ASSUME IInv, [Next]_vars PROVE IInv'
  OBVIOUS
<1>1. TypeOK'
  BY NextTyped DEF IInv
<1>2. Safe'
  <2>1. CASE UNCHANGED vars
    BY <2>1
    DEF vars, Safe, IInv, NotYetMatched, RunsAreFired, CopiesAreFresh, UniversityKept,
        NothingDelivered, OneDelivery, TurnKeepsSlots, SingleRecommendation,
        PitchedAtMostOnce, SlotsBeforeMatching, Extracting, Fired
  <2> QED
    BY <2>1, TurnKeepsSafe, FireKeepsSafe, LadderKeepsSafe, RunKeepsSafe, OthersKeepSafe
    DEF Next
<1> QED
  BY <1>1, <1>2 DEF IInv, Safe

\* The inductive invariant holds in every reachable state, for any number of
\* keys, attempts, turns and faults and any routing table.
THEOREM Invariance == Spec => []IInv
BY InitIInv, NextIInv, PTL DEF Spec

\* A lead is matched at most once: no interleaving of turns with outside
\* writers starts a second ladder (_fire_rec_engine_if_ready).
THEOREM MatchedOnce == Spec => []SingleRecommendation
<1>1. IInv => SingleRecommendation
  BY DEF IInv
<1> QED
  BY <1>1, Invariance, PTL

\* The recommendation is delivered at most once, although runs of one key may
\* be duplicated (rec_engine_callback).
THEOREM DeliveredOnce == Spec => []PitchedAtMostOnce
<1>1. IInv => PitchedAtMostOnce
  BY DEF IInv
<1> QED
  BY <1>1, Invariance, PTL

\* The flow asks for the gender, and matches, only with a stored university;
\* and matches only with a gender, or one a human has blanked meanwhile.
THEOREM SlotsFirst == Spec => []SlotsBeforeMatching
<1>1. IInv => SlotsBeforeMatching
  BY DEF IInv
<1> QED
  BY <1>1, Invariance, PTL

\* What one step may do to a conversation that humans own.
LEMMA HandedOver ==
    ASSUME IInv, [Next]_vars
    PROVE  /\ row.flow = "human_needed" => row'.flow \in HumanOwned
           /\ row.flow = "stopped" /\ row'.flow \notin HumanOwned
              => turn.conv.flow = "stopped" /\ turn.genderFilled
<1> USE FlowNames DEF HumanOwned, IInv
<1>1. row \in Row /\ turn \in Turn
  BY DEF TypeOK, GatherTypeOK
<1>2. CASE StartTurn \/ GatherStep
  <2>1. FlowMoves
    BY <1>2, TurnStepShape DEF TurnShape
  <2> QED
    BY <2>1 DEF FlowMoves, CopiesAreFresh, Extracting
<1>3. CASE FireRecEngine
  BY <1>3 DEF FireRecEngine, Fire, MayFire, LockHolds
<1>4. ASSUME NEW k \in Keys, Ladders(k)
      PROVE  row'.flow \in {row.flow, "human_needed"}
  BY <1>1, <1>4, FlowFields
  DEF Ladders, LadderStep, PostStart, PollLog, LadderEscalates, SetHumanNeeded
<1>5. ASSUME NEW k \in Keys, NEW a \in Tries, Runs(k, a)
      PROVE  \/ row'.flow \in {row.flow, "human_needed"}
             \/ row.flow = "recengine_running"
  BY <1>5, RunStepShape DEF Runs, RunShape
<1>6. CASE Others
  BY <1>1, <1>6
  DEF Others, Takeover, CrmSetsGender, CrmSetsUniversity, TaggerFills, TurnRaises, TaskRaises,
      SendTimesOut, Restart, Row
<1> QED
  BY <1>2, <1>3, <1>4, <1>5, <1>6 DEF Next, vars

\* A conversation handed to humans is never resumed by the bot.
THEOREM NeededStaysHuman == Spec => HumanNeededIsFinal
<1>1. IInv /\ [Next]_vars
      => [row.flow = "human_needed" => row'.flow \in HumanOwned]_vars
  BY HandedOver
<1> QED
  BY <1>1, Invariance, PTL DEF Spec, HumanNeededIsFinal

\* An agent's conversation is resumed only by the turn that re-read the row
\* after the takeover (_run_deterministic_extraction).
THEOREM ReclaimedByRereadOnly == Spec => ReclaimNeedsReread
<1>1. IInv /\ [Next]_vars
      => [ row.flow = "stopped" /\ row'.flow \notin HumanOwned
           => turn.conv.flow = "stopped" /\ turn.genderFilled ]_vars
  BY HandedOver
<1> QED
  BY <1>1, Invariance, PTL DEF Spec, ReclaimNeedsReread
=============================================================================
