-------------------------- MODULE LeadServiceProofs --------------------------
(***************************************************************************)
(* LeadConversation implements LeadService, for any number of keys,        *)
(* attempts, turns and faults and any routing table.                       *)
(***************************************************************************)
EXTENDS LeadConversationProofs, FiniteSetTheorems

\* Phase, flow state by flow state.
LEMMA PhaseNames ==
    /\ row.flow \in Collecting => Phase = "collecting"
    /\ row.flow = "recengine_running" => Phase = "matching"
    /\ row.flow = "completed" => Phase = "closed"
    /\ row.flow = "stopped" => Phase = "agent"
    /\ row.flow = "human_needed" => Phase = "handed"
BY FlowNames DEF Phase

\* The same after a step.
LEMMA PhaseNamesNext ==
    /\ row'.flow \in Collecting => Phase' = "collecting"
    /\ row'.flow = "recengine_running" => Phase' = "matching"
    /\ row'.flow = "completed" => Phase' = "closed"
    /\ row'.flow = "stopped" => Phase' = "agent"
    /\ row'.flow = "human_needed" => Phase' = "handed"
BY FlowNames DEF Phase

\* The phase follows the flow state.
LEMMA PhaseKept == row'.flow = row.flow => Phase' = Phase
BY DEF Phase

\* Matchings are counted by the ladders that were started, one at most.
LEMMA CountOne ==
    ASSUME SingleRecommendation, Fired # {}
    PROVE  Cardinality(Fired) = 1
<1>1. PICK k \in Fired : TRUE
  OBVIOUS
<1>2. Fired = {k}
  BY <1>1 DEF SingleRecommendation, Fired
<1> QED
  BY <1>2, FS_Singleton

----------------------------------------------------------------------------
(***************************************************************************)
(* What IInv leaves out: a turn that is still looking for slots works on a *)
(* conversation that collects them, or that an agent has taken over, and a *)
(* matching has a ladder.                                                  *)
(***************************************************************************)
Open ==
    /\ Extracting => row.flow \in Collecting \cup {"stopped"}
    /\ row.flow = "recengine_running" => Fired # {}

\* The other writers, and the faults, leave the conversation where it is or
\* give it to an agent.
LEMMA OthersShape ==
    ASSUME TypeOK, Others
    PROVE  /\ row'.flow \in {row.flow, "stopped"}
           /\ turn' = turn \/ turn' = NoTurn
           /\ Fired' = Fired
           /\ told'.pitches = told.pitches
<1>1. row \in Row /\ told \in Told /\ RecTypeOK
  BY DEF TypeOK
<1>2. row'.flow \in {row.flow, "stopped"}
  BY <1>1
  DEF Others, Takeover, CrmSetsGender, CrmSetsUniversity, TaggerFills, TurnRaises,
      TaskRaises, SendTimesOut, Restart, Row
<1>3. told'.pitches = told.pitches
  BY <1>1, SpeakFields
  DEF Others, Takeover, CrmSetsGender, CrmSetsUniversity, TaggerFills, TurnRaises,
      TaskRaises, SendTimesOut, Restart, Told
<1>4. turn' = turn \/ turn' = NoTurn
  BY DEF Others, Takeover, CrmSetsGender, CrmSetsUniversity, TaggerFills, TurnRaises,
         TaskRaises, SendTimesOut, Restart, gatherVars
<1>5. Fired' = Fired
  <2>1. CASE Restart
    BY <1>1, <2>1 DEF Restart, RecRestart, Fired, RecTypeOK, Ladder
  <2>2. CASE TaskRaises
    BY <1>1, <2>2 DEF TaskRaises, LadderRaises, RunRaises, Fired, RecTypeOK, Ladder
  <2>3. CASE Others /\ ~Restart /\ ~TaskRaises
    BY <2>3
    DEF Others, Takeover, CrmSetsGender, CrmSetsUniversity, TaggerFills, TurnRaises,
        SendTimesOut, recVars, Fired
  <2> QED
    BY <2>1, <2>2, <2>3
<1> QED
  BY <1>2, <1>3, <1>4, <1>5

\* A turn that closes the conversation has nothing more to look for.
LEMMA ClosingEnds ==
    ASSUME TypeOK, StartTurn \/ GatherStep, row'.flow = "completed", row.flow # "completed"
    PROVE  ~Extracting'
<1> USE FlowNames, AtFields, AtThenFields
<1>1. row \in Row /\ turn \in Turn
  BY DEF TypeOK, GatherTypeOK
<1>2. FlowMoves
  BY TurnStepShape DEF TurnShape
<1>3. turn.pc \in {"route", "entity", "askGender", "clarified", "activate", "reanchor"}
  BY <1>2 DEF FlowMoves
<1>4. CASE HotelNamed
  <2>1. turn'.pc \in {"pitch", "idle"}
    BY <1>1, <1>4, NoTurnFields, PCsNamed DEF HotelNamed, Advance
  <2> QED
    BY <2>1 DEF Extracting
<1>5. CASE OutOfCity
  <2>1. turn'.pc \in {"say", "reset"}
    BY <1>1, <1>5, PCsNamed DEF OutOfCity, Advance, Saying
  <2> QED
    BY <2>1 DEF Extracting
<1>6. CASE AmbiguousUniversity \/ AskGender \/ Activate \/ Reanchor
  BY <1>1, <1>6, FlowFields
  DEF AmbiguousUniversity, AskGender, Activate, Reanchor, Advance
<1>7. CASE CampusMatched \/ CampusNotMatched \/ UniversityMatched \/ ParentMatched \/ NoEntity
  BY <1>1, <1>7
  DEF CampusMatched, CampusNotMatched, UniversityMatched, ParentMatched, NoEntity, Row
<1>8. CASE PostCompletion \/ ExtractGender \/ Clarified
  BY <1>1, <1>8 DEF PostCompletion, ExtractGender, Clarified, Row
<1> QED
  BY <1>3, <1>4, <1>5, <1>6, <1>7, <1>8
  DEF StartTurn, GatherStep, TurnStep, TurnStarts, Backfill, ReadBack, PendParent,
      MatchedReadsBack, NotReady, Settle, Reset, ClassifierFails, NearMiss, Diverge, Answer,
      Say, PitchLine, Pitched, Escalate, WriteAttributes

\* Open holds initially.
LEMMA InitOpen == Init => Open
BY FlowNames DEF Init, GatherInit, NoTurn, NewRow, Open, Extracting, Collecting

\* Open is kept.
LEMMA NextOpen ==
    ASSUME IInv, Open, [Next]_vars
    PROVE  Open'
<1> USE FlowNames DEF IInv
<1>1. row \in Row /\ turn \in Turn /\ RecTypeOK
  BY DEF TypeOK, GatherTypeOK
<1>2. CASE StartTurn \/ GatherStep
  <2>1. FlowMoves /\ TurnMoves /\ UNCHANGED <<ladder, run, log>>
    BY <1>2, TurnStepShape DEF TurnShape, recVars
  <2>2. Fired' = Fired
    BY <2>1 DEF Fired
  <2>3. Extracting' => Extracting \/ turn'.pc = "route"
    BY <2>1 DEF TurnMoves, Extracting
  <2>4. Extracting' => row'.flow \in Collecting \cup {"stopped"}
    BY <1>2, <2>1, <2>3, ClosingEnds DEF Open, FlowMoves, TurnMoves, Extracting
  <2> QED
    BY <2>1, <2>2, <2>4 DEF Open, FlowMoves
<1>3. CASE FireRecEngine
  <2>1. PICK k \in Keys : Fire(k)
    BY <1>3 DEF FireRecEngine
  <2>2. Fired' # {}
    BY <1>1, <2>1 DEF Fire, StartLadder, Fired, RecTypeOK
  <2>3. turn'.pc \in {"idle", "reset", "settle", "clarified", "attributes"}
    BY <1>1, <2>1, NextNamed, AtFields, NoTurnFields, PCsNamed DEF Fire
  <2> QED
    BY <2>2, <2>3 DEF Open, Extracting
<1>4. ASSUME NEW k \in Keys, Ladders(k)
      PROVE  Open'
  <2>1. k \in Fired
    BY <1>4 DEF Ladders, LadderStep, PostStart, PollLog, LadderEscalates, Fired
  <2>2. Fired' # {} /\ turn' = turn
    BY <1>1, <1>4, <2>1
    DEF Ladders, LadderStep, PostStart, PollLog, LadderEscalates, Fired, RecTypeOK, Ladder, gatherVars
  <2>3. ~Extracting
    BY <2>1 DEF NotYetMatched
  <2> QED
    BY <2>2, <2>3 DEF Open, Extracting
<1>5. ASSUME NEW k \in Keys, NEW a \in Tries, Runs(k, a)
      PROVE  Open'
  <2>1. RunShape(k, a) /\ ladder' = ladder /\ turn' = turn
    BY <1>5, RunStepShape DEF Runs, gatherVars
  <2>2. k \in Fired /\ Fired' = Fired
    BY <2>1 DEF RunShape, RunsAreFired, Fired
  <2>3. ~Extracting
    BY <2>2 DEF NotYetMatched
  <2> QED
    BY <2>1, <2>2, <2>3 DEF Open, Extracting
<1>6. CASE Others
  <2>1. /\ row'.flow \in {row.flow, "stopped"}
        /\ turn' = turn \/ turn' = NoTurn
        /\ Fired' = Fired
    BY <1>6, OthersShape
  <2> QED
    BY <2>1, NoTurnFields DEF Open, Extracting
<1>7. CASE UNCHANGED vars
  BY <1>7 DEF vars, Open, Extracting, Fired
<1> QED
  BY <1>2, <1>3, <1>4, <1>5, <1>6, <1>7 DEF Next
----------------------------------------------------------------------------
\* A step of the turn, as the lead sees it.
LEMMA TurnServes ==
    ASSUME IInv, Open, StartTurn \/ GatherStep
    PROVE  [Service!Next]_Service!service
<1> USE PhaseNames, PhaseNamesNext, PhaseKept, FlowNames DEF IInv
<1>1. /\ FlowMoves /\ told'.pitches = told.pitches
      /\ UNCHANGED <<ladder, run, log>>
  BY TurnStepShape DEF TurnShape, recVars
<1>2. Fired' = Fired
  BY <1>1 DEF Fired
<1>3. CASE row'.flow = row.flow
  BY <1>1, <1>2, <1>3 DEF Service!service
<1>4. CASE row'.flow = "human_needed"
  BY <1>1, <1>2, <1>4 DEF Service!Next, Service!HandOver
<1>5. CASE row'.flow # row.flow /\ row'.flow \in Collecting \cup {"completed"}
  <2>1. row.flow \in Collecting \/ (row.flow = "stopped" /\ Fired = {})
    <3>1. CASE turn.pc \in {"entity", "askGender"}
      BY <3>1, <1>1, <1>5 DEF Open, NotYetMatched, Extracting
    <3>2. CASE turn.pc \in {"activate", "reanchor", "route", "clarified"}
      BY <3>2, <1>1, <1>5 DEF FlowMoves, CopiesAreFresh, Collecting
    <3> QED
      BY <1>1, <1>5, <3>1, <3>2 DEF FlowMoves
  <2>2. Service!BotsOwn
    BY <2>1, FS_EmptySet DEF Service!BotsOwn
  <2> QED
    BY <1>1, <1>2, <1>5, <2>2 DEF Service!Next, Service!Collect, Service!Close
<1> QED
  BY <1>1, <1>3, <1>4, <1>5 DEF FlowMoves

\* The start of a matching, as the lead sees it.
LEMMA FireServes ==
    ASSUME IInv, IInv', FireRecEngine
    PROVE  [Service!Next]_Service!service
<1> USE PhaseNames, PhaseNamesNext, FlowNames DEF IInv
<1>1. PICK k \in Keys : Fire(k)
  BY DEF FireRecEngine
<1>2. /\ row \in Row /\ RecTypeOK
  BY DEF TypeOK
<1>3. /\ row'.flow = "recengine_running" /\ row.flow \in Collecting
      /\ told' = told
  BY <1>1, <1>2, FlowFields DEF Fire, MayFire, LockHolds
<1>4. Fired = {}
  BY <1>3 DEF NotYetMatched
<1>5. Fired' = {k}
  BY <1>1, <1>2, <1>4 DEF Fire, FireRecEngine, StartLadder, Fired, RecTypeOK, Ladder
<1>6. Cardinality(Fired) = 0 /\ Cardinality(Fired') = 1
  BY <1>4, <1>5, FS_EmptySet, FS_Singleton
<1> QED
  BY <1>3, <1>6 DEF Service!Next, Service!BeginMatching, Service!BotsOwn

\* A step of the ladder, as the lead sees it.
LEMMA LadderServes ==
    ASSUME IInv, NEW k \in Keys, Ladders(k)
    PROVE  [Service!Next]_Service!service
<1>1. row \in Row /\ RecTypeOK
  BY DEF IInv, TypeOK
<1>2. Fired' = Fired
  BY <1>1 DEF Ladders, LadderStep, PostStart, PollLog, LadderEscalates, Fired, RecTypeOK, Ladder
<1>3. row'.flow \in {row.flow, "human_needed"} /\ told' = told
  BY <1>1, FlowFields
  DEF Ladders, LadderStep, PostStart, PollLog, LadderEscalates, SetHumanNeeded
<1> QED
  BY <1>2, <1>3, PhaseNamesNext, PhaseKept DEF Service!Next, Service!HandOver, Service!service

\* A step of a run, as the lead sees it: only the callback closes the
\* conversation, and only the run it let through delivers: the list is out
\* with its first line.
LEMMA RunServes ==
    ASSUME IInv, NEW k \in Keys, NEW a \in Tries, Runs(k, a)
    PROVE  [Service!Next]_Service!service
<1> USE PhaseNames, PhaseNamesNext, PhaseKept, FlowNames DEF IInv
<1>1. RunShape(k, a) /\ ladder' = ladder
  BY RunStepShape DEF Runs
<1>2. k \in Fired /\ Fired' = Fired
  BY <1>1 DEF RunShape, RunsAreFired, Fired
<1>3. CASE row'.flow = row.flow /\ told'.pitches = told.pitches
  BY <1>2, <1>3 DEF Service!service
<1>4. CASE row'.flow = "human_needed" /\ told' = told
  BY <1>2, <1>4 DEF Service!Next, Service!HandOver
<1>5. CASE row.flow = "recengine_running" /\ row'.flow = "completed" /\ told' = told
  BY <1>2, <1>5 DEF Service!Next, Service!Close
<1>6. CASE /\ run[k][a].pc = "delivering" /\ run[k][a].sent = 0
           /\ row' = row /\ told'.pitches = told.pitches + 1
  <2>1. told.pitches = 0 /\ told'.pitches = 1 /\ row.flow # "recengine_running"
    BY <1>6 DEF OneDelivery, NothingDelivered
  <2>2. Cardinality(Fired) = 1
    BY <1>2, CountOne
  <2>3. Phase' = Phase /\ Phase # "matching"
    BY <1>6, <2>1 DEF TypeOK, Row, FlowStates, HumanOwned
  <2> QED
    BY <1>2, <2>1, <2>2, <2>3 DEF Service!Next, Service!Deliver
<1> QED
  BY <1>1, <1>3, <1>4, <1>5, <1>6 DEF RunShape

\* A step of the others, as the lead sees it.
LEMMA OthersServe ==
    ASSUME IInv, Others
    PROVE  [Service!Next]_Service!service
<1>1. /\ row'.flow \in {row.flow, "stopped"}
      /\ Fired' = Fired /\ told'.pitches = told.pitches
  BY OthersShape DEF IInv
<1> QED
  BY <1>1, PhaseNamesNext, PhaseKept DEF Service!Next, Service!HandOver, Service!service

\* Every step is a step of the service, or none.
LEMMA StepServes ==
    ASSUME IInv, IInv', Open, [Next]_vars
    PROVE  [Service!Next]_Service!service
<1>1. CASE UNCHANGED vars
  BY <1>1, PhaseKept DEF vars, Fired, Service!service
<1> QED
  BY <1>1, TurnServes, FireServes, LadderServes, RunServes, OthersServe DEF Next

\* A new conversation is a new lead.
LEMMA InitServes == Init => Service!Init
<1> SUFFICES ASSUME Init PROVE Service!Init
  OBVIOUS
<1>1. row.flow = "new" /\ told.pitches = 0 /\ Fired = {}
  BY DEF Init, NewRow, ToldNothing, RecInit, Fired
<1> QED
  BY <1>1, PhaseNames, FS_EmptySet DEF Service!Init, Collecting

\* Whatever turns, ladders, runs, agents and faults do to each other: the lead
\* is matched once and gets one list, after its matching, and a closed or
\* handed over conversation only passes into human hands.
THEOREM ServiceKept == Spec => ImplementsService
<1>1. Spec => []Open
  BY InitOpen, NextOpen, Invariance, PTL DEF Spec
<1> QED
  BY <1>1, InitServes, StepServes, Invariance, PTL DEF Spec, ImplementsService, Service!Spec
=============================================================================
