---------------------------- MODULE IngressProofs ----------------------------
(***************************************************************************)
(* Proofs about Ingress: what happens between a webhook and a turn, for    *)
(* any number of messages, redeliveries, faults and reminders.             *)
(***************************************************************************)
EXTENDS Ingress, FiniteSetTheorems, FunctionTheorems, SequenceTheorems, TLAPS

----------------------------------------------------------------------------
\* The queues of fragments and of bursts.
LEMMA SeqAppend ==
    ASSUME NEW S, NEW s \in Seq(S), NEW x \in S
    PROVE  /\ Append(s, x) \in Seq(S) /\ Append(s, x) # <<>>
           /\ Len(Append(s, x)) = Len(s) + 1
           /\ Elements(Append(s, x)) = Elements(s) \cup {x}
           /\ \A i \in DOMAIN s : Append(s, x)[i] = s[i]
           /\ Append(s, x)[Len(s) + 1] = x
           /\ DOMAIN Append(s, x) = DOMAIN s \cup {Len(s) + 1}
<1>1. /\ Append(s, x) \in Seq(S) /\ Append(s, x) # <<>>
      /\ Len(Append(s, x)) = Len(s) + 1
      /\ \A i \in DOMAIN s : Append(s, x)[i] = s[i]
      /\ Append(s, x)[Len(s) + 1] = x
  OBVIOUS
<1>2. DOMAIN Append(s, x) = DOMAIN s \cup {Len(s) + 1}
  OBVIOUS
<1>3. Elements(Append(s, x)) = Elements(s) \cup {x}
  BY <1>1, <1>2 DEF Elements
<1> QED
  BY <1>1, <1>2, <1>3

\* What is left when the first one is taken.
LEMMA SeqTail ==
    ASSUME NEW S, NEW s \in Seq(S), s # <<>>
    PROVE  /\ Head(s) \in S /\ Tail(s) \in Seq(S)
           /\ Head(s) = s[1] /\ 1 \in DOMAIN s
           /\ Len(s) >= 1 /\ Len(Tail(s)) = Len(s) - 1
           /\ Tail(s) = <<>> <=> Len(s) = 1
           /\ Elements(s) = {Head(s)} \cup Elements(Tail(s))
           /\ \A i \in DOMAIN Tail(s) : i + 1 \in DOMAIN s /\ Tail(s)[i] = s[i + 1]
<1>1. /\ Head(s) \in S /\ Tail(s) \in Seq(S) /\ Head(s) = s[1] /\ 1 \in DOMAIN s
      /\ Len(s) >= 1 /\ Len(Tail(s)) = Len(s) - 1
      /\ \A i \in DOMAIN Tail(s) : i + 1 \in DOMAIN s /\ Tail(s)[i] = s[i + 1]
  OBVIOUS
<1>2. Tail(s) = <<>> <=> Len(s) = 1
  <2>1. \A t \in Seq(S) : t = <<>> <=> Len(t) = 0
    BY EmptySeq
  <2>2. Tail(s) = <<>> <=> Len(Tail(s)) = 0
    BY <1>1, <2>1
  <2>3. Len(s) \in Nat /\ Len(Tail(s)) = Len(s) - 1
    BY <1>1, LenProperties
  <2> QED
    BY <2>2, <2>3
<1>3. \A i \in DOMAIN s : i = 1 \/ (i - 1 \in DOMAIN Tail(s) /\ Tail(s)[i - 1] = s[i])
  BY <1>1
<1>4. Elements(s) \subseteq {Head(s)} \cup Elements(Tail(s))
  <2>1. ASSUME NEW i \in DOMAIN s PROVE s[i] \in {Head(s)} \cup Elements(Tail(s))
    BY <1>1, <1>3 DEF Elements
  <2> QED
    BY <2>1 DEF Elements
<1>5. {Head(s)} \cup Elements(Tail(s)) \subseteq Elements(s)
  BY <1>1 DEF Elements
<1> QED
  BY <1>1, <1>2, <1>4, <1>5

\* An empty queue holds nothing, and a queue of messages holds messages.
LEMMA SeqElements ==
    /\ Elements(<<>>) = {}
    /\ \A S : \A s \in Seq(S) : Elements(s) \subseteq S
BY DEF Elements

\* A message said is one of Ids.
LEMMA SaidIds ==
    ASSUME said \in Seq(Kinds), Len(said) <= MaxMessages
    PROVE  /\ DOMAIN said \subseteq Ids
           /\ \A m \in DOMAIN said : said[m] \in Kinds
           /\ Len(said) \in Nat /\ DOMAIN said = 1 .. Len(said)
BY BoundsAssumption DEF Ids

----------------------------------------------------------------------------
\* The records the actions start from.
LEMMA RecordsTyped ==
    /\ NewRow \in Row /\ IdleProc \in Proc /\ IdleAgent \in Agent /\ Asleep \in Sweep
    /\ IdleProc.pc = "idle" /\ IdleProc.todo = <<>> /\ IdleProc.burst = <<>>
    /\ IdleProc.fill = {} /\ IdleProc.found = "fresh"
    /\ IdleAgent.pc = "idle" /\ IdleAgent.msg = 0 /\ IdleAgent.todo = <<>>
    /\ Asleep.pc = "asleep"
<1>1. NewRow \in Row
  BY DEF NewRow, Row, FlowStates, Admitting
<1> QED
  BY <1>1 DEF IdleProc, Proc, IdleAgent, Agent, Asleep, Sweep

\* Touching a row clears quiet.
LEMMA TouchFields ==
    ASSUME NEW r \in Row
    PROVE  /\ Touch(r) \in Row
           /\ Touch(r).flow = r.flow /\ Touch(r).reason = r.reason
           /\ Touch(r).reprompts = r.reprompts
BY DEF Touch, Row

\* What process_message makes of a burst.
LEMMA AdmitTyped ==
    ASSUME proc \in Proc, seen \in Seen, NEW copy \in Row, Admit(copy)
    PROVE  /\ proc' \in Proc /\ seen' \in Seen
           /\ \/ proc' = IdleProc
              \/ proc'.pc = "turn" /\ proc'.todo = <<>> /\ proc'.burst = proc.burst
                 /\ proc'.fill = proc.fill /\ proc'.found = proc.found
           /\ proc'.pc \in {"idle", "turn"}
<1>1. CASE copy.flow \in Admitting /\ copy.botEnabled
  <2>1. DEFINE h == [m \in Ids |-> IF m \in Elements(proc.burst) THEN seen.heard[m] + 1
                                   ELSE seen.heard[m]]
  <2>2. h \in [Ids -> Nat]
    BY DEF Seen
  <2>3. seen' = [seen EXCEPT !.heard = h]
    BY <1>1 DEF Admit
  <2> HIDE DEF h
  <2>4. seen' \in Seen
    BY <2>2, <2>3 DEF Seen
  <2>5. proc' = [proc EXCEPT !.pc = "turn", !.todo = <<>>, !.copy = copy]
    BY <1>1 DEF Admit
  <2>6. /\ proc' \in Proc /\ proc'.pc = "turn" /\ proc'.todo = <<>>
        /\ proc'.burst = proc.burst /\ proc'.fill = proc.fill /\ proc'.found = proc.found
    <3>1. <<>> \in Seq(Ids)
      BY EmptySeq
    <3> QED
      BY <2>5, <3>1 DEF Proc
  <2> QED
    BY <2>4, <2>6
<1>2. CASE ~(copy.flow \in Admitting /\ copy.botEnabled)
  <2>1. Elements(proc.burst) \subseteq Ids
    BY SeqElements DEF Proc
  <2> QED
    BY <1>2, <2>1, RecordsTyped DEF Admit, Ignore, Seen
<1> QED
  BY <1>1, <1>2

----------------------------------------------------------------------------
(***************************************************************************)
(* Types.  A task that makes inserts needs to have some left, hence the    *)
(* types go together with WorkAtHand.                                      *)
(***************************************************************************)
Typed == TypeOK /\ WorkAtHand

\* Webhooks.
LEMMA WebhookTyped ==
    ASSUME Typed, Someone \/ Redeliver \/ Duplicate \/ Enqueue \/ StoreOnly \/ Flush
    PROVE  Typed'
<1> USE SaidIds DEF Typed, TypeOK, WorkAtHand
<1>1. CASE Someone
  <2>1. PICK kind \in Kinds : said' = Append(said, kind)
    BY <1>1 DEF Someone
  <2>2. said' \in Seq(Kinds) /\ Len(said') = Len(said) + 1 /\ Len(said) \in Nat
    BY <2>1, SeqAppend, LenProperties
  <2>3. Len(said') <= MaxMessages /\ Len(said) + 1 \in Ids
    BY <1>1, <2>2, BoundsAssumption DEF Someone, Ids
  <2> QED
    BY <1>1, <2>2, <2>3 DEF Someone
<1>2. CASE Redeliver
  BY <1>2 DEF Redeliver
<1>3. CASE Duplicate
  BY <1>3 DEF Duplicate
<1>4. CASE Enqueue
  <2>1. PICK m \in Ids : /\ wire' = wire \ {m} /\ buffer' = Append(buffer, m)
                         /\ seen' = [seen EXCEPT !.accepted[m] = @ + 1]
    BY <1>4 DEF Enqueue, Arrives
  <2>2. DEFINE a == [seen.accepted EXCEPT ![m] = @ + 1]
  <2>3. a \in [Ids -> Nat] /\ seen' = [seen EXCEPT !.accepted = a]
    <3>1. seen.accepted \in [Ids -> Nat]
      BY DEF Seen
    <3>2. ASSUME NEW f \in [Ids -> Nat] PROVE [f EXCEPT ![m] = @ + 1] \in [Ids -> Nat]
      OBVIOUS
    <3>3. a \in [Ids -> Nat]
      BY <3>1, <3>2
    <3>4. seen' = [seen EXCEPT !.accepted = a]
      BY <2>1
    <3> QED
      BY <3>3, <3>4
  <2> HIDE DEF a
  <2>4. seen' \in Seen
    BY <2>3 DEF Seen
  <2>5. buffer' \in Seq(Ids)
    BY <2>1, SeqAppend
  <2> QED
    BY <1>4, <2>1, <2>4, <2>5 DEF Enqueue
<1>5. CASE StoreOnly
  <2>1. [row EXCEPT !.exists = TRUE] \in Row
    BY DEF Row
  <2>2. row' \in Row
    BY <1>5, <2>1, TouchFields DEF StoreOnly
  <2> QED
    BY <1>5, <2>2 DEF StoreOnly, Arrives
<1>6. CASE Flush
  <2>1. waiting' \in Seq(Seq(Ids)) /\ buffer' \in Seq(Ids)
    BY <1>6, SeqAppend, EmptySeq DEF Flush
  <2>2. \A b \in DOMAIN waiting' : waiting'[b] # <<>>
    BY <1>6, SeqAppend DEF Flush
  <2> QED
    BY <1>6, <2>1, <2>2 DEF Flush
<1> QED
  BY <1>1, <1>2, <1>3, <1>4, <1>5, <1>6

\* Taking the lock and storing the burst.
LEMMA LockTyped ==
    ASSUME Typed, TakeLock \/ PersistFragment
    PROVE  Typed'
<1> USE SaidIds DEF Typed, TypeOK, WorkAtHand
<1>1. CASE TakeLock
  <2>1. row' \in Row
    BY <1>1 DEF TakeLock, Row
  <2>2. /\ Head(waiting) \in Seq(Ids) /\ Head(waiting) # <<>>
        /\ waiting' \in Seq(Seq(Ids))
        /\ \A b \in DOMAIN waiting' : waiting'[b] # <<>>
    BY <1>1, SeqTail DEF TakeLock
  <2>3. ASSUME NEW b \in Seq(Ids), NEW r \in Row
        PROVE  LET p == [IdleProc EXCEPT !.pc = "persist", !.burst = b, !.todo = b, !.copy = r]
               IN  p \in Proc /\ p.todo = b /\ p.pc = "persist"
    BY RecordsTyped DEF Proc
  <2>4. proc' \in Proc /\ proc'.todo # <<>> /\ proc'.pc = "persist"
    BY <1>1, <2>1, <2>2, <2>3 DEF TakeLock
  <2> QED
    BY <1>1, <2>1, <2>2, <2>4 DEF TakeLock
<1>2. CASE PersistFragment
  <2>1. /\ Head(proc.todo) \in Ids /\ Tail(proc.todo) \in Seq(Ids)
        /\ Tail(proc.todo) = <<>> <=> Len(proc.todo) = 1
    BY <1>2, SeqTail DEF PersistFragment, Proc
  <2>2. /\ proc' \in Proc /\ seen' \in Seen
        /\ proc'.pc = "persist" => proc'.todo # <<>>
        /\ proc'.pc # "abstain"
    <3>1. CASE Admit(proc.copy)
      BY <3>1, AdmitTyped DEF Proc
    <3>2. ASSUME NEW pc \in {"fetch", "persist"}
          PROVE  LET p == [proc EXCEPT !.todo = Tail(proc.todo), !.pc = pc]
                 IN  p \in Proc /\ p.pc = pc /\ p.todo = Tail(proc.todo)
      BY <2>1 DEF Proc
    <3>3. CASE /\ proc' = [proc EXCEPT !.todo = Tail(@),
                              !.pc = IF Len(proc.todo) = 1 THEN "fetch" ELSE "persist"]
               /\ UNCHANGED seen
      BY <2>1, <3>2, <3>3
    <3> QED
      BY <1>2, <3>1, <3>3 DEF PersistFragment
  <2> QED
    BY <1>2, <2>1, <2>2, TouchFields DEF PersistFragment
<1> QED
  BY <1>1, <1>2

\* The next message of a transcript.
LEMMA FillTyped ==
    ASSUME TypeOK, NEW m \in Ids, NEW todo, Fill(m, todo)
    PROVE  seen' \in Seen /\ stored' \subseteq Ids
<1>1. {n \in {m} : UnderWay(n)} \subseteq Ids
  OBVIOUS
<1>2. ASSUME NEW S \in SUBSET Ids
      PROVE  [seen EXCEPT !.overtaken = @ \cup S] \in Seen
  BY DEF TypeOK, Seen
<1> QED
  BY <1>1, <1>2 DEF Fill, TypeOK

\* The first-sight backfill and the turn.
LEMMA ProcessTyped ==
    ASSUME Typed, \/ FetchTranscript \/ FillTranscript \/ MarkBackfilled \/ Reread \/ Abstain
                  \/ TurnMoves \/ TurnEnds \/ TurnRereads
    PROVE  Typed'
<1> USE SaidIds, RecordsTyped DEF Typed, TypeOK, WorkAtHand
<1>1. CASE FetchTranscript
  <2>1. Transcript \subseteq Ids
    BY DEF Transcript
  <2>2. proc' \in Proc /\ proc'.pc \in {"fill", "mark"}
    BY <1>1, <2>1 DEF FetchTranscript, Proc
  <2> QED
    BY <1>1, <2>2 DEF FetchTranscript
<1>2. CASE FillTranscript
  <2>1. PICK m \in Ids :
           /\ Fill(m, proc.fill)
           /\ proc' = [proc EXCEPT !.fill  = @ \ {m},
                          !.found = IF m \in Ids \ stored THEN "prior_history" ELSE @,
                          !.pc    = IF proc.fill = {m} THEN "mark" ELSE "fill"]
    BY <1>2 DEF FillTranscript, FillNext
  <2>2. proc' \in Proc /\ proc'.pc \in {"fill", "mark"}
    BY <2>1 DEF Proc
  <2>3. seen' \in Seen /\ stored' \subseteq Ids
    BY <2>1, FillTyped
  <2> QED
    BY <1>2, <2>2, <2>3 DEF FillTranscript, FillNext
<1>3. CASE MarkBackfilled
  <2>1. [row EXCEPT !.backfilled = TRUE] \in Row
    BY DEF Row
  <2>2. /\ proc' \in Proc /\ proc'.pc # "persist"
        /\ proc'.pc = "abstain" => proc'.found # "fresh"
    BY <1>3 DEF MarkBackfilled, Proc
  <2> QED
    BY <1>3, <2>1, <2>2, TouchFields DEF MarkBackfilled
<1>4. CASE Reread
  <2>1. proc' \in Proc /\ seen' \in Seen /\ proc'.pc \in {"idle", "turn"}
    BY <1>4, AdmitTyped DEF Reread, Proc
  <2> QED
    BY <1>4, <2>1 DEF Reread
<1>5. CASE Abstain
  <2>1. [row EXCEPT !.botEnabled = FALSE, !.reason = proc.found] \in Row
    <3>1. proc.found \in {"prior_history", "backfill_failed"}
      BY <1>5 DEF Abstain, Proc
    <3> QED
      BY <3>1 DEF Row
  <2>2. Elements(proc.burst) \subseteq Ids
    BY SeqElements DEF Proc
  <2>3. seen' \in Seen
    BY <1>5, <2>2 DEF Abstain, Ignore, Seen
  <2> QED
    BY <1>5, <2>1, <2>3, TouchFields DEF Abstain
<1>6. CASE TurnMoves
  <2>1. ASSUME NEW flow \in {"awaiting", "completed", "human_needed"}
        PROVE  [row EXCEPT !.flow = flow] \in Row
    BY DEF Row, FlowStates, Admitting
  <2>2. row' \in Row
    BY <1>6, <2>1, TouchFields DEF TurnMoves
  <2>3. proc' \in Proc /\ proc'.pc \in {"say", "idle"}
    BY <1>6 DEF TurnMoves, Proc
  <2> QED
    BY <1>6, <2>2, <2>3 DEF TurnMoves
<1>7. CASE TurnEnds
  BY <1>7, TouchFields DEF TurnEnds
<1>8. CASE TurnRereads
  <2>1. proc' \in Proc /\ proc'.pc = "turn"
    BY <1>8 DEF TurnRereads, Proc
  <2> QED
    BY <1>8, <2>1 DEF TurnRereads
<1> QED
  BY <1>1, <1>2, <1>3, <1>4, <1>5, <1>6, <1>7, <1>8

\* The agent's message.
LEMMA AgentTyped ==
    ASSUME Typed, AgentArrives \/ HandleAgent
    PROVE  Typed'
<1> USE SaidIds, RecordsTyped DEF Typed, TypeOK, WorkAtHand
<1>0. ASSUME NEW pc \in {"idle", "persist", "stop", "first", "abstain", "insert"}, AgentAt(pc)
      PROVE  agent' \in Agent /\ agent'.pc = pc /\ agent'.msg = agent.msg /\ agent'.todo = agent.todo
  BY <1>0 DEF AgentAt, Agent
<1>1. CASE AgentArrives
  <2>1. PICK m \in Ids : /\ wire' = wire \ {m}
                         /\ agent' = [pc   |-> IF buffer = <<>> THEN "stop" ELSE "persist",
                                      msg  |-> m,
                                      todo |-> buffer]
    BY <1>1 DEF AgentArrives, Arrives
  <2>2. /\ agent' \in Agent /\ agent'.msg = m /\ m # 0
        /\ agent'.pc = "persist" <=> agent'.todo # <<>>
        /\ agent'.pc # "idle"
    BY <2>1 DEF Agent, Ids
  <2>3. row' \in Row /\ buffer' \in Seq(Ids)
    BY <1>1, EmptySeq DEF AgentArrives, Row
  <2> QED
    BY <1>1, <2>1, <2>2, <2>3 DEF AgentArrives
<1>2. CASE AgentPersists
  <2>1. /\ Head(agent.todo) \in Ids /\ Tail(agent.todo) \in Seq(Ids)
        /\ Tail(agent.todo) = <<>> <=> Len(agent.todo) = 1
        /\ Len(agent.todo) >= 1 /\ Len(agent.todo) \in Nat
    <3>1. agent.todo \in Seq(Ids) /\ agent.todo # <<>>
      BY <1>2 DEF AgentPersists, Agent
    <3> QED
      BY <3>1, SeqTail, LenProperties
  <2>2. /\ agent' \in Agent /\ agent'.msg = agent.msg
        /\ agent'.pc = "persist" <=> agent'.todo # <<>>
        /\ agent'.pc # "idle"
    <3>1. ASSUME NEW pc \in {"stop", "persist"}
          PROVE  LET a == [agent EXCEPT !.todo = Tail(agent.todo), !.pc = pc]
                 IN  /\ a \in Agent /\ a.pc = pc /\ a.msg = agent.msg
                     /\ a.todo = Tail(agent.todo)
      BY <2>1 DEF Agent
    <3>2. agent' = [agent EXCEPT !.todo = Tail(agent.todo),
                                 !.pc = IF Len(agent.todo) > 1 THEN "persist" ELSE "stop"]
      BY <1>2 DEF AgentPersists
    <3>3. CASE Len(agent.todo) = 1
      BY <2>1, <3>1, <3>2, <3>3
    <3>4. CASE Len(agent.todo) # 1
      <4>1. Len(agent.todo) > 1
        BY <2>1, <3>4
      <4> QED
        BY <2>1, <3>1, <3>2, <3>4, <4>1
    <3> QED
      BY <3>3, <3>4
  <2>3. seen' \in Seen
    BY <1>2, <2>1 DEF AgentPersists, Seen
  <2> QED
    BY <1>2, <2>1, <2>2, <2>3, TouchFields DEF AgentPersists
<1>3. CASE AgentStops
  <2>1. [row EXCEPT !.flow = "stopped"] \in Row
    BY DEF Row, FlowStates
  <2>2. seen' \in Seen
    BY <1>3 DEF AgentStops, Seen
  <2> QED
    BY <1>0, <1>3, <2>1, <2>2, TouchFields DEF AgentStops
<1>4. CASE AgentLooks
  BY <1>0, <1>4 DEF AgentLooks
<1>5. CASE AgentSpokeFirst
  <2>1. [row EXCEPT !.botEnabled = FALSE, !.reason = "outbound_first"] \in Row
    BY DEF Row
  <2> QED
    BY <1>0, <1>5, <2>1, TouchFields DEF AgentSpokeFirst
<1>6. CASE AgentStored
  <2>1. agent.msg \in Ids
    BY <1>6 DEF AgentStored, Agent
  <2> QED
    BY <1>6, <2>1, TouchFields DEF AgentStored
<1> QED
  BY <1>1, <1>2, <1>3, <1>4, <1>5, <1>6 DEF HandleAgent

\* Stopping the conversation settles nothing by itself.
LEMMA StopsUnheard ==
    ASSUME seen \in Seen, AgentStops
    PROVE  UNCHANGED <<seen.heard, seen.accepted, seen.handed, seen.ignored, seen.overtaken>>
BY DEF AgentStops, Seen

\* A reminder is counted, and counted as late after a takeover.
LEMMA RemindTyped ==
    ASSUME row \in Row, seen \in Seen, Remind
    PROVE  /\ row' \in Row /\ seen' \in Seen
           /\ row'.reprompts = row.reprompts /\ row'.flow = row.flow
           /\ seen'.reminders = seen.reminders + 1
           /\ seen'.late = IF row.flow = "stopped" THEN seen.late + 1 ELSE seen.late
<1>1. ASSUME NEW n \in Nat, NEW l \in Nat, seen' = [seen EXCEPT !.reminders = n, !.late = l]
      PROVE  seen' \in Seen /\ seen'.reminders = n /\ seen'.late = l
  BY <1>1 DEF Seen
<1>2. seen.reminders + 1 \in Nat /\ seen.late \in Nat /\ seen.late + 1 \in Nat
  BY DEF Seen
<1>3. /\ seen' \in Seen /\ seen'.reminders = seen.reminders + 1
      /\ seen'.late = IF row.flow = "stopped" THEN seen.late + 1 ELSE seen.late
  <2>1. CASE row.flow = "stopped"
    <3>1. seen' = [seen EXCEPT !.reminders = seen.reminders + 1, !.late = seen.late + 1]
      BY <2>1 DEF Remind
    <3> QED
      BY <1>1, <1>2, <2>1, <3>1
  <2>2. CASE row.flow # "stopped"
    <3>1. seen' = [seen EXCEPT !.reminders = seen.reminders + 1, !.late = seen.late]
      BY <2>2 DEF Remind
    <3> QED
      BY <1>1, <1>2, <2>2, <3>1
  <2> QED
    BY <2>1, <2>2
<1> QED
  BY <1>3, TouchFields DEF Remind

\* The TagAssigner's backfill, the sweep, and faults.
LEMMA OthersTyped ==
    ASSUME Typed, \/ TaggerFetches \/ TaggerFills
                  \/ HoursPass \/ SweepReads \/ SweepSends \/ SweepCounts
                  \/ SweepTimesOut \/ WebhookLost \/ TaskRaises \/ Restart
    PROVE  Typed'
<1> USE SaidIds, RecordsTyped DEF Typed, TypeOK, WorkAtHand
<1>1. CASE TaggerFetches
  BY <1>1 DEF TaggerFetches, Transcript
<1>2. CASE TaggerFills
  <2>1. seen' \in Seen /\ stored' \subseteq Ids /\ tagger' \subseteq Ids
    BY <1>2, FillTyped DEF TaggerFills
  <2> QED
    BY <1>2, <2>1 DEF TaggerFills
<1>3. CASE HoursPass
  <2>1. row' \in Row /\ seen' \in Seen /\ sweep' \in Sweep
    BY <1>3 DEF HoursPass, Row, Sweep
  <2> QED
    BY <1>3, <2>1 DEF HoursPass
<1>4. CASE SweepReads
  <2>1. sweep' \in Sweep
    BY <1>4 DEF SweepReads, Sweep, Row
  <2> QED
    BY <1>4, <2>1 DEF SweepReads
<1>5. CASE SweepSends
  <2>1. sweep' \in Sweep
    BY <1>5 DEF SweepSends, Sweep
  <2> QED
    BY <1>5, <2>1, RemindTyped DEF SweepSends, Remind
<1>10. CASE SweepTimesOut
  BY <1>10, RemindTyped DEF SweepTimesOut, Remind, Fault
<1>6. CASE SweepCounts
  <2>1. ASSUME NEW r \in Row PROVE [r EXCEPT !.reprompts = @ + 1, !.rested = FALSE] \in Row
    <3>1. ASSUME NEW n \in Nat PROVE [r EXCEPT !.reprompts = n, !.rested = FALSE] \in Row
      BY DEF Row
    <3>2. r.reprompts + 1 \in Nat
      BY DEF Row
    <3> QED
      BY <3>1, <3>2
  <2> QED
    BY <1>6, <2>1, TouchFields DEF SweepCounts
<1>7. CASE WebhookLost
  BY <1>7 DEF WebhookLost, Fault
<1>8. CASE TaskRaises
  BY <1>8 DEF TaskRaises, Fault
<1>9. CASE Restart
  BY <1>9, EmptySeq DEF Restart, Fault
<1> QED
  BY <1>1, <1>2, <1>3, <1>4, <1>5, <1>6, <1>7, <1>8, <1>9, <1>10

\* The types hold initially.
LEMMA InitTyped == Init => Typed
<1> SUFFICES ASSUME Init PROVE Typed
  OBVIOUS
<1> USE RecordsTyped, EmptySeq DEF Init
<1>1. said \in Seq(Kinds) /\ Len(said) <= MaxMessages
  <2>1. CASE said = <<>>
    BY <2>1, EmptySeq, BoundsAssumption
  <2>2. CASE MaxMessages > 0 /\ said = <<"lead">>
    BY <2>2, BoundsAssumption DEF Kinds
  <2> QED
    BY <2>1, <2>2
<1>2. seen \in Seen
  BY DEF Seen
<1> QED
  BY <1>1, <1>2, SaidIds DEF Typed, TypeOK, WorkAtHand

\* Every step keeps them.
LEMMA NextTyped == Typed /\ [Next]_vars => Typed'
<1> SUFFICES ASSUME Typed, [Next]_vars PROVE Typed'
  OBVIOUS
<1>1. CASE UNCHANGED vars
  BY <1>1 DEF vars, Typed, TypeOK, WorkAtHand
<1> QED
  BY <1>1, WebhookTyped, LockTyped, ProcessTyped, AgentTyped, OthersTyped DEF Next, Process

\* Every variable keeps its type, and no task is at an insert without one to
\* make, whatever webhooks, turns, agents, sweeps and faults do.
THEOREM TypeCorrect == Spec => []TypeOK
<1>1. Typed => TypeOK
  BY DEF Typed
<1> QED
  BY <1>1, InitTyped, NextTyped, PTL DEF Spec

----------------------------------------------------------------------------
(***************************************************************************)
(* The reminders.  Only the sweep, the clock and the faults matter.        *)
(***************************************************************************)
Sweeping == SweepReads \/ SweepSends \/ SweepCounts \/ HoursPass \/ SweepTimesOut

Faulting == WebhookLost \/ TaskRaises \/ Restart

\* Admitting or ignoring a burst is no reminder.
LEMMA AdmitReminds ==
    ASSUME seen \in Seen, NEW copy, Admit(copy) \/ Ignore(proc.burst)
    PROVE  seen'.reminders = seen.reminders /\ seen'.late = seen.late
<1>1. ASSUME NEW h PROVE [seen EXCEPT !.heard = h].reminders = seen.reminders
                         /\ [seen EXCEPT !.heard = h].late = seen.late
  BY DEF Seen
<1>2. ASSUME NEW h PROVE [seen EXCEPT !.ignored = h].reminders = seen.reminders
                         /\ [seen EXCEPT !.ignored = h].late = seen.late
  BY DEF Seen
<1> QED
  BY <1>1, <1>2 DEF Admit, Ignore

\* Nobody but the sweep reminds or counts, and only an agent stops the
\* conversation, with which the late reminders are counted anew.
LEMMA OthersRemind ==
    ASSUME TypeOK, [Next]_vars, ~Sweeping, ~Faulting
    PROVE  /\ row'.reprompts = row.reprompts
           /\ UNCHANGED <<sweep, faults>>
           /\ seen'.reminders = seen.reminders
           /\ \/ seen'.late = seen.late /\ (row'.flow = "stopped" => row.flow = "stopped")
              \/ seen'.late = 0
<1> USE TouchFields DEF TypeOK
<1>1. CASE Someone \/ Redeliver \/ Duplicate \/ Flush \/ FetchTranscript \/ TurnRereads
           \/ AgentLooks \/ TaggerFetches \/ UNCHANGED vars
  BY <1>1
  DEF Someone, Redeliver, Duplicate, Flush, FetchTranscript, TurnRereads, AgentLooks,
      TaggerFetches, vars
<1>2. CASE Enqueue
  BY <1>2 DEF Enqueue, Seen
<1>3. CASE StoreOnly
  <2>1. LET r == [row EXCEPT !.exists = TRUE]
        IN  r \in Row /\ r.reprompts = row.reprompts /\ r.flow = row.flow
    BY DEF Row
  <2> QED
    BY <1>3, <2>1 DEF StoreOnly
<1>4. CASE TakeLock \/ AgentArrives
  BY <1>4 DEF TakeLock, AgentArrives, Row
<1>5. CASE PersistFragment
  BY <1>5, AdmitReminds DEF PersistFragment
<1>6. CASE FillTranscript \/ TaggerFills
  <2>1. ASSUME NEW o PROVE [seen EXCEPT !.overtaken = o].reminders = seen.reminders
                           /\ [seen EXCEPT !.overtaken = o].late = seen.late
    BY DEF Seen
  <2> QED
    BY <1>6, <2>1 DEF FillTranscript, FillNext, TaggerFills, Fill
<1>7. CASE MarkBackfilled
  <2>1. LET r == [row EXCEPT !.backfilled = TRUE]
        IN  r \in Row /\ r.reprompts = row.reprompts /\ r.flow = row.flow
    BY DEF Row
  <2> QED
    BY <1>7, <2>1 DEF MarkBackfilled
<1>8. CASE Reread
  BY <1>8, AdmitReminds DEF Reread
<1>9. CASE Abstain
  <2>1. row'.reprompts = row.reprompts /\ row'.flow = row.flow
    BY <1>9 DEF Abstain, Touch, Row
  <2> QED
    BY <1>9, <2>1, AdmitReminds DEF Abstain
<1>10. CASE TurnMoves
  BY <1>10 DEF TurnMoves, Touch, Row
<1>11. CASE TurnEnds
  BY <1>11 DEF TurnEnds
<1>12. CASE AgentPersists
  BY <1>12 DEF AgentPersists, Seen
<1>13. CASE AgentStops
  <2>1. row'.reprompts = row.reprompts
    BY <1>13 DEF AgentStops, Touch, Row
  <2>2. /\ seen'.reminders = seen.reminders
        /\ IF row.flow = "stopped" THEN seen'.late = seen.late ELSE seen'.late = 0
    BY <1>13 DEF AgentStops, Seen
  <2> QED
    BY <1>13, <2>1, <2>2 DEF AgentStops
<1>14. CASE AgentSpokeFirst \/ AgentStored
  BY <1>14 DEF AgentSpokeFirst, AgentStored, Touch, Row
<1> QED
  BY <1>1, <1>2, <1>3, <1>4, <1>5, <1>6, <1>7, <1>8, <1>9, <1>10, <1>11, <1>12, <1>13, <1>14
  DEF Next, Process, HandleAgent, Sweeping, Faulting

Reminding == RemindersCounted /\ RemindedLate

\* The reminders' part of the invariant is kept.
LEMMA RemindingKept ==
    ASSUME TypeOK, Reminding, [Next]_vars
    PROVE  Reminding'
<1> USE DEF Reminding, RemindersCounted, RemindedLate
<1>1. /\ row \in Row /\ seen \in Seen /\ sweep \in Sweep /\ faults \in Nat
      /\ row.reprompts \in Nat /\ seen.reminders \in Nat /\ seen.late \in Nat
      /\ Ladder \in Nat \ {0}
  BY BoundsAssumption DEF TypeOK, Row, Seen
<1>2. CASE ~Sweeping /\ ~Faulting
  BY <1>1, <1>2, OthersRemind
<1>3. CASE Faulting
  <2>1. /\ faults' = faults + 1 /\ row' = row /\ seen' = seen
        /\ sweep' = sweep \/ sweep'.pc = "asleep"
    BY <1>3, RecordsTyped DEF Faulting, WebhookLost, TaskRaises, Restart, Fault
  <2> QED
    BY <1>1, <2>1
<1>4. CASE HoursPass
  <2>1. /\ row'.reprompts = row.reprompts /\ row'.flow = row.flow
        /\ UNCHANGED <<seen, faults>>
        /\ sweep' = sweep \/ (sweep.pc = "asleep" /\ sweep'.pc = "due")
    BY <1>1, <1>4 DEF HoursPass, Row, Sweep
  <2> QED
    BY <1>1, <2>1
<1>5. CASE SweepReads
  <2>1. /\ UNCHANGED <<row, seen, faults>> /\ sweep.pc = "due"
        /\ \/ sweep'.pc = "asleep"
           \/ sweep'.pc = "send" /\ row.reprompts < Ladder /\ row.flow = "awaiting"
    BY <1>1, <1>5, RecordsTyped DEF SweepReads, AwaitsReprompt, Pauses
  <2> QED
    BY <1>1, <2>1
<1>6. CASE SweepSends
  <2>1. faults' = faults /\ sweep.pc = "send"
    BY <1>6 DEF SweepSends, Remind
  <2>2. CASE Remind
    <3>1. sweep'.pc = "count" \/ (UNCHANGED <<row, seen>> /\ sweep'.pc = "asleep")
      BY <1>1, <1>6, RecordsTyped DEF SweepSends, Sweep
    <3> QED
      BY <1>1, <2>1, <2>2, <3>1, RemindTyped
  <2>3. CASE UNCHANGED <<row, seen>> /\ sweep'.pc = "asleep"
    BY <1>1, <2>1, <2>3
  <2> QED
    BY <1>6, <2>2, <2>3, RecordsTyped DEF SweepSends
<1>7. CASE SweepCounts
  <2>1. ASSUME NEW r \in Row
        PROVE  LET q == [r EXCEPT !.reprompts = @ + 1, !.rested = FALSE]
               IN  q.reprompts = r.reprompts + 1 /\ q.flow = r.flow
    BY DEF Row
  <2>2. /\ row'.reprompts = row.reprompts + 1 /\ row'.flow = row.flow
        /\ UNCHANGED <<seen, faults>>
        /\ sweep.pc = "count" /\ sweep'.pc = "asleep"
    BY <1>1, <1>7, <2>1, TouchFields, RecordsTyped DEF SweepCounts
  <2> QED
    BY <1>1, <2>2
<1>8. CASE SweepTimesOut
  <2>1. faults' = faults + 1 /\ sweep' = sweep /\ sweep.pc = "send"
    BY <1>8 DEF SweepTimesOut, Fault, Remind
  <2> QED
    BY <1>1, <1>8, <2>1, RemindTyped DEF SweepTimesOut
<1> QED
  BY <1>2, <1>3, <1>4, <1>5, <1>6, <1>7, <1>8 DEF Sweeping

\* It holds initially.
LEMMA InitReminding == Init => Reminding
BY BoundsAssumption
DEF Init, Reminding, RemindersCounted, RemindedLate, NewRow, Asleep

\* It holds in every reachable state.
LEMMA RemindingInvariance == Spec => []Reminding
BY InitReminding, RemindingKept, TypeCorrect, PTL DEF Spec

\* However webhooks, turns, timeouts and faults fall between the sweep's
\* steps: a lead is reminded Ladder times, and once more for each timeout that
\* was no failure and each fault (_run_sweep, send_with_retry).
THEOREM RemindedSoOften == Spec => []RemindersBounded
<1>1. TypeOK /\ Reminding => RemindersBounded
  <2> SUFFICES ASSUME TypeOK, Reminding PROVE RemindersBounded
    OBVIOUS
  <2>1. row.reprompts \in Nat /\ seen.reminders \in Nat /\ faults \in Nat /\ Ladder \in Nat
    BY BoundsAssumption DEF TypeOK, Row, Seen
  <2> QED
    BY <2>1 DEF Reminding, RemindersCounted, RemindersBounded
<1> QED
  BY <1>1, TypeCorrect, RemindingInvariance, PTL

\* After an agent has stopped the conversation the lead gets the one reminder
\* for which the sweep had read the row before, its copies where a send timed
\* out, and no other: the query skips what is stopped.
THEOREM StoppedRemindedOnce == Spec => []LateReminderBounded
<1>1. Reminding => LateReminderBounded
  BY DEF Reminding, RemindedLate, LateReminderBounded
<1> QED
  BY <1>1, RemindingInvariance, PTL

----------------------------------------------------------------------------
(***************************************************************************)
(* Counting: how often a message is in a queue of fragments, and in how    *)
(* many bursts of a queue of bursts.                                       *)
(***************************************************************************)
Times(s, m) == Cardinality({i \in DOMAIN s : s[i] = m})

Bursts(w, m) == Cardinality({b \in DOMAIN w : m \in Elements(w[b])})

\* A set of places in a queue is finite.
LEMMA PlacesFinite ==
    ASSUME NEW n \in Nat, NEW I \in SUBSET (1 .. n)
    PROVE  /\ IsFiniteSet(I) /\ Cardinality(I) \in Nat
           /\ Cardinality(I) = 0 <=> I = {}
<1>1. IsFiniteSet(1 .. n)
  BY FS_Interval
<1>2. IsFiniteSet(I)
  BY <1>1, FS_Subset
<1> QED
  BY <1>2, FS_CardinalityType, FS_EmptySet

\* When something joins the queue, its place is new.
LEMMA PlacesPush ==
    ASSUME NEW n \in Nat, NEW I \in SUBSET (1 .. n)
    PROVE  Cardinality(I \cup {n + 1}) = Cardinality(I) + 1
<1>1. n + 1 \notin I
  OBVIOUS
<1> QED
  BY <1>1, PlacesFinite, FS_AddElement

\* When the first one leaves, everybody moves up.
LEMMA PlacesPop ==
    ASSUME NEW n \in Nat \ {0}, NEW I \in SUBSET (1 .. n), NEW J,
           J = {i \in 1 .. n - 1 : i + 1 \in I}
    PROVE  Cardinality(J) = IF 1 \in I THEN Cardinality(I) - 1 ELSE Cardinality(I)
<1> DEFINE R == I \ {1}
           f == [i \in R |-> i - 1]
<1>1. IsFiniteSet(R)
      /\ Cardinality(R) = IF 1 \in I THEN Cardinality(I) - 1 ELSE Cardinality(I)
  BY PlacesFinite, FS_RemoveElement
<1>2. f \in [R -> J]
  <2>1. ASSUME NEW i \in R PROVE i - 1 \in J
    <3>1. i \in 2 .. n /\ i \in I
      OBVIOUS
    <3>2. i - 1 \in 1 .. n - 1 /\ (i - 1) + 1 = i
      BY <3>1
    <3> QED
      BY <3>1, <3>2
  <2> QED
    BY <2>1
<1>3. \A a, b \in R : f[a] = f[b] => a = b
  OBVIOUS
<1>4. \A j \in J : \E a \in R : f[a] = j
  <2>1. ASSUME NEW j \in J PROVE j + 1 \in R /\ f[j + 1] = j
    <3>1. j \in 1 .. n - 1 /\ j + 1 \in I
      OBVIOUS
    <3>2. j + 1 \in R
      BY <3>1
    <3>3. (j + 1) - 1 = j
      BY <3>1
    <3> QED
      BY <3>2, <3>3
  <2> QED
    BY <2>1
<1>5. ExistsBijection(R, J)
  <2>1. f \in Bijection(R, J)
    <3> HIDE DEF R, f
    <3>1. f \in Injection(R, J)
      BY <1>2, <1>3 DEF Injection, IsInjective
    <3>2. f \in Surjection(R, J)
      BY <1>2, <1>4 DEF Surjection
    <3> QED
      BY <3>1, <3>2 DEF Bijection
  <2> QED
    BY <2>1 DEF ExistsBijection
<1> QED
  BY <1>1, <1>5, FS_Bijection

\* How often a message is in a queue of fragments.
LEMMA TimesIn ==
    ASSUME NEW S, NEW s \in Seq(S), NEW m
    PROVE  /\ Times(s, m) \in Nat
           /\ Times(s, m) > 0 <=> m \in Elements(s)
           /\ Times(<<>>, m) = 0
<1> DEFINE I == {i \in DOMAIN s : s[i] = m}
<1>1. Len(s) \in Nat /\ I \in SUBSET (1 .. Len(s))
  BY LenProperties
<1>2. Cardinality(I) \in Nat /\ (Cardinality(I) = 0 <=> I = {})
  BY <1>1, PlacesFinite
<1>3. I = {} <=> m \notin Elements(s)
  BY DEF Elements
<1>4. Times(<<>>, m) = 0
  <2>1. {i \in DOMAIN <<>> : <<>>[i] = m} = {}
    OBVIOUS
  <2> QED
    BY <2>1, FS_EmptySet DEF Times
<1>5. Times(s, m) = Cardinality(I)
  BY DEF Times
<1> HIDE DEF I
<1> QED
  BY <1>2, <1>3, <1>4, <1>5

LEMMA TimesAppend ==
    ASSUME NEW S, NEW s \in Seq(S), NEW x \in S, NEW m
    PROVE  Times(Append(s, x), m) = Times(s, m) + (IF x = m THEN 1 ELSE 0)
<1> DEFINE I == {i \in DOMAIN s : s[i] = m}
           J == {i \in DOMAIN Append(s, x) : Append(s, x)[i] = m}
<1>1. Len(s) \in Nat /\ I \in SUBSET (1 .. Len(s)) /\ Len(s) + 1 \notin DOMAIN s
  BY LenProperties
<1>2. J = IF x = m THEN I \cup {Len(s) + 1} ELSE I
  BY <1>1, SeqAppend
<1>3. Times(s, m) = Cardinality(I) /\ Times(Append(s, x), m) = Cardinality(J)
  BY DEF Times
<1> HIDE DEF I, J
<1>4. Cardinality(I) \in Nat
  BY <1>1, PlacesFinite
<1>5. x = m => Cardinality(J) = Cardinality(I) + 1
  BY <1>1, <1>2, PlacesPush
<1> QED
  BY <1>2, <1>3, <1>4, <1>5

LEMMA TimesTail ==
    ASSUME NEW S, NEW s \in Seq(S), s # <<>>, NEW m
    PROVE  Times(Tail(s), m) = Times(s, m) - (IF Head(s) = m THEN 1 ELSE 0)
<1> DEFINE I == {i \in DOMAIN s : s[i] = m}
           J == {i \in DOMAIN Tail(s) : Tail(s)[i] = m}
<1>1. /\ Len(s) \in Nat \ {0} /\ I \in SUBSET (1 .. Len(s))
      /\ DOMAIN s = 1 .. Len(s) /\ DOMAIN Tail(s) = 1 .. Len(s) - 1
  BY SeqTail, LenProperties
<1>2. J = {i \in 1 .. Len(s) - 1 : i + 1 \in I}
  BY <1>1, SeqTail
<1>3. Cardinality(J) = IF 1 \in I THEN Cardinality(I) - 1 ELSE Cardinality(I)
  <2> HIDE DEF I, J
  <2> QED
    BY <1>1, <1>2, PlacesPop
<1>4. 1 \in I <=> Head(s) = m
  BY <1>1, SeqTail
<1>5. Times(s, m) = Cardinality(I) /\ Times(Tail(s), m) = Cardinality(J)
  BY DEF Times
<1> HIDE DEF I, J
<1>6. Cardinality(I) \in Nat
  BY <1>1, PlacesFinite
<1> QED
  BY <1>3, <1>4, <1>5, <1>6

\* How many bursts of a queue a message is in.
LEMMA BurstsIn ==
    ASSUME NEW S, NEW w \in Seq(Seq(S)), NEW m
    PROVE  /\ Bursts(w, m) \in Nat
           /\ Bursts(<<>>, m) = 0
<1> DEFINE I == {b \in DOMAIN w : m \in Elements(w[b])}
<1>1. Len(w) \in Nat /\ I \in SUBSET (1 .. Len(w))
  BY LenProperties
<1>2. Cardinality(I) \in Nat
  BY <1>1, PlacesFinite
<1>3. Bursts(<<>>, m) = 0
  <2>1. {b \in DOMAIN <<>> : m \in Elements(<<>>[b])} = {}
    OBVIOUS
  <2> QED
    BY <2>1, FS_EmptySet DEF Bursts
<1> QED
  BY <1>2, <1>3 DEF Bursts

LEMMA BurstsAppend ==
    ASSUME NEW S, NEW w \in Seq(Seq(S)), NEW x \in Seq(S), NEW m
    PROVE  Bursts(Append(w, x), m) = Bursts(w, m) + (IF m \in Elements(x) THEN 1 ELSE 0)
<1> DEFINE I == {b \in DOMAIN w : m \in Elements(w[b])}
           J == {b \in DOMAIN Append(w, x) : m \in Elements(Append(w, x)[b])}
<1>1. Len(w) \in Nat /\ I \in SUBSET (1 .. Len(w)) /\ Len(w) + 1 \notin DOMAIN w
  BY LenProperties
<1>2. J = IF m \in Elements(x) THEN I \cup {Len(w) + 1} ELSE I
  <2>1. /\ DOMAIN Append(w, x) = DOMAIN w \cup {Len(w) + 1}
        /\ \A b \in DOMAIN w : Append(w, x)[b] = w[b]
        /\ Append(w, x)[Len(w) + 1] = x
    BY SeqAppend
  <2> QED
    BY <1>1, <2>1
<1>3. Bursts(w, m) = Cardinality(I) /\ Bursts(Append(w, x), m) = Cardinality(J)
  BY DEF Bursts
<1> HIDE DEF I, J
<1>4. Cardinality(I) \in Nat
  BY <1>1, PlacesFinite
<1>5. m \in Elements(x) => Cardinality(J) = Cardinality(I) + 1
  BY <1>1, <1>2, PlacesPush
<1> QED
  BY <1>2, <1>3, <1>4, <1>5

LEMMA BurstsTail ==
    ASSUME NEW S, NEW w \in Seq(Seq(S)), w # <<>>, NEW m
    PROVE  Bursts(Tail(w), m) = Bursts(w, m) - (IF m \in Elements(Head(w)) THEN 1 ELSE 0)
<1> DEFINE I == {b \in DOMAIN w : m \in Elements(w[b])}
           J == {b \in DOMAIN Tail(w) : m \in Elements(Tail(w)[b])}
<1>1. /\ Len(w) \in Nat \ {0} /\ I \in SUBSET (1 .. Len(w))
  BY SeqTail, LenProperties
<1>2. /\ DOMAIN w = 1 .. Len(w) /\ DOMAIN Tail(w) = 1 .. Len(w) - 1
      /\ Head(w) = w[1] /\ 1 \in DOMAIN w
      /\ \A b \in DOMAIN Tail(w) : b + 1 \in DOMAIN w /\ Tail(w)[b] = w[b + 1]
  BY SeqTail, LenProperties
<1>3. J = {b \in 1 .. Len(w) - 1 : b + 1 \in I}
  BY <1>2
<1>4. Cardinality(J) = IF 1 \in I THEN Cardinality(I) - 1 ELSE Cardinality(I)
  <2>1. Len(w) \in Nat \ {0}
    BY <1>1
  <2> HIDE DEF I, J
  <2> QED
    BY <1>1, <1>3, <2>1, PlacesPop
<1>5. 1 \in I <=> m \in Elements(Head(w))
  BY <1>2
<1>6. Bursts(w, m) = Cardinality(I) /\ Bursts(Tail(w), m) = Cardinality(J)
  BY DEF Bursts
<1> HIDE DEF I, J
<1>7. Cardinality(I) \in Nat
  BY <1>1, PlacesFinite
<1> QED
  BY <1>4, <1>5, <1>6, <1>7

\* The fragment that the holder of the lock still has to decide about.
Held(m) ==
    IF proc.pc \in {"persist", "fetch", "fill", "mark", "reread", "abstain"}
       /\ m \in Elements(proc.burst) THEN 1 ELSE 0

\* Where the copies of a message are.
LEMMA CopiesAre ==
    ASSUME Typed, NEW m
    PROVE  /\ Copies(m) = Times(buffer, m) + Bursts(waiting, m) + Held(m)
                          + Times(agent.todo, m)
           /\ Times(buffer, m) \in Nat /\ Bursts(waiting, m) \in Nat
           /\ Held(m) \in {0, 1} /\ Times(agent.todo, m) \in Nat
           /\ Copies(m) \in Nat
<1>1. /\ Times(buffer, m) \in Nat /\ Bursts(waiting, m) \in Nat
      /\ Times(agent.todo, m) \in Nat /\ Held(m) \in {0, 1}
  BY TimesIn, BurstsIn DEF Typed, TypeOK, Agent, Held
<1>2. Copies(m) = Times(buffer, m) + Bursts(waiting, m) + Held(m) + Times(agent.todo, m)
  BY DEF Copies, Times, Bursts, Held
<1> QED
  BY <1>1, <1>2

LEMMA CopiesWillBe ==
    ASSUME Typed', NEW m
    PROVE  /\ Copies(m)' = Times(buffer', m) + Bursts(waiting', m) + Held(m)'
                           + Times(agent'.todo, m)
           /\ Times(buffer', m) \in Nat /\ Bursts(waiting', m) \in Nat
           /\ Held(m)' \in {0, 1} /\ Times(agent'.todo, m) \in Nat
           /\ Copies(m)' \in Nat
<1>1. /\ Times(buffer', m) \in Nat /\ Bursts(waiting', m) \in Nat
      /\ Times(agent'.todo, m) \in Nat /\ Held(m)' \in {0, 1}
  BY TimesIn, BurstsIn DEF Typed, TypeOK, Agent, Held
<1>2. Copies(m)' = Times(buffer', m) + Bursts(waiting', m) + Held(m)' + Times(agent'.todo, m)
  BY DEF Copies, Times, Bursts, Held
<1> QED
  BY <1>1, <1>2

(***************************************************************************)
(* A fragment is passed from the buffer to a burst and to the turn, or to  *)
(* the agent: nowhere is it copied, and where it is given up the message   *)
(* is settled or a fault has been counted.                                 *)
(***************************************************************************)
Kept(m) ==
    /\ seen'.heard[m] + Copies(m)' + seen.accepted[m]
       <= seen.heard[m] + Copies(m) + seen'.accepted[m]
    /\ Settled(m) => Settled(m)'
    /\ Copies(m) > 0 => Copies(m)' > 0 \/ Settled(m)' \/ faults' > 0

\* Where no turn is admitted, only the fragments have to be looked at.
LEMMA KeptUnheard ==
    ASSUME Typed, Typed', NEW m \in Ids,
           seen'.heard = seen.heard, seen'.accepted = seen.accepted,
           seen.handed \subseteq seen'.handed, seen.ignored \subseteq seen'.ignored,
           Copies(m)' <= Copies(m),
           Copies(m) > 0 => Copies(m)' > 0 \/ Settled(m)' \/ faults' > 0
    PROVE  Kept(m)
<1>1. seen.heard[m] \in Nat /\ seen.accepted[m] \in Nat
  BY DEF Typed, TypeOK, Seen
<1>2. Copies(m) \in Nat /\ Copies(m)' \in Nat
  BY CopiesAre, CopiesWillBe
<1>3. Settled(m) => Settled(m)'
  BY DEF Settled
<1> QED
  BY <1>1, <1>2, <1>3 DEF Kept

\* The buffer, the line for the lock, and the agent who takes the buffer.
LEMMA KeptInLine ==
    ASSUME Typed, Typed', NEW m \in Ids, Flush \/ TakeLock \/ AgentArrives
    PROVE  Kept(m)
<1>1. /\ Copies(m) = Times(buffer, m) + Bursts(waiting, m) + Held(m) + Times(agent.todo, m)
      /\ Times(buffer, m) \in Nat /\ Bursts(waiting, m) \in Nat
      /\ Held(m) \in {0, 1} /\ Times(agent.todo, m) \in Nat
  BY CopiesAre
<1>2. Copies(m)' = Times(buffer', m) + Bursts(waiting', m) + Held(m)' + Times(agent'.todo, m)
  BY CopiesWillBe
<1>3. buffer \in Seq(Ids) /\ waiting \in Seq(Seq(Ids))
  BY DEF Typed, TypeOK
<1>4. Times(<<>>, m) = 0 /\ (Times(buffer, m) > 0 <=> m \in Elements(buffer))
  BY <1>3, TimesIn
<1>5. CASE Flush
  <2>1. Held(m)' = Held(m) /\ agent'.todo = agent.todo /\ buffer' = <<>> /\ UNCHANGED seen
    BY <1>5 DEF Flush, Held
  <2>2. Bursts(waiting', m) = Bursts(waiting, m) + (IF m \in Elements(buffer) THEN 1 ELSE 0)
    BY <1>3, <1>5, BurstsAppend DEF Flush
  <2>3. Copies(m)' <= Copies(m) /\ (Copies(m) > 0 => Copies(m)' > 0)
    BY <1>1, <1>2, <1>4, <2>1, <2>2
  <2> QED
    BY <2>1, <2>3, KeptUnheard
<1>6. CASE TakeLock
  <2>1. waiting # <<>> /\ Head(waiting) \in Seq(Ids)
    BY <1>3, <1>6, SeqTail DEF TakeLock
  <2>2. proc'.pc = "persist" /\ proc'.burst = Head(waiting)
    BY <1>6 DEF TakeLock, IdleProc
  <2>3. /\ Held(m) = 0 /\ Held(m)' = IF m \in Elements(Head(waiting)) THEN 1 ELSE 0
        /\ agent'.todo = agent.todo /\ buffer' = buffer /\ UNCHANGED seen
    BY <1>6, <2>2 DEF TakeLock, Held
  <2>4. Bursts(waiting', m)
        = Bursts(waiting, m) - (IF m \in Elements(Head(waiting)) THEN 1 ELSE 0)
    BY <1>3, <1>6, <2>1, BurstsTail DEF TakeLock
  <2>5. Copies(m)' = Copies(m)
    BY <1>1, <1>2, <2>3, <2>4
  <2>6. Copies(m) \in Nat
    BY CopiesAre
  <2> QED
    BY <2>3, <2>5, <2>6, KeptUnheard
<1>7. CASE AgentArrives
  <2>1. agent.todo = <<>>
    BY <1>7 DEF AgentArrives, Typed, WorkAtHand
  <2>2. /\ agent'.todo = buffer /\ buffer' = <<>> /\ waiting' = waiting
        /\ Held(m)' = Held(m) /\ UNCHANGED seen
    BY <1>7 DEF AgentArrives, Held
  <2>3. Copies(m)' = Copies(m)
    BY <1>1, <1>2, <1>4, <2>1, <2>2
  <2>4. Copies(m) \in Nat
    BY CopiesAre
  <2> QED
    BY <2>2, <2>3, <2>4, KeptUnheard
<1> QED
  BY <1>5, <1>6, <1>7

\* A webhook past the duplicate check brings one more.
LEMMA KeptEnqueued ==
    ASSUME Typed, Typed', NEW m \in Ids, Enqueue
    PROVE  Kept(m)
<1>1. /\ Copies(m) = Times(buffer, m) + Bursts(waiting, m) + Held(m) + Times(agent.todo, m)
      /\ Times(buffer, m) \in Nat /\ Bursts(waiting, m) \in Nat
      /\ Held(m) \in {0, 1} /\ Times(agent.todo, m) \in Nat
  BY CopiesAre
<1>2. Copies(m)' = Times(buffer', m) + Bursts(waiting', m) + Held(m)' + Times(agent'.todo, m)
  BY CopiesWillBe
<1>3. /\ buffer \in Seq(Ids) /\ seen \in Seen
      /\ seen.heard[m] \in Nat /\ seen.accepted[m] \in Nat /\ seen.accepted \in [Ids -> Nat]
  BY DEF Typed, TypeOK, Seen
<1>4. PICK n \in Ids : /\ buffer' = Append(buffer, n)
                       /\ seen' = [seen EXCEPT !.accepted[n] = @ + 1]
  BY DEF Enqueue
<1>5. /\ seen'.heard = seen.heard /\ seen'.handed = seen.handed /\ seen'.ignored = seen.ignored
      /\ seen'.accepted[m] = seen.accepted[m] + (IF n = m THEN 1 ELSE 0)
  <2>1. seen'.accepted = [seen.accepted EXCEPT ![n] = @ + 1]
    BY <1>3, <1>4 DEF Seen
  <2>2. /\ seen'.heard = seen.heard /\ seen'.handed = seen.handed
        /\ seen'.ignored = seen.ignored
    BY <1>3, <1>4 DEF Seen
  <2> QED
    BY <1>3, <2>1, <2>2
<1>6. Times(buffer', m) = Times(buffer, m) + (IF n = m THEN 1 ELSE 0)
  BY <1>3, <1>4, TimesAppend
<1>7. waiting' = waiting /\ agent' = agent /\ Held(m)' = Held(m)
  BY DEF Enqueue, Held
<1>8. Copies(m)' = Copies(m) + (IF n = m THEN 1 ELSE 0)
  BY <1>1, <1>2, <1>6, <1>7
<1>9. Settled(m) => Settled(m)'
  BY <1>5 DEF Settled
<1>10. Copies(m) \in Nat
  BY CopiesAre
<1> QED
  BY <1>3, <1>5, <1>8, <1>9, <1>10 DEF Kept

\* The holder of the lock decides about the whole burst.
LEMMA KeptDecided ==
    ASSUME Typed, Typed', NEW m \in Ids,
           UNCHANGED <<buffer, waiting, agent>>,
           proc.pc \in {"persist", "fetch", "fill", "mark", "reread", "abstain"},
           \/ \E copy \in Row : Admit(copy)
           \/ Ignore(proc.burst) /\ proc' = IdleProc
    PROVE  Kept(m)
<1>1. /\ Copies(m) = Times(buffer, m) + Bursts(waiting, m) + Held(m) + Times(agent.todo, m)
      /\ Times(buffer, m) \in Nat /\ Bursts(waiting, m) \in Nat
      /\ Held(m) \in {0, 1} /\ Times(agent.todo, m) \in Nat
  BY CopiesAre
<1>2. Copies(m)' = Times(buffer', m) + Bursts(waiting', m) + Held(m)' + Times(agent'.todo, m)
  BY CopiesWillBe
<1>3. /\ proc \in Proc /\ seen \in Seen
      /\ seen.heard[m] \in Nat /\ seen.accepted[m] \in Nat
  BY DEF Typed, TypeOK, Seen
<1>4. Held(m) = IF m \in Elements(proc.burst) THEN 1 ELSE 0
  BY DEF Held
<1>5. CASE Ignore(proc.burst) /\ proc' = IdleProc
  <2>1. /\ seen'.heard = seen.heard /\ seen'.accepted = seen.accepted
        /\ seen'.handed = seen.handed
        /\ seen'.ignored = seen.ignored \cup Elements(proc.burst)
    BY <1>3, <1>5 DEF Ignore, Seen
  <2>2. Held(m)' = 0
    BY <1>5, RecordsTyped DEF Held
  <2>3. m \in Elements(proc.burst) => Settled(m)'
    BY <2>1 DEF Settled
  <2>4. /\ Copies(m)' <= Copies(m)
        /\ Copies(m) > 0 => Copies(m)' > 0 \/ Settled(m)'
    BY <1>1, <1>2, <1>4, <2>2, <2>3
  <2> QED
    BY <2>1, <2>4, KeptUnheard
<1>6. CASE /\ seen' = [seen EXCEPT !.heard = [n \in Ids |-> IF n \in Elements(proc.burst)
                                                           THEN @[n] + 1 ELSE @[n]]]
           /\ proc'.pc = "turn"
  <2>1. DEFINE h == [n \in Ids |-> IF n \in Elements(proc.burst) THEN seen.heard[n] + 1
                                   ELSE seen.heard[n]]
  <2>2. h[m] = seen.heard[m] + Held(m)
    BY <1>3, <1>4
  <2>3. seen' = [seen EXCEPT !.heard = h]
    BY <1>6
  <2> HIDE DEF h
  <2>4. /\ seen'.heard[m] = seen.heard[m] + Held(m) /\ seen'.accepted = seen.accepted
        /\ seen'.handed = seen.handed /\ seen'.ignored = seen.ignored
    BY <1>3, <2>2, <2>3 DEF Seen
  <2>5. Held(m)' = 0
    BY <1>6 DEF Held
  <2>6. Copies(m)' = Copies(m) - Held(m)
    BY <1>1, <1>2, <2>5
  <2>7. Settled(m)' <=> (seen.heard[m] + Held(m) > 0 \/ m \in seen.handed \cup seen.ignored)
    BY <2>4 DEF Settled
  <2>8. /\ Settled(m) => Settled(m)'
        /\ Copies(m) > 0 => Copies(m)' > 0 \/ Settled(m)'
    BY <1>1, <1>2, <1>3, <2>6, <2>7 DEF Settled
  <2>9. seen'.heard[m] + Copies(m)' = seen.heard[m] + Copies(m)
    BY <1>1, <1>3, <2>4, <2>6
  <2> QED
    BY <1>1, <1>3, <2>4, <2>8, <2>9 DEF Kept
<1>7. ASSUME NEW copy \in Row, Admit(copy)
      PROVE  \/ Ignore(proc.burst) /\ proc' = IdleProc
             \/ /\ seen' = [seen EXCEPT !.heard = [n \in Ids |-> IF n \in Elements(proc.burst)
                                                            THEN @[n] + 1 ELSE @[n]]]
                /\ proc'.pc = "turn"
  BY <1>3, <1>7 DEF Admit, Proc
<1> QED
  BY <1>5, <1>6, <1>7

\* The agent's handler stores what it took from the buffer.
LEMMA KeptAtAgent ==
    ASSUME Typed, Typed', NEW m \in Ids, HandleAgent
    PROVE  Kept(m)
<1>1. /\ Copies(m) = Times(buffer, m) + Bursts(waiting, m) + Held(m) + Times(agent.todo, m)
      /\ Times(buffer, m) \in Nat /\ Bursts(waiting, m) \in Nat
      /\ Held(m) \in {0, 1} /\ Times(agent.todo, m) \in Nat
  BY CopiesAre
<1>2. /\ Copies(m)' = Times(buffer', m) + Bursts(waiting', m) + Held(m)' + Times(agent'.todo, m)
      /\ Times(agent'.todo, m) \in Nat
  BY CopiesWillBe
<1>3. agent \in Agent /\ agent.todo \in Seq(Ids) /\ seen \in Seen
  BY DEF Typed, TypeOK, Agent
<1>4. UNCHANGED <<buffer, waiting>> /\ Held(m)' = Held(m)
  BY DEF HandleAgent, AgentPersists, AgentStops, AgentLooks, AgentSpokeFirst, AgentStored, Held
<1>5. CASE AgentPersists
  <2>1. agent.todo # <<>> /\ agent'.todo = Tail(agent.todo)
    BY <1>3, <1>5 DEF AgentPersists, Typed, WorkAtHand, Agent
  <2>2. /\ seen'.heard = seen.heard /\ seen'.accepted = seen.accepted
        /\ seen'.ignored = seen.ignored
        /\ seen'.handed = seen.handed \cup {Head(agent.todo)}
    BY <1>3, <1>5 DEF AgentPersists, Seen
  <2>3. Times(agent'.todo, m)
        = Times(agent.todo, m) - (IF Head(agent.todo) = m THEN 1 ELSE 0)
    BY <1>3, <2>1, TimesTail
  <2>4. m = Head(agent.todo) => Settled(m)'
    BY <2>2 DEF Settled
  <2>5. /\ Copies(m)' <= Copies(m)
        /\ Copies(m) > 0 => Copies(m)' > 0 \/ Settled(m)'
    BY <1>1, <1>2, <1>4, <2>3, <2>4
  <2> QED
    BY <2>2, <2>5, KeptUnheard
<1>6. CASE AgentStops \/ AgentLooks \/ AgentSpokeFirst \/ AgentStored
  <2>1. /\ agent'.todo = agent.todo
        /\ UNCHANGED <<seen.heard, seen.accepted, seen.handed, seen.ignored>>
    <3>1. CASE AgentStored
      BY <3>1, RecordsTyped DEF AgentStored, Typed, WorkAtHand
    <3>2. CASE AgentStops \/ AgentLooks \/ AgentSpokeFirst
      BY <1>3, <3>2, StopsUnheard DEF AgentStops, AgentLooks, AgentSpokeFirst, AgentAt, Agent
    <3> QED
      BY <1>6, <3>1, <3>2
  <2>2. Copies(m)' = Copies(m)
    BY <1>1, <1>2, <1>4, <2>1
  <2>3. Copies(m) \in Nat
    BY CopiesAre
  <2> QED
    BY <2>1, <2>2, <2>3, KeptUnheard
<1> QED
  BY <1>5, <1>6 DEF HandleAgent

\* An exception or a restart gives fragments up, and is counted.
LEMMA KeptFault ==
    ASSUME Typed, Typed', NEW m \in Ids, WebhookLost \/ TaskRaises \/ Restart
    PROVE  Kept(m)
<1>1. /\ Copies(m) = Times(buffer, m) + Bursts(waiting, m) + Held(m) + Times(agent.todo, m)
      /\ Times(buffer, m) \in Nat /\ Bursts(waiting, m) \in Nat
      /\ Held(m) \in {0, 1} /\ Times(agent.todo, m) \in Nat
  BY CopiesAre
<1>2. Copies(m)' = Times(buffer', m) + Bursts(waiting', m) + Held(m)' + Times(agent'.todo, m)
  BY CopiesWillBe
<1>3. faults' > 0 /\ UNCHANGED seen
  BY DEF WebhookLost, TaskRaises, Restart, Fault, Typed, TypeOK
<1>4. Times(<<>>, m) = 0 /\ Bursts(<<>>, m) = 0
  <2>1. buffer \in Seq(Ids) /\ waiting \in Seq(Seq(Ids))
    BY DEF Typed, TypeOK
  <2> QED
    BY <2>1, TimesIn, BurstsIn
<1>5. /\ buffer' \in {buffer, <<>>} /\ waiting' \in {waiting, <<>>}
      /\ proc' \in {proc, IdleProc} /\ agent' \in {agent, IdleAgent}
  BY DEF WebhookLost, TaskRaises, Restart
<1>6. /\ Times(buffer', m) <= Times(buffer, m) /\ Bursts(waiting', m) <= Bursts(waiting, m)
      /\ Held(m)' <= Held(m) /\ Times(agent'.todo, m) <= Times(agent.todo, m)
  <2>1. Held(m)' \in {Held(m), 0}
    BY <1>5, RecordsTyped DEF Held
  <2>2. agent'.todo \in {agent.todo, <<>>}
    BY <1>5, RecordsTyped
  <2> QED
    BY <1>1, <1>4, <1>5, <2>1, <2>2
<1>7. Copies(m)' <= Copies(m)
  <2>1. Copies(m)' \in Nat /\ Times(buffer', m) \in Nat /\ Bursts(waiting', m) \in Nat
        /\ Held(m)' \in {0, 1} /\ Times(agent'.todo, m) \in Nat
    BY CopiesWillBe
  <2> QED
    BY <1>1, <1>2, <1>6, <2>1
<1> QED
  BY <1>3, <1>7, KeptUnheard

\* The backfills add to the history only what they overtake.
LEMMA FillSeen ==
    ASSUME seen \in Seen, NEW n \in Ids, NEW todo, Fill(n, todo)
    PROVE  /\ seen'.heard = seen.heard /\ seen'.accepted = seen.accepted
           /\ seen'.handed = seen.handed /\ seen'.ignored = seen.ignored
           /\ seen.overtaken \subseteq seen'.overtaken
           /\ stored' = stored \cup {n}
           /\ n \notin stored /\ UnderWay(n) => n \in seen'.overtaken
BY DEF Fill, Seen

\* The steps that leave the fragments where they are.
Elsewhere ==
    \/ Someone \/ Redeliver \/ Duplicate \/ StoreOnly
    \/ FetchTranscript \/ FillTranscript \/ MarkBackfilled
    \/ TurnRereads \/ TurnMoves \/ TurnEnds
    \/ TaggerFetches \/ TaggerFills
    \/ HoursPass \/ SweepReads \/ SweepSends \/ SweepTimesOut \/ SweepCounts
    \/ PersistFragment /\ proc'.pc \in {"fetch", "persist"}
    \/ UNCHANGED vars

LEMMA HistoryElsewhere ==
    ASSUME Typed, Elsewhere
    PROVE  /\ seen'.heard = seen.heard /\ seen'.accepted = seen.accepted
           /\ seen'.handed = seen.handed /\ seen'.ignored = seen.ignored
           /\ seen.overtaken \subseteq seen'.overtaken
<1>1. seen \in Seen /\ proc \in Proc
  BY DEF Typed, TypeOK
<1>2. CASE FillTranscript \/ TaggerFills
  BY <1>1, <1>2, FillSeen DEF FillTranscript, FillNext, TaggerFills
<1>3. CASE HoursPass \/ SweepSends \/ SweepTimesOut
  BY <1>1, <1>3 DEF HoursPass, SweepSends, SweepTimesOut, Remind, Seen
<1>4. CASE PersistFragment /\ proc'.pc \in {"fetch", "persist"}
  BY <1>1, <1>4, RecordsTyped DEF PersistFragment, Admit, Proc
<1>5. CASE Someone \/ Redeliver \/ Duplicate \/ StoreOnly \/ UNCHANGED vars
  BY <1>5 DEF Someone, Redeliver, Duplicate, StoreOnly, vars
<1>6. CASE \/ FetchTranscript \/ MarkBackfilled \/ TurnRereads \/ TurnMoves \/ TurnEnds
           \/ TaggerFetches \/ SweepReads \/ SweepCounts
  BY <1>6 DEF FetchTranscript, MarkBackfilled, TurnRereads, TurnMoves, TurnEnds,
              TaggerFetches, SweepReads, SweepCounts
<1> QED
  BY <1>2, <1>3, <1>4, <1>5, <1>6 DEF Elsewhere

LEMMA KeptElsewhere ==
    ASSUME Typed, Typed', NEW m \in Ids, Elsewhere
    PROVE  Kept(m)
<1>1. proc \in Proc
  BY DEF Typed, TypeOK
<1>2. /\ seen'.heard = seen.heard /\ seen'.accepted = seen.accepted
      /\ seen'.handed = seen.handed /\ seen'.ignored = seen.ignored
  BY HistoryElsewhere
<1>3. UNCHANGED <<buffer, waiting, agent>>
  BY DEF Someone, Redeliver, Duplicate, StoreOnly, FetchTranscript, FillTranscript, FillNext,
         MarkBackfilled, TurnRereads, TurnMoves, TurnEnds, TaggerFetches, TaggerFills,
         HoursPass, SweepReads, SweepSends, SweepTimesOut, Remind, Fault, SweepCounts, PersistFragment, vars, Elsewhere
<1>4. Held(m)' = Held(m)
  <2>1. CASE FetchTranscript \/ FillTranscript \/ MarkBackfilled
    BY <1>1, <2>1 DEF FetchTranscript, FillTranscript, FillNext, MarkBackfilled, Held, Proc
  <2>2. CASE TurnRereads \/ TurnMoves \/ TurnEnds
    BY <1>1, <2>2, RecordsTyped DEF TurnRereads, TurnMoves, TurnEnds, Held, Proc
  <2>3. CASE PersistFragment /\ proc'.pc \in {"fetch", "persist"}
    <3>1. proc'.burst = proc.burst
      BY <1>1, <2>3, RecordsTyped DEF PersistFragment, Admit, Proc
    <3> QED
      BY <2>3, <3>1 DEF PersistFragment, Held
  <2>4. CASE UNCHANGED proc
    BY <2>4 DEF Held
  <2> QED
    BY <2>1, <2>2, <2>3, <2>4 DEF Someone, Redeliver, Duplicate, StoreOnly, TaggerFetches,
        TaggerFills, HoursPass, SweepReads, SweepSends, SweepTimesOut, Remind, Fault, SweepCounts, vars, Elsewhere
<1>5. Copies(m)' = Copies(m) /\ Copies(m) \in Nat
  BY <1>3, <1>4, CopiesAre, CopiesWillBe
<1> QED
  BY <1>2, <1>5, KeptUnheard

\* So it is in every step.
LEMMA FragmentsKept ==
    ASSUME Typed, [Next]_vars, NEW m \in Ids
    PROVE  Kept(m)
<1>1. Typed'
  BY NextTyped
<1>2. row \in Row /\ proc \in Proc
  BY DEF Typed, TypeOK
<1>3. CASE PersistFragment
  <2>1. CASE Admit(proc.copy)
    BY <1>1, <1>2, <1>3, <2>1, KeptDecided DEF PersistFragment, Proc
  <2>2. CASE proc'.pc \in {"fetch", "persist"}
    BY <1>1, <1>3, <2>2, KeptElsewhere DEF Elsewhere
  <2> QED
    BY <1>2, <1>3, <2>1, <2>2 DEF PersistFragment, Proc
<1>4. CASE Reread \/ Abstain
  BY <1>1, <1>2, <1>4, KeptDecided DEF Reread, Abstain
<1>5. CASE Process
  BY <1>1, <1>3, <1>4, <1>5, KeptInLine, KeptElsewhere DEF Process, Elsewhere
<1> QED
  BY <1>1, <1>5, KeptInLine, KeptEnqueued, KeptAtAgent, KeptFault, KeptElsewhere
  DEF Next, Elsewhere

----------------------------------------------------------------------------
(***************************************************************************)
(* Where messages come from, and that a burst is in the table before it is *)
(* decided about.                                                          *)
(***************************************************************************)
Placed == Typed /\ Provenance /\ StoredFirst

\* The thread grows at its end.
LEMMA ThreadGrows ==
    ASSUME Typed, [Next]_vars
    PROVE  /\ DOMAIN said \subseteq DOMAIN said'
           /\ \A m \in DOMAIN said : said'[m] = said[m]
           /\ Leads \subseteq Leads' /\ Transcript \subseteq Transcript'
           /\ old' = old
           /\ Someone \/ said' = said
<1>1. CASE Someone
  <2>1. PICK kind \in Kinds : said' = Append(said, kind)
    BY <1>1 DEF Someone
  <2>2. /\ DOMAIN said \subseteq DOMAIN said' /\ \A m \in DOMAIN said : said'[m] = said[m]
    BY <2>1, SeqAppend DEF Typed, TypeOK
  <2> QED
    BY <1>1, <2>2 DEF Someone, Leads, Transcript
<1>2. CASE UNCHANGED <<said, old>>
  BY <1>2 DEF Leads, Transcript
<1> QED
  BY <1>1, <1>2 DEF Next, Redeliver, Duplicate, Enqueue, StoreOnly, Flush, Process,
      TurnRereads, AgentArrives, HandleAgent, TaggerFetches, TaggerFills, HoursPass,
      SweepReads, SweepSends, SweepTimesOut, Remind, Fault, SweepCounts, WebhookLost,
      TaskRaises, Restart,
      TakeLock, PersistFragment, FetchTranscript, FillTranscript, FillNext, MarkBackfilled,
      Reread, Abstain, TurnMoves, TurnEnds, AgentPersists, AgentStops, AgentLooks,
      AgentSpokeFirst, AgentStored, vars

\* A message is settled in its turn or by the agent, and not before it is
\* in the table.
LEMMA SettledBy ==
    ASSUME Typed, [Next]_vars, NEW m \in Ids, Settled(m)'
    PROVE  \/ Settled(m)
           \/ /\ PersistFragment \/ Reread \/ Abstain
              /\ m \in Elements(proc.burst) /\ proc'.pc \in {"idle", "turn"}
           \/ AgentPersists /\ m = Head(agent.todo)
<1>1. /\ seen \in Seen /\ proc \in Proc /\ row \in Row
      /\ seen.heard[m] \in Nat /\ seen.heard \in [Ids -> Nat] /\ agent \in Agent
  BY DEF Typed, TypeOK, Seen
<1>2. ASSUME NEW copy \in Row, Admit(copy)
      PROVE  /\ Settled(m) \/ m \in Elements(proc.burst)
             /\ proc'.pc \in {"idle", "turn"}
  <2>1. proc'.pc \in {"idle", "turn"}
    BY <1>1, <1>2, RecordsTyped DEF Admit, Proc
  <2>2. CASE Ignore(proc.burst)
    BY <1>1, <2>1, <2>2 DEF Ignore, Settled, Seen
  <2>3. CASE seen' = [seen EXCEPT !.heard = [n \in Ids |-> IF n \in Elements(proc.burst)
                                                      THEN @[n] + 1 ELSE @[n]]]
    <3>1. DEFINE h == [n \in Ids |-> IF n \in Elements(proc.burst) THEN seen.heard[n] + 1
                                     ELSE seen.heard[n]]
    <3>2. m \notin Elements(proc.burst) => h[m] = seen.heard[m]
      OBVIOUS
    <3>3. seen' = [seen EXCEPT !.heard = h]
      BY <2>3
    <3> HIDE DEF h
    <3>4. /\ seen'.heard = h /\ seen'.handed = seen.handed /\ seen'.ignored = seen.ignored
      BY <1>1, <3>3 DEF Seen
    <3> QED
      BY <2>1, <3>2, <3>4 DEF Settled
  <2> QED
    BY <1>2, <2>2, <2>3 DEF Admit
<1>3. CASE Elsewhere
  BY <1>3, HistoryElsewhere DEF Settled
<1>4. CASE PersistFragment
  BY <1>1, <1>2, <1>3, <1>4 DEF PersistFragment, Proc, Elsewhere
<1>5. CASE Reread
  BY <1>1, <1>2, <1>5 DEF Reread
<1>6. CASE Abstain
  BY <1>1, <1>6, RecordsTyped DEF Abstain, Ignore, Settled, Seen
<1>7. CASE AgentPersists
  BY <1>1, <1>7 DEF AgentPersists, Settled, Seen
<1>8. CASE Enqueue
  BY <1>1, <1>8 DEF Enqueue, Settled, Seen
<1>9. CASE UNCHANGED seen
  BY <1>9 DEF Settled
<1>10. CASE AgentStops
  BY <1>1, <1>10, StopsUnheard DEF Settled
<1> QED
  BY <1>3, <1>4, <1>5, <1>6, <1>7, <1>8, <1>9, <1>10 DEF Next, Process, HandleAgent,
     Elsewhere, Flush, TakeLock, AgentArrives, AgentLooks, AgentSpokeFirst, AgentStored,
     WebhookLost, TaskRaises, Restart

\* Nothing leaves the messages table.
LEMMA StoredGrows ==
    ASSUME [Next]_vars
    PROVE  stored \subseteq stored'
BY DEF Next, Someone, Redeliver, Duplicate, Enqueue, StoreOnly, Flush, Process,
   TurnRereads, AgentArrives, HandleAgent, TaggerFetches, TaggerFills, HoursPass,
   SweepReads, SweepSends, SweepTimesOut, Remind, Fault, SweepCounts, WebhookLost, TaskRaises,
   Restart,
   TakeLock, PersistFragment, FetchTranscript, FillTranscript, FillNext, Fill,
   MarkBackfilled, Reread, Abstain, TurnMoves, TurnEnds, AgentPersists, AgentStops,
   AgentLooks, AgentSpokeFirst, AgentStored, vars

\* The webhooks, the buffer and the line.
LEMMA WebhookPlaced ==
    ASSUME Placed, Someone \/ Redeliver \/ Duplicate \/ Enqueue \/ StoreOnly \/ Flush
    PROVE  Provenance'
<1>1. /\ DOMAIN said \subseteq DOMAIN said' /\ \A m \in DOMAIN said : said'[m] = said[m]
      /\ Leads \subseteq Leads' /\ Transcript \subseteq Transcript' /\ old' = old
      /\ Someone \/ said' = said
  BY ThreadGrows DEF Placed, Next
<1>2. /\ buffer \in Seq(Ids) /\ waiting \in Seq(Seq(Ids)) /\ Len(said) \in Nat
      /\ said \in Seq(Kinds)
  BY SaidIds DEF Placed, Typed, TypeOK
<1>3. (old \cup wire \cup stored \subseteq DOMAIN said)'
  <2>1. CASE Someone
    <3>1. Len(said) + 1 \in DOMAIN said'
      BY <1>2, <2>1, SeqAppend DEF Someone
    <3> QED
      BY <1>1, <2>1, <3>1 DEF Someone, Placed, Provenance
  <2>2. CASE Redeliver \/ Duplicate \/ Enqueue \/ StoreOnly \/ Flush
    BY <1>1, <2>2 DEF Redeliver, Duplicate, Enqueue, StoreOnly, Flush, Arrives,
                      Placed, Provenance
  <2> QED
    BY <2>1, <2>2
<1>4. UNCHANGED <<tagger, proc, agent>>
  BY DEF Someone, Redeliver, Duplicate, Enqueue, StoreOnly, Flush
<1>5. (tagger \cup proc.fill \subseteq Transcript)'
  BY <1>1, <1>4 DEF Placed, Provenance
<1>6. Elements(buffer') \subseteq Leads'
  <2>1. CASE Enqueue
    <3>1. PICK m \in Ids : m \in wire /\ said[m] = "lead" /\ buffer' = Append(buffer, m)
      BY <2>1 DEF Enqueue, Arrives
    <3>2. m \in Leads
      BY <3>1 DEF Placed, Provenance, Leads
    <3>3. Elements(buffer') = Elements(buffer) \cup {m}
      BY <1>2, <3>1, SeqAppend
    <3> QED
      BY <1>1, <3>2, <3>3 DEF Placed, Provenance
  <2>2. CASE Flush
    BY <2>2, SeqElements DEF Flush
  <2>3. CASE UNCHANGED buffer
    BY <1>1, <2>3 DEF Placed, Provenance
  <2> QED
    BY <2>1, <2>2, <2>3 DEF Someone, Redeliver, Duplicate, StoreOnly
<1>7. \A b \in DOMAIN waiting' : Elements(waiting'[b]) \subseteq Leads'
  <2>1. CASE Flush
    <3>1. /\ DOMAIN waiting' = DOMAIN waiting \cup {Len(waiting) + 1}
          /\ waiting'[Len(waiting) + 1] = buffer
          /\ \A b \in DOMAIN waiting : waiting'[b] = waiting[b]
      BY <1>2, <2>1, SeqAppend DEF Flush
    <3> QED
      BY <1>1, <3>1 DEF Placed, Provenance
  <2>2. CASE UNCHANGED waiting
    BY <1>1, <2>2 DEF Placed, Provenance
  <2> QED
    BY <2>1, <2>2 DEF Someone, Redeliver, Duplicate, StoreOnly, Enqueue
<1>8. /\ Elements(proc'.burst) \cup Elements(agent'.todo) \subseteq Leads'
      /\ agent'.msg # 0 => agent'.msg \in DOMAIN said' /\ said'[agent'.msg] = "agent"
  BY <1>1, <1>4 DEF Placed, Provenance
<1> QED
  BY <1>3, <1>5, <1>6, <1>7, <1>8 DEF Provenance

\* The holder of the lock.
LEMMA ProcessPlaced ==
    ASSUME Placed, Process \/ TurnRereads
    PROVE  Provenance'
<1>1. UNCHANGED <<said, old, wire, buffer, agent, tagger>>
  BY DEF Process, TurnRereads, TakeLock, PersistFragment, FetchTranscript, FillTranscript,
         FillNext, MarkBackfilled, Reread, Abstain, TurnMoves, TurnEnds
<1>2. /\ proc \in Proc /\ waiting \in Seq(Seq(Ids)) /\ seen \in Seen /\ row \in Row
      /\ proc.burst \in Seq(Ids) /\ proc.copy \in Row
  BY DEF Placed, Typed, TypeOK, Proc
<1>3. DOMAIN said' = DOMAIN said /\ Leads' = Leads /\ Transcript' = Transcript
  BY <1>1 DEF Leads, Transcript
<1>4. /\ waiting # <<>> => Elements(Head(waiting)) \subseteq Leads
      /\ \A b \in DOMAIN Tail(waiting) : waiting # <<>>
                                         => Elements(Tail(waiting)[b]) \subseteq Leads
  BY <1>2, SeqTail DEF Placed, Provenance
<1>5. \A b \in DOMAIN waiting' : Elements(waiting'[b]) \subseteq Leads
  <2>1. CASE TakeLock
    BY <1>4, <2>1 DEF TakeLock
  <2>2. CASE UNCHANGED waiting
    BY <2>2 DEF Placed, Provenance
  <2> QED
    BY <2>1, <2>2 DEF Process, TurnRereads, PersistFragment, FetchTranscript, FillTranscript,
                      FillNext, MarkBackfilled, Reread, Abstain, TurnMoves, TurnEnds
<1>6. Elements(proc'.burst) \subseteq Leads /\ proc'.fill \subseteq Transcript
  <2>1. CASE TakeLock
    <3>1. proc'.burst = Head(waiting) /\ proc'.fill = {}
      BY <2>1 DEF TakeLock, IdleProc
    <3> QED
      BY <1>4, <2>1, <3>1 DEF TakeLock
  <2>2. ASSUME NEW copy \in Row, Admit(copy)
        PROVE  /\ proc'.burst \in {proc.burst, <<>>} /\ proc'.fill \in {proc.fill, {}}
    BY <1>2, <2>2, AdmitTyped, RecordsTyped
  <2>3. CASE PersistFragment \/ Reread
    <3>1. proc'.burst \in {proc.burst, <<>>} /\ proc'.fill \in {proc.fill, {}}
      BY <1>2, <2>2, <2>3 DEF PersistFragment, Reread, Proc
    <3> QED
      BY <3>1, SeqElements DEF Placed, Provenance
  <2>4. CASE FetchTranscript
    BY <1>2, <2>4 DEF FetchTranscript, Proc, Placed, Provenance
  <2>5. CASE FillTranscript
    BY <1>2, <2>5 DEF FillTranscript, FillNext, Proc, Placed, Provenance
  <2>6. CASE MarkBackfilled \/ TurnRereads \/ TurnMoves \/ Abstain \/ TurnEnds
    <3>1. proc'.burst \in {proc.burst, <<>>} /\ proc'.fill \in {proc.fill, {}}
      BY <1>2, <2>6, RecordsTyped
      DEF MarkBackfilled, TurnRereads, TurnMoves, Abstain, TurnEnds, Proc
    <3> QED
      BY <3>1, SeqElements DEF Placed, Provenance
  <2> QED
    BY <2>1, <2>3, <2>4, <2>5, <2>6 DEF Process
<1>7. stored' \subseteq DOMAIN said
  <2>1. CASE PersistFragment
    <3>1. Head(proc.todo) \in Elements(proc.todo) /\ Elements(proc.todo) \subseteq Leads
      <4>1. proc.todo \in Seq(Ids) /\ proc.todo # <<>>
        BY <1>2, <2>1 DEF PersistFragment, Placed, Typed, WorkAtHand, Proc
      <4> QED
        BY <2>1, <4>1, SeqTail DEF PersistFragment, Placed, StoredFirst, Provenance
    <3> QED
      BY <2>1, <3>1 DEF PersistFragment, Leads, Placed, Provenance
  <2>2. CASE FillTranscript
    BY <2>2 DEF FillTranscript, FillNext, Fill, Placed, Provenance, Transcript
  <2>3. CASE UNCHANGED stored
    BY <2>3 DEF Placed, Provenance
  <2> QED
    BY <2>1, <2>2, <2>3 DEF Process, TurnRereads, TakeLock, FetchTranscript,
        MarkBackfilled, Reread, Abstain, TurnMoves, TurnEnds
<1> QED
  BY <1>1, <1>3, <1>5, <1>6, <1>7 DEF Placed, Provenance

\* The agent's handler.
LEMMA AgentPlaced ==
    ASSUME Placed, AgentArrives \/ HandleAgent
    PROVE  Provenance'
<1>1. UNCHANGED <<said, old, waiting, proc, tagger>>
  BY DEF AgentArrives, HandleAgent, AgentPersists, AgentStops, AgentLooks,
         AgentSpokeFirst, AgentStored
<1>2. agent \in Agent /\ agent.todo \in Seq(Ids)
  BY DEF Placed, Typed, TypeOK, Agent
<1>3. DOMAIN said' = DOMAIN said /\ Leads' = Leads /\ Transcript' = Transcript
  BY <1>1 DEF Leads, Transcript
<1>4. (agent.pc = "persist" <=> agent.todo # <<>>) /\ (agent.pc = "idle" <=> agent.msg = 0)
  BY DEF Placed, Typed, WorkAtHand
<1>5. CASE AgentArrives
  <2>1. PICK m \in Ids : /\ m \in wire /\ said[m] = "agent" /\ wire' = wire \ {m}
                         /\ agent'.msg = m /\ agent'.todo = buffer
    BY <1>5 DEF AgentArrives, Arrives
  <2>2. buffer' = <<>> /\ stored' = stored
    BY <1>5 DEF AgentArrives
  <2> QED
    BY <1>1, <1>3, <2>1, <2>2, SeqElements DEF Placed, Provenance
<1>6. CASE AgentPersists
  <2>1. /\ agent'.msg = agent.msg /\ agent'.todo = Tail(agent.todo)
        /\ stored' = stored \cup {Head(agent.todo)} /\ UNCHANGED <<wire, buffer>>
    BY <1>2, <1>6 DEF AgentPersists, Agent
  <2>2. Elements(agent.todo) = {Head(agent.todo)} \cup Elements(Tail(agent.todo))
    BY <1>2, <1>4, <1>6, SeqTail DEF AgentPersists
  <2>3. Head(agent.todo) \in DOMAIN said
    BY <2>2 DEF Placed, Provenance, Leads
  <2> QED
    BY <1>1, <1>3, <2>1, <2>2, <2>3 DEF Placed, Provenance
<1>7. CASE AgentStored
  <2>1. agent.msg \in DOMAIN said
    BY <1>4, <1>7 DEF AgentStored, Placed, Provenance
  <2>2. agent'.msg = 0 /\ agent'.todo = <<>>
    BY <1>7, RecordsTyped DEF AgentStored
  <2> QED
    BY <1>1, <1>3, <1>7, <2>1, <2>2, SeqElements DEF AgentStored, Placed, Provenance
<1>8. CASE AgentStops \/ AgentLooks \/ AgentSpokeFirst
  <2>1. agent'.msg = agent.msg /\ agent'.todo = agent.todo /\ UNCHANGED <<wire, stored, buffer>>
    BY <1>2, <1>8 DEF AgentStops, AgentLooks, AgentSpokeFirst, AgentAt, Agent
  <2> QED
    BY <1>1, <1>3, <2>1 DEF Placed, Provenance
<1> QED
  BY <1>5, <1>6, <1>7, <1>8 DEF HandleAgent

\* TagAssigner, the sweep and the faults.
LEMMA OthersPlaced ==
    ASSUME Placed,
           \/ TaggerFetches \/ TaggerFills \/ HoursPass
           \/ SweepReads \/ SweepSends \/ SweepTimesOut \/ SweepCounts
           \/ WebhookLost \/ TaskRaises \/ Restart \/ UNCHANGED vars
    PROVE  Provenance'
<1>1. UNCHANGED <<said, old>> /\ wire' \subseteq wire
  BY DEF TaggerFetches, TaggerFills, HoursPass, SweepReads, SweepSends, SweepTimesOut, Remind,
      Fault, SweepCounts,
         WebhookLost, TaskRaises, Restart, vars
<1>2. DOMAIN said' = DOMAIN said /\ Leads' = Leads /\ Transcript' = Transcript
  BY <1>1 DEF Leads, Transcript
<1>3. stored' \subseteq DOMAIN said
  BY DEF TaggerFetches, TaggerFills, HoursPass, SweepReads, SweepSends, SweepTimesOut, Remind,
      Fault, SweepCounts, Fill,
         WebhookLost, TaskRaises, Restart, vars, Placed, Provenance, Transcript
<1>4. tagger' \subseteq Transcript
  BY DEF TaggerFetches, TaggerFills, HoursPass, SweepReads, SweepSends, SweepTimesOut, Remind,
      Fault, SweepCounts, Fill,
         WebhookLost, TaskRaises, Restart, vars, Placed, Provenance
<1>5. /\ buffer' \in {buffer, <<>>} /\ waiting' \in {waiting, <<>>}
      /\ proc' \in {proc, IdleProc} /\ agent' \in {agent, IdleAgent}
  BY DEF TaggerFetches, TaggerFills, HoursPass, SweepReads, SweepSends, SweepTimesOut, Remind,
      Fault, SweepCounts,
         WebhookLost, TaskRaises, Restart, vars
<1>6. /\ Elements(proc'.burst) \cup Elements(agent'.todo) \cup Elements(buffer') \subseteq Leads
      /\ proc'.fill \subseteq Transcript
      /\ agent'.msg # 0 => agent'.msg \in DOMAIN said /\ said[agent'.msg] = "agent"
  BY <1>5, RecordsTyped, SeqElements DEF Placed, Provenance
<1>7. \A b \in DOMAIN waiting' : Elements(waiting'[b]) \subseteq Leads
  <2>1. DOMAIN <<>> = {}
    OBVIOUS
  <2> QED
    BY <1>5, <2>1 DEF Placed, Provenance
<1>8. (old \cup wire \cup stored \subseteq DOMAIN said)'
  BY <1>1, <1>2, <1>3 DEF Placed, Provenance
<1> QED
  BY <1>1, <1>2, <1>4, <1>6, <1>7, <1>8 DEF Provenance

\* A burst is stored before it is decided about.
LEMMA StoredKept ==
    ASSUME Placed, [Next]_vars
    PROVE  StoredFirst'
<1>1. /\ proc \in Proc /\ seen \in Seen /\ row \in Row /\ agent \in Agent
      /\ waiting \in Seq(Seq(Ids)) /\ proc.todo \in Seq(Ids) /\ proc.copy \in Row
      /\ agent.todo \in Seq(Ids)
  BY DEF Placed, Typed, TypeOK, Proc, Agent
<1>2. stored \subseteq stored' /\ Typed
  BY StoredGrows DEF Placed
<1>3. /\ proc.pc = "persist" => proc.todo # <<>>
      /\ agent.pc = "persist" => agent.todo # <<>>
  BY DEF Placed, Typed, WorkAtHand
<1>4. CASE PersistFragment
  <2>1. /\ Elements(proc.todo) = {Head(proc.todo)} \cup Elements(Tail(proc.todo))
        /\ Tail(proc.todo) = <<>> <=> Len(proc.todo) = 1
    BY <1>1, <1>3, <1>4, SeqTail DEF PersistFragment
  <2>2. stored' = stored \cup {Head(proc.todo)} /\ proc.pc = "persist"
    BY <1>4 DEF PersistFragment
  <2>3. /\ Elements(proc.todo) \subseteq Elements(proc.burst)
        /\ Elements(proc.burst) \subseteq stored' \cup Elements(Tail(proc.todo))
    BY <2>1, <2>2 DEF Placed, StoredFirst
  <2>4. Len(proc.todo) = 1 => Elements(proc.burst) \subseteq stored'
    BY <2>1, <2>3, SeqElements
  <2>5. CASE Len(proc.todo) = 1 /\ Admit(proc.copy)
    <3>1. proc'.burst \in {proc.burst, <<>>} /\ proc'.pc # "persist"
      BY <1>1, <2>5, AdmitTyped, RecordsTyped
    <3>2. Elements(proc'.burst) \subseteq stored'
      BY <2>4, <2>5, <3>1, SeqElements
    <3>3. ASSUME NEW m \in Ids, Settled(m)' PROVE m \in stored'
      BY <1>2, <1>4, <2>4, <2>5, <3>3, SettledBy
      DEF PersistFragment, AgentPersists, Placed, StoredFirst
    <3> QED
      BY <3>1, <3>2, <3>3 DEF StoredFirst
  <2>6. CASE /\ proc' = [proc EXCEPT !.todo = Tail(@),
                            !.pc = IF Len(proc.todo) = 1 THEN "fetch" ELSE "persist"]
             /\ UNCHANGED seen
    <3>1. /\ proc'.burst = proc.burst /\ proc'.todo = Tail(proc.todo)
          /\ proc'.pc = IF Len(proc.todo) = 1 THEN "fetch" ELSE "persist"
      BY <1>1, <2>6 DEF Proc
    <3>2. ASSUME NEW m \in Ids, Settled(m)' PROVE m \in stored'
      BY <1>2, <2>6, <3>2 DEF Settled, Placed, StoredFirst
    <3> QED
      BY <2>1, <2>3, <2>4, <3>1, <3>2 DEF StoredFirst
  <2> QED
    BY <1>4, <2>5, <2>6 DEF PersistFragment
<1>5. CASE ~PersistFragment
  <2>1. ASSUME NEW m \in Ids, Settled(m)' PROVE m \in stored'
    <3>1. CASE Settled(m)
      BY <1>2, <3>1 DEF Placed, StoredFirst
    <3>2. CASE (Reread \/ Abstain) /\ m \in Elements(proc.burst)
      BY <1>2, <3>2 DEF Reread, Abstain, Placed, StoredFirst
    <3>3. CASE AgentPersists /\ m = Head(agent.todo)
      BY <3>3 DEF AgentPersists
    <3> QED
      BY <1>2, <1>5, <2>1, <3>1, <3>2, <3>3, SettledBy
  <2>2. CASE TakeLock
    <3>1. /\ proc'.pc = "persist" /\ proc'.burst = Head(waiting) /\ proc'.todo = Head(waiting)
      BY <2>2 DEF TakeLock, IdleProc
    <3> QED
      BY <2>1, <3>1 DEF StoredFirst
  <2>3. CASE proc'.pc # "persist" /\ proc.pc # "persist" /\ proc'.burst \in {proc.burst, <<>>}
    <3>1. Elements(proc'.burst) \subseteq stored'
      BY <1>2, <2>3, SeqElements DEF Placed, StoredFirst
    <3> QED
      BY <2>1, <2>3, <3>1 DEF StoredFirst
  <2>4. CASE UNCHANGED proc
    BY <1>2, <2>1, <2>4 DEF Placed, StoredFirst
  <2>5. CASE proc' = IdleProc
    <3>1. proc'.pc # "persist" /\ Elements(proc'.burst) = {}
      BY <2>5, RecordsTyped, SeqElements
    <3> QED
      BY <2>1, <3>1 DEF StoredFirst
  <2>6. CASE Process \/ TurnRereads
    <3>1. CASE Reread
      BY <1>1, <2>3, <3>1, AdmitTyped, RecordsTyped DEF Reread
    <3>2. CASE FetchTranscript \/ FillTranscript
      BY <1>1, <2>3, <3>2 DEF FetchTranscript, FillTranscript, FillNext, Proc
    <3>3. CASE MarkBackfilled
      BY <1>1, <2>3, <3>3 DEF MarkBackfilled, Proc
    <3>4. CASE TurnRereads \/ TurnMoves
      BY <1>1, <2>3, <2>5, <3>4 DEF TurnRereads, TurnMoves, Proc
    <3>5. CASE Abstain \/ TurnEnds
      BY <2>5, <3>5 DEF Abstain, TurnEnds
    <3> QED
      BY <1>5, <2>2, <2>6, <3>1, <3>2, <3>3, <3>4, <3>5 DEF Process
  <2>7. CASE TaskRaises \/ Restart
    BY <2>4, <2>5, <2>7 DEF TaskRaises, Restart
  <2> QED
    BY <2>4, <2>6, <2>7 DEF Next, Someone, Redeliver, Duplicate, Enqueue, StoreOnly, Flush,
       AgentArrives, HandleAgent, TaggerFetches, TaggerFills, HoursPass, SweepReads,
       SweepSends, SweepTimesOut, Remind, Fault, SweepCounts, WebhookLost, AgentPersists,
       AgentStops, AgentLooks,
       AgentSpokeFirst, AgentStored, vars
<1> QED
  BY <1>4, <1>5

LEMMA InitPlaced == Init => Placed
<1> SUFFICES ASSUME Init PROVE Placed
  OBVIOUS
<1>1. /\ buffer = <<>> /\ waiting = <<>> /\ DOMAIN waiting = {} /\ stored = {} /\ wire = {}
      /\ tagger = {} /\ old = DOMAIN said
      /\ proc.fill = {} /\ proc.burst = <<>> /\ proc.pc = "idle"
      /\ agent.todo = <<>> /\ agent.msg = 0
  BY RecordsTyped DEF Init
<1>2. Elements(<<>>) = {}
  BY SeqElements
<1>3. Provenance
  BY <1>1, <1>2 DEF Provenance
<1>4. \A m \in Ids : ~Settled(m)
  BY DEF Init, Settled
<1>5. StoredFirst
  BY <1>1, <1>2, <1>4 DEF StoredFirst
<1> QED
  BY <1>3, <1>5, InitTyped DEF Placed

LEMMA PlacedKept == Placed /\ [Next]_vars => Placed'
<1> SUFFICES ASSUME Placed, [Next]_vars PROVE Placed'
  OBVIOUS
<1>1. Typed'
  BY NextTyped DEF Placed
<1>2. Provenance'
  BY WebhookPlaced, ProcessPlaced, AgentPlaced, OthersPlaced DEF Next
<1> QED
  BY <1>1, <1>2, StoredKept DEF Placed

----------------------------------------------------------------------------
(***************************************************************************)
(* Every message is accounted for.                                         *)
(***************************************************************************)
Told == Placed /\ Accounted /\ SilenceHasCause /\ HistoryHasCause /\ TurnsAccepted

\* Faults are counted and never forgotten.
LEMMA FaultsCounted ==
    ASSUME Typed, [Next]_vars, faults' = 0
    PROVE  faults = 0 /\ ~(SweepTimesOut \/ WebhookLost \/ TaskRaises \/ Restart)
<1>1. faults \in Nat
  BY DEF Typed, TypeOK
<1>2. faults' = faults \/ faults' = faults + 1
  BY DEF Next, Someone, Redeliver, Duplicate, Enqueue, StoreOnly, Flush, Process,
     TurnRereads, AgentArrives, HandleAgent, TaggerFetches, TaggerFills, HoursPass,
     SweepReads, SweepSends, SweepTimesOut, Remind, Fault, SweepCounts, WebhookLost,
     TaskRaises, Restart,
     TakeLock, PersistFragment, FetchTranscript, FillTranscript, FillNext, MarkBackfilled,
     Reread, Abstain, TurnMoves, TurnEnds, AgentPersists, AgentStops, AgentLooks,
     AgentSpokeFirst, AgentStored, Fault, vars
<1>3. SweepTimesOut \/ WebhookLost \/ TaskRaises \/ Restart => faults' = faults + 1
  BY DEF SweepTimesOut, WebhookLost, TaskRaises, Restart, Fault
<1> QED
  BY <1>1, <1>2, <1>3

\* What was overtaken stays in the history.
LEMMA OvertakenGrows ==
    ASSUME Typed, [Next]_vars
    PROVE  seen.overtaken \subseteq seen'.overtaken
<1>1. seen \in Seen /\ proc \in Proc /\ row \in Row
  BY DEF Typed, TypeOK
<1>2. ASSUME NEW copy, Admit(copy) PROVE seen'.overtaken = seen.overtaken
  BY <1>1, <1>2 DEF Admit, Ignore, Seen
<1>3. CASE PersistFragment \/ Reread
  BY <1>2, <1>3 DEF PersistFragment, Reread
<1>4. CASE Abstain \/ AgentPersists \/ Enqueue
  BY <1>1, <1>4 DEF Abstain, Ignore, AgentPersists, Enqueue, Seen
<1>5. CASE Elsewhere
  BY <1>5, HistoryElsewhere
<1>6. CASE UNCHANGED seen
  BY <1>6
<1>7. CASE AgentStops
  BY <1>1, <1>7, StopsUnheard
<1> QED
  BY <1>3, <1>4, <1>5, <1>6, <1>7 DEF Next, Process, HandleAgent, Elsewhere,
     Flush, TakeLock, AgentArrives, AgentLooks, AgentSpokeFirst, AgentStored,
     WebhookLost, TaskRaises, Restart

\* A lead's message is stored out of a fragment, or by a backfill, which
\* notes it when the message was under way.
LEMMA LeadStored ==
    ASSUME Placed, [Next]_vars, NEW m \in Leads, m \in stored' \ stored
    PROVE  Copies(m) > 0 \/ ~UnderWay(m) \/ m \in seen'.overtaken
<1>1. /\ m \in Ids /\ said[m] = "lead" /\ seen \in Seen /\ agent \in Agent /\ proc \in Proc
      /\ agent.todo \in Seq(Ids) /\ proc.todo \in Seq(Ids) /\ Typed
  BY SaidIds DEF Placed, Typed, TypeOK, Leads, Agent, Proc
<1>2. CASE PersistFragment
  <2>1. m = Head(proc.todo) /\ proc.todo # <<>> /\ proc.pc = "persist"
    BY <1>2 DEF PersistFragment, Placed, Typed, WorkAtHand
  <2>2. m \in Elements(proc.burst)
    BY <1>1, <2>1, SeqTail DEF Placed, StoredFirst
  <2>3. Held(m) = 1
    BY <2>1, <2>2 DEF Held
  <2> QED
    BY <1>1, <2>3, CopiesAre
<1>3. CASE FillTranscript
  BY <1>1, <1>3, FillSeen DEF FillTranscript, FillNext
<1>4. CASE TaggerFills
  BY <1>1, <1>4, FillSeen DEF TaggerFills
<1>5. CASE StoreOnly
  BY <1>1, <1>5 DEF StoreOnly, Arrives
<1>6. CASE AgentPersists
  <2>1. m = Head(agent.todo) /\ agent.todo # <<>>
    BY <1>6 DEF AgentPersists, Placed, Typed, WorkAtHand
  <2>2. m \in Elements(agent.todo)
    BY <1>1, <2>1, SeqTail
  <2>3. Times(agent.todo, m) > 0
    BY <1>1, <2>2, TimesIn
  <2> QED
    BY <1>1, <2>3, CopiesAre
<1>7. CASE AgentStored
  BY <1>1, <1>7 DEF AgentStored, Placed, Provenance, Typed, WorkAtHand
<1>8. CASE UNCHANGED stored
  BY <1>8
<1> QED
  BY <1>2, <1>3, <1>4, <1>5, <1>6, <1>7, <1>8 DEF Next, Someone, Redeliver, Duplicate,
     Enqueue, Flush, Process, TurnRereads, AgentArrives, HandleAgent, TaggerFetches,
     HoursPass, SweepReads, SweepSends, SweepTimesOut, Remind, Fault, SweepCounts, WebhookLost,
     TaskRaises, Restart,
     TakeLock, FetchTranscript, MarkBackfilled, Reread, Abstain, TurnMoves,
     TurnEnds, AgentStops, AgentLooks, AgentSpokeFirst, vars

\* A webhook looks like a duplicate, is buffered, is stored, or is an agent's.
LEMMA WireMoves ==
    ASSUME Placed, [Next]_vars, NEW m \in wire, faults' = 0
    PROVE  \/ m \in wire' \/ m \in stored
           \/ said[m] = "lead" /\ Copies(m)' > 0
           \/ said[m] # "lead" /\ m \in stored' \cup {agent'.msg}
<1>1. Typed /\ Typed' /\ m \in Ids /\ buffer \in Seq(Ids)
  BY NextTyped DEF Placed, Typed, TypeOK
<1>2. CASE Enqueue
  <2>1. PICK n \in Ids : /\ said[n] = "lead" /\ wire' = wire \ {n}
                         /\ buffer' = Append(buffer, n)
    BY <1>2 DEF Enqueue, Arrives
  <2>2. n = m => Times(buffer', m) > 0
    <3>1. Times(buffer', m) = Times(buffer, m) + (IF n = m THEN 1 ELSE 0)
      BY <1>1, <2>1, TimesAppend
    <3>2. Times(buffer, m) \in Nat
      BY <1>1, TimesIn
    <3> QED
      BY <3>1, <3>2
  <2> QED
    BY <1>1, <2>1, <2>2, CopiesWillBe
<1>3. CASE Someone \/ Redeliver \/ Duplicate \/ StoreOnly
  BY <1>3 DEF Someone, Redeliver, Duplicate, StoreOnly, Arrives
<1>4. CASE AgentArrives
  BY <1>4 DEF AgentArrives, Arrives
<1>5. CASE UNCHANGED wire
  BY <1>5
<1> QED
  BY <1>1, <1>2, <1>3, <1>4, <1>5, FaultsCounted DEF Next, Flush, Process, TurnRereads,
     HandleAgent, TaggerFetches, TaggerFills, HoursPass, SweepReads, SweepSends, SweepTimesOut,
     Remind, Fault,
     SweepCounts, TakeLock, PersistFragment, FetchTranscript, FillTranscript, FillNext,
     MarkBackfilled, Reread, Abstain, TurnMoves, TurnEnds, AgentPersists, AgentStops,
     AgentLooks, AgentSpokeFirst, AgentStored, vars

\* The agent's own message is stored at the end of its handler.
LEMMA AgentMoves ==
    ASSUME Placed, [Next]_vars, agent.msg # 0, faults' = 0
    PROVE  agent'.msg = agent.msg \/ agent.msg \in stored'
<1>1. agent \in Agent /\ Typed /\ agent.pc # "idle"
  BY DEF Placed, Typed, TypeOK, WorkAtHand
<1>2. CASE HandleAgent
  BY <1>1, <1>2 DEF HandleAgent, AgentPersists, AgentStops, AgentLooks, AgentSpokeFirst,
                    AgentStored, AgentAt, Agent
<1>3. CASE UNCHANGED agent
  BY <1>3
<1> QED
  BY <1>1, <1>2, <1>3, FaultsCounted DEF Next, Someone, Redeliver, Duplicate, Enqueue,
     StoreOnly, Flush, Process, TurnRereads, AgentArrives, TaggerFetches, TaggerFills,
     HoursPass, SweepReads, SweepSends, SweepTimesOut, Remind, Fault, SweepCounts, TakeLock,
     PersistFragment,
     FetchTranscript, FillTranscript, FillNext, MarkBackfilled, Reread, Abstain, TurnMoves,
     TurnEnds, vars

\* What is accounted for stays accounted for.
LEMMA AccountedKept ==
    ASSUME Told, [Next]_vars
    PROVE  Accounted' /\ SilenceHasCause'
<1> SUFFICES ASSUME faults' = 0
             PROVE  Accounted' /\ SilenceHasCause'
  BY DEF Accounted, SilenceHasCause
<1>1. /\ Placed /\ Typed /\ Typed' /\ Placed' /\ faults = 0
      /\ stored \subseteq stored' /\ seen.overtaken \subseteq seen'.overtaken
  BY NextTyped, PlacedKept, StoredGrows, OvertakenGrows, FaultsCounted DEF Told, Placed
<1>2. /\ DOMAIN said \subseteq DOMAIN said' /\ \A m \in DOMAIN said : said'[m] = said[m]
      /\ old' = old /\ DOMAIN said \subseteq Ids
      /\ Someone \/ said' = said
  BY <1>1, ThreadGrows, SaidIds DEF Typed, TypeOK
<1>3. ASSUME NEW m \in DOMAIN said' \ DOMAIN said
      PROVE  m \in wire' /\ m \notin stored'
  <2>1. Someone
    BY <1>2, <1>3
  <2>2. said \in Seq(Kinds) /\ m = Len(said) + 1
    <3>1. PICK kind \in Kinds : said' = Append(said, kind)
      BY <2>1 DEF Someone
    <3>2. said \in Seq(Kinds)
      BY <1>1 DEF Typed, TypeOK
    <3>3. DOMAIN said' = DOMAIN said \cup {Len(said) + 1}
      BY <3>1, <3>2, SeqAppend
    <3> QED
      BY <1>3, <3>2, <3>3
  <2> QED
    BY <1>1, <1>3, <2>1, <2>2 DEF Someone, Placed, Provenance
<1>4. ASSUME NEW m \in DOMAIN said \ old
      PROVE  /\ Settled(m) => Settled(m)'
             /\ Copies(m) > 0 => Copies(m)' > 0 \/ Settled(m)'
             /\ m \in Ids /\ m # 0
  <2>1. m \in Ids /\ m # 0
    BY <1>2 DEF Ids
  <2> QED
    BY <1>1, <2>1, FragmentsKept DEF Kept
<1>5. ASSUME NEW m \in DOMAIN said \ old, said[m] = "lead", m \in stored'
      PROVE  Settled(m)' \/ Copies(m)' > 0 \/ m \in seen'.overtaken
  <2>1. CASE m \in stored
    BY <1>1, <1>4, <1>5, <2>1 DEF Told, Accounted
  <2>2. CASE m \notin stored
    <3>1. Settled(m) \/ UnderWay(m) \/ m \in seen.overtaken
      BY <1>1, <1>5 DEF Told, SilenceHasCause, Leads
    <3>2. Copies(m) > 0 \/ ~UnderWay(m) \/ m \in seen'.overtaken
      BY <1>1, <1>5, <2>2, LeadStored DEF Leads
    <3> QED
      BY <1>1, <1>4, <3>1, <3>2
  <2> QED
    BY <2>1, <2>2
<1>6. ASSUME NEW m \in DOMAIN said \ old, said[m] # "lead"
      PROVE  m \in stored' \cup wire' \cup {agent'.msg}
  <2>1. m \in stored \cup wire \cup {agent.msg}
    BY <1>1, <1>6 DEF Told, Accounted
  <2> QED
    BY <1>1, <1>4, <1>6, <2>1, WireMoves, AgentMoves
<1>7. ASSUME NEW m \in DOMAIN said \ old, said[m] = "lead"
      PROVE  Settled(m)' \/ UnderWay(m)' \/ m \in seen'.overtaken
  <2>1. Settled(m) \/ UnderWay(m) \/ m \in seen.overtaken
    BY <1>1, <1>7 DEF Told, SilenceHasCause, Leads
  <2>2. CASE m \in wire
    <3>1. m \in wire' \/ m \in stored \/ Copies(m)' > 0
      BY <1>1, <1>7, <2>2, WireMoves
    <3>2. m \in stored => Settled(m)' \/ Copies(m)' > 0 \/ m \in seen'.overtaken
      BY <1>1, <1>5, <1>7
    <3> QED
      BY <3>1, <3>2 DEF UnderWay
  <2>3. m # agent.msg
    BY <1>1, <1>4, <1>7 DEF Placed, Provenance
  <2> QED
    BY <1>1, <1>4, <2>1, <2>2, <2>3 DEF UnderWay
<1>8. Accounted'
  <2>1. ASSUME NEW m \in DOMAIN said' \ old'
        PROVE  /\ said'[m] = "lead" /\ m \in stored'
                  => Settled(m)' \/ Copies(m)' > 0 \/ m \in seen'.overtaken
               /\ said'[m] # "lead" => m \in stored' \cup wire' \cup {agent'.msg}
    <3>1. CASE m \in DOMAIN said
      <4>1. m \in DOMAIN said \ old /\ said'[m] = said[m]
        BY <1>2, <3>1
      <4> QED
        BY <1>5, <1>6, <4>1
    <3>2. CASE m \notin DOMAIN said
      BY <1>3, <3>2
    <3> QED
      BY <3>1, <3>2
  <2> QED
    BY <2>1 DEF Accounted
<1>9. SilenceHasCause'
  <2>1. ASSUME NEW m \in Leads' \ old'
        PROVE  Settled(m)' \/ UnderWay(m)' \/ m \in seen'.overtaken
    <3>1. CASE m \in DOMAIN said
      <4>1. m \in DOMAIN said \ old /\ said[m] = "lead"
        BY <1>2, <3>1 DEF Leads
      <4> QED
        BY <1>7, <4>1
    <3>2. CASE m \notin DOMAIN said
      BY <1>3, <3>2 DEF Leads, UnderWay
    <3> QED
      BY <3>1, <3>2
  <2> QED
    BY <2>1 DEF SilenceHasCause
<1> QED
  BY <1>8, <1>9

\* A backfill that finds a message in the thread of a fresh lead found one
\* that the webhooks were still to bring.
LEMMA HistoryKept ==
    ASSUME Told, [Next]_vars
    PROVE  HistoryHasCause'
<1> SUFFICES ASSUME faults' = 0, old' = {}, "prior_history" \in {proc'.found, row'.reason}
             PROVE  seen'.overtaken # {}
  BY DEF HistoryHasCause
<1>1. /\ Placed /\ Typed /\ faults = 0 /\ old = {}
      /\ seen.overtaken \subseteq seen'.overtaken
      /\ proc \in Proc /\ row \in Row /\ seen \in Seen
      /\ proc.copy \in Row
  BY ThreadGrows, OvertakenGrows, FaultsCounted DEF Told, Placed, Typed, TypeOK, Proc
<1>2. CASE "prior_history" \in {proc.found, row.reason}
  BY <1>1, <1>2 DEF Told, HistoryHasCause
<1>3. CASE FillTranscript
  <2>1. PICK m \in Ids :
          /\ Fill(m, proc.fill)
          /\ proc' = [proc EXCEPT !.fill  = @ \ {m},
                                  !.found = IF m \in Ids \ stored THEN "prior_history" ELSE @,
                                  !.pc    = IF proc.fill = {m} THEN "mark" ELSE "fill"]
    BY <1>3 DEF FillTranscript, FillNext
  <2>2. proc'.found = IF m \notin stored THEN "prior_history" ELSE proc.found
    BY <1>1, <2>1 DEF Proc
  <2>3. row' = row
    BY <1>3 DEF FillTranscript, FillNext
  <2>4. CASE m \notin stored
    <3>1. m \in DOMAIN said
      BY <1>1, <2>1 DEF Fill, Placed, Provenance, Transcript
    <3>2. UnderWay(m) => m \in seen'.overtaken
      BY <1>1, <2>1, <2>4, FillSeen
    <3>3. CASE said[m] = "lead"
      <4>1. Settled(m) \/ UnderWay(m) \/ m \in seen.overtaken
        BY <1>1, <3>1, <3>3 DEF Told, SilenceHasCause, Leads
      <4>2. ~Settled(m)
        BY <1>1, <2>4 DEF Placed, StoredFirst
      <4> QED
        BY <1>1, <3>2, <4>1, <4>2
    <3>4. CASE said[m] # "lead"
      <4>1. m \in wire \cup {agent.msg}
        BY <1>1, <2>4, <3>1, <3>4 DEF Told, Accounted
      <4> QED
        BY <3>2, <4>1 DEF UnderWay
    <3> QED
      BY <3>3, <3>4
  <2> QED
    BY <1>2, <2>2, <2>3, <2>4
<1>4. CASE proc'.found \in {proc.found, "fresh", "backfill_failed"} /\ row'.reason = row.reason
  BY <1>2, <1>4
<1>5. CASE Process \/ TurnRereads
  <2>1. CASE TakeLock
    <3>1. proc'.found = "fresh" /\ row'.reason = row.reason
      BY <1>1, <2>1 DEF TakeLock, IdleProc, Row
    <3> QED
      BY <1>4, <3>1
  <2>2. CASE PersistFragment
    <3>1. CASE Admit(proc.copy)
      BY <1>1, <1>4, <2>2, <3>1, AdmitTyped, RecordsTyped, TouchFields DEF PersistFragment
    <3>2. CASE proc' = [proc EXCEPT !.todo = Tail(@),
                              !.pc = IF Len(proc.todo) = 1 THEN "fetch" ELSE "persist"]
      <4>1. proc'.found = proc.found
        BY <1>1, <3>2 DEF Proc
      <4> QED
        BY <1>1, <1>4, <2>2, <4>1, TouchFields DEF PersistFragment
    <3> QED
      BY <2>2, <3>1, <3>2 DEF PersistFragment
  <2>3. CASE FetchTranscript
    BY <1>1, <1>4, <2>3 DEF FetchTranscript, Proc
  <2>4. CASE MarkBackfilled
    BY <1>1, <1>4, <2>4 DEF MarkBackfilled, Touch, Proc, Row
  <2>5. CASE Reread
    BY <1>1, <1>4, <2>5, AdmitTyped, RecordsTyped DEF Reread
  <2>6. CASE Abstain
    <3>1. row'.reason = proc.found /\ proc'.found = "fresh"
      BY <1>1, <2>6, RecordsTyped DEF Abstain, Touch, Row
    <3> QED
      BY <1>2, <3>1
  <2>7. CASE TurnRereads
    BY <1>1, <1>4, <2>7 DEF TurnRereads, Proc
  <2>8. CASE TurnMoves \/ TurnEnds
    <3>1. row'.reason = row.reason
      <4>1. ASSUME NEW f \in FlowStates
            PROVE  LET r == [row EXCEPT !.flow = f]
                   IN  r \in Row /\ Touch(r).reason = row.reason
        BY <1>1 DEF Touch, Row
      <4>2. CASE TurnMoves
        BY <2>8, <4>1, <4>2 DEF TurnMoves, FlowStates, Admitting
      <4>3. CASE TurnEnds
        BY <1>1, <4>3, TouchFields DEF TurnEnds
      <4> QED
        BY <2>8, <4>2, <4>3
    <3>2. proc'.found \in {proc.found, "fresh"}
      <4>1. proc' \in {[proc EXCEPT !.pc = "say"], IdleProc}
        BY <2>8 DEF TurnMoves, TurnEnds
      <4>2. [proc EXCEPT !.pc = "say"].found = proc.found
        BY <1>1 DEF Proc
      <4> QED
        BY <4>1, <4>2, RecordsTyped
    <3> QED
      BY <1>4, <3>1, <3>2
  <2> QED
    BY <1>3, <1>5, <2>1, <2>2, <2>3, <2>4, <2>5, <2>6, <2>7, <2>8 DEF Process
<1>6. CASE UNCHANGED proc /\ row'.reason \in {row.reason, "outbound_first"}
  BY <1>2, <1>6
<1>7. CASE StoreOnly \/ HoursPass \/ SweepSends \/ SweepTimesOut \/ SweepCounts \/ AgentArrives \/ HandleAgent
  <2>1. UNCHANGED proc
    BY <1>7 DEF StoreOnly, HoursPass, SweepSends, SweepTimesOut, Remind, Fault, SweepCounts,
        AgentArrives, HandleAgent,
         AgentPersists, AgentStops, AgentLooks, AgentSpokeFirst, AgentStored
  <2>2. row'.reason \in {row.reason, "outbound_first"}
    <3>1. CASE StoreOnly \/ HoursPass \/ SweepSends \/ SweepTimesOut \/ SweepCounts
      BY <1>1, <3>1 DEF StoreOnly, HoursPass, SweepSends, SweepTimesOut, Remind, Fault, SweepCounts, Touch, Row
    <3>2. CASE AgentArrives \/ HandleAgent
      BY <1>1, <3>2 DEF AgentArrives, HandleAgent, AgentPersists, AgentStops, AgentLooks,
                        AgentSpokeFirst, AgentStored, Touch, Row
    <3> QED
      BY <1>7, <3>1, <3>2
  <2> QED
    BY <1>6, <2>1, <2>2
<1>8. CASE UNCHANGED <<proc, row>>
  BY <1>2, <1>8
<1> QED
  BY <1>1, <1>5, <1>7, <1>8, FaultsCounted DEF Next, Someone, Redeliver, Duplicate, Enqueue,
     Flush, TaggerFetches, TaggerFills, SweepReads, vars

LEMMA TurnsKept ==
    ASSUME Told, [Next]_vars
    PROVE  TurnsAccepted'
<1>1. Typed /\ Typed'
  BY NextTyped DEF Told, Placed
<1>2. ASSUME NEW m \in Ids
      PROVE  seen'.heard[m] + Copies(m)' <= seen'.accepted[m]
  <2>1. seen.heard[m] + Copies(m) <= seen.accepted[m] /\ Kept(m)
    BY <1>1, FragmentsKept DEF Told, TurnsAccepted
  <2>2. /\ seen.heard[m] \in Nat /\ seen.accepted[m] \in Nat /\ Copies(m) \in Nat
        /\ seen'.heard[m] \in Nat /\ seen'.accepted[m] \in Nat /\ Copies(m)' \in Nat
    BY <1>1, CopiesAre, CopiesWillBe DEF Typed, TypeOK, Seen
  <2> QED
    BY <2>1, <2>2 DEF Kept
<1> QED
  BY <1>2 DEF TurnsAccepted

LEMMA InitTold == Init => Told
<1> SUFFICES ASSUME Init PROVE Told
  OBVIOUS
<1>1. Placed /\ Typed
  BY InitPlaced DEF Placed
<1>2. DOMAIN said \ old = {} /\ Leads \ old = {}
  BY DEF Init, Leads
<1>3. Accounted /\ SilenceHasCause
  BY <1>2 DEF Accounted, SilenceHasCause
<1>4. HistoryHasCause
  BY RecordsTyped DEF Init, NewRow, HistoryHasCause
<1>5. ASSUME NEW m \in Ids PROVE seen.heard[m] + Copies(m) <= seen.accepted[m]
  <2>1. Times(buffer, m) = 0 /\ Bursts(waiting, m) = 0 /\ Times(agent.todo, m) = 0
    <3>1. /\ buffer = <<>> /\ waiting = <<>> /\ agent.todo = <<>>
          /\ buffer \in Seq(Ids) /\ waiting \in Seq(Seq(Ids))
      BY <1>1, RecordsTyped DEF Init, Typed, TypeOK
    <3>2. Times(<<>>, m) = 0
      BY <3>1, TimesIn
    <3>3. Bursts(<<>>, m) = 0
      BY <3>1, BurstsIn
    <3> QED
      BY <3>1, <3>2, <3>3
  <2>2. Held(m) = 0
    BY RecordsTyped DEF Init, Held
  <2>3. seen.heard[m] = 0 /\ seen.accepted[m] = 0
    BY DEF Init
  <2> QED
    BY <1>1, <2>1, <2>2, <2>3, CopiesAre
<1> QED
  BY <1>1, <1>3, <1>4, <1>5 DEF Told, TurnsAccepted

LEMMA ToldKept == Told /\ [Next]_vars => Told'
BY PlacedKept, AccountedKept, HistoryKept, TurnsKept DEF Told

LEMMA ToldInvariance == Spec => []Told
BY InitTold, ToldKept, PTL DEF Spec

\* A lead's message is never dropped without a reason: as long as no fault is
\* counted, one whose webhook and fragments are dealt with was in a turn, left
\* to an agent, in a burst the bot abstained from, or overtaken by a backfill.
THEOREM NothingDropped == Spec => []SilenceHasCause
<1>1. Told => SilenceHasCause
  BY DEF Told
<1> QED
  BY <1>1, ToldInvariance, PTL

\* However the timers are cancelled and the buffer popped, flushed and taken
\* over, a webhook past the duplicate check makes for at most one turn: also
\* with redeliveries, exceptions and restarts.
THEOREM HeardOnce == Spec => []OneTurnPerWebhook
<1>1. Told => OneTurnPerWebhook
  <2> SUFFICES ASSUME Told PROVE OneTurnPerWebhook
    OBVIOUS
  <2>1. Leads \subseteq Ids
    BY SaidIds DEF Told, Placed, Typed, TypeOK, Leads
  <2> QED
    BY <2>1 DEF Told, TurnsAccepted, OneTurnPerWebhook
<1> QED
  BY <1>1, ToldInvariance, PTL

\* A lead without a past is taken for one with prior history only when the
\* first-sight backfill or a run's overtook a webhook or a fragment.
THEOREM FreshLeads == Spec => []FreshLeadKept
<1>1. Told => FreshLeadKept
  BY DEF Told, HistoryHasCause, FreshLeadKept
<1> QED
  BY <1>1, ToldInvariance, PTL

\* The whole strengthening.
THEOREM IngressInvariance == Spec => []IInv
<1>1. Told /\ Reminding => IInv
  BY DEF Told, Placed, Typed, Reminding, IInv
<1> QED
  BY <1>1, ToldInvariance, RemindingInvariance, PTL
=============================================================================
