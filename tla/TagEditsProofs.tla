---------------------------- MODULE TagEditsProofs ----------------------------
(***************************************************************************)
(* More proofs about TagRun: that what an agent dismisses is remembered,   *)
(* and that the run keeps to the campus the lead told.                     *)
(***************************************************************************)
EXTENDS TagRunProofs, WellFoundedInduction

----------------------------------------------------------------------------
(***************************************************************************)
(* A dismissal: an agent takes info-check down, and the handler of a later *)
(* webhook finds that out from the replica, which it compares with what    *)
(* the webhook says.  Between the two there may be other webhooks, and the *)
(* row's flag is read when the webhook is received, not when the agent     *)
(* acted.  As long as nothing but the agents' edits moves the flag, the    *)
(* label goes down once among the webhooks under way, and never up again   *)
(* before they are handled.                                                *)
(***************************************************************************)
Flagged(labs) == "info-check" \in labs

\* What the next webhook is compared with, once it is its turn, has the label.
Ahead ==
    \/ \E h \in Handlers : Storing(h) /\ Flagged(sync[h].labels)
    \/ (\A h \in Handlers : ~Storing(h)) /\ Flagged(row.labels)

DownAhead ==
    /\ wire # <<>> /\ ~Flagged(labels)
    /\ Ahead \/ \E i \in DOMAIN wire : Flagged(wire[i].labels)

Busy == \E h \in Handlers : sync[h].pc # "idle"

NoWayUp ==
    /\ \A i, j \in DOMAIN wire : i < j /\ Flagged(wire[j].labels) => Flagged(wire[i].labels)
    /\ Busy => \A i \in DOMAIN wire : Flagged(wire[i].labels) => Ahead

TakingDown == {h \in Handlers : sync[h].pc = "dismiss"}

Remembered ==
    /\ \A h \in TakingDown : ~Flagged(sync[h].labels)
    /\ seen.dismissed # NoFlag =>
          IF DownAhead THEN row.flag = seen.dismissed
          ELSE IF TakingDown # {} THEN \A h \in TakingDown : sync[h].flag = seen.dismissed
          ELSE row.suppressed = seen.dismissed

Excused == seen.skipped \/ seen.moved \/ seen.crossed

Dismissing == ~Excused => NoWayUp /\ Remembered

\* Initially there is nothing to remember.
LEMMA InitDismissing == Init => Dismissing
<1> SUFFICES ASSUME Init PROVE NoWayUp /\ Remembered
  BY DEF Dismissing
<1>1. /\ wire = <<>> /\ DOMAIN wire = {} /\ seen.dismissed = NoFlag
      /\ \A h \in Handlers : sync[h].pc = "idle"
  BY DEF Init, IdleSync
<1> QED
  BY <1>1 DEF NoWayUp, Remembered, Busy, TakingDown

\* Without an excuse one webhook is stored at a time, and the last is the latest.
LEMMA InTurn ==
    ASSUME Follows, ~Excused
    PROVE  OneStores /\ Latest
BY DEF Follows, Excused

\* What a webhook more makes of those under way.
LEMMA WireAppend ==
    ASSUME Webhooks, NEW e, wire' = Append(wire, e)
    PROVE  /\ Len(wire) \in Nat /\ DOMAIN wire = 1 .. Len(wire)
           /\ DOMAIN wire' = DOMAIN wire \cup {Len(wire) + 1} /\ wire' # <<>>
           /\ wire'[Len(wire) + 1] = e
           /\ \A i \in DOMAIN wire : wire'[i] = wire[i]
           /\ wire # <<>> => Len(wire) \in DOMAIN wire
<1>1. PICK S : wire \in Seq(S)
  BY DEF Webhooks
<1>2. wire \in Seq(S \cup {e}) /\ e \in S \cup {e}
  BY <1>1
<1> HIDE <1>1
<1> QED
  BY <1>2

\* An edit in Chatwoot: where the label goes up with webhooks under way, the
\* history says so; where it goes down, it is the row's flag that is dismissed.
LEMMA EditDismissing ==
    ASSUME Webhooks, Follows, Dismissing, Announce, UNCHANGED <<row, sync>>,
           ~Excused' => ~Excused,
           ~seen'.moved /\ Flagged(labels') /\ Pending => Flagged(labels),
           ~seen'.moved => \/ seen'.dismissed = NoFlag
                           \/ /\ seen'.dismissed = seen.dismissed
                              /\ Flagged(labels) => Flagged(labels')
                           \/ /\ seen'.dismissed = row.flag
                              /\ Flagged(labels) /\ ~Flagged(labels')
    PROVE  Dismissing'
<1> SUFFICES ASSUME ~Excused'
             PROVE  NoWayUp' /\ Remembered'
  BY DEF Dismissing
<1>1. NoWayUp /\ Remembered /\ ~Excused /\ ~seen'.moved
  BY DEF Dismissing, Excused
<1>2. /\ wire # <<>> => wire[Len(wire)].labels = labels
      /\ wire = <<>> => (Ahead <=> Flagged(labels))
  BY <1>1, InTurn DEF Latest, Ahead
<1>3. (Ahead' <=> Ahead) /\ (Busy' <=> Busy) /\ TakingDown' = TakingDown
  BY DEF Ahead, Busy, TakingDown, Storing
<1>4. CASE labels' = labels /\ wire' = wire
  BY <1>1, <1>3, <1>4 DEF NoWayUp, Remembered, DownAhead
<1>5. CASE wire' = Append(wire, [labels |-> labels', shown |-> shown'])
  <2>1. /\ Len(wire) \in Nat /\ DOMAIN wire = 1 .. Len(wire)
        /\ DOMAIN wire' = DOMAIN wire \cup {Len(wire) + 1} /\ wire' # <<>>
        /\ wire'[Len(wire) + 1].labels = labels'
        /\ \A i \in DOMAIN wire : wire'[i] = wire[i]
        /\ wire # <<>> => Len(wire) \in DOMAIN wire
    BY <1>5, WireAppend
  <2>2. ASSUME NEW i \in DOMAIN wire', NEW j \in DOMAIN wire', i < j, Flagged(wire'[j].labels)
        PROVE  Flagged(wire'[i].labels)
    <3>1. CASE j \in DOMAIN wire
      BY <1>1, <2>1, <2>2, <3>1 DEF NoWayUp
    <3>2. CASE j = Len(wire) + 1
      <4>1. i \in DOMAIN wire /\ wire # <<>>
        BY <2>1, <2>2, <3>2
      <4>2. Flagged(wire[Len(wire)].labels)
        BY <1>1, <1>2, <2>1, <2>2, <3>2, <4>1 DEF Pending
      <4>3. i = Len(wire) \/ i < Len(wire)
        BY <2>1, <4>1
      <4> QED
        BY <1>1, <2>1, <4>1, <4>2, <4>3 DEF NoWayUp
    <3> QED
      BY <2>1, <3>1, <3>2
  <2>3. ASSUME Busy, NEW i \in DOMAIN wire', Flagged(wire'[i].labels)
        PROVE  Ahead
    <3>1. CASE i \in DOMAIN wire
      BY <1>1, <2>1, <2>3, <3>1 DEF NoWayUp
    <3>2. CASE i = Len(wire) + 1
      <4>1. Flagged(labels)
        BY <1>1, <2>1, <2>3, <3>2 DEF Pending, Busy
      <4> QED
        BY <1>1, <1>2, <2>1, <2>3, <4>1 DEF NoWayUp
    <3> QED
      BY <2>1, <3>1, <3>2
  <2>4. NoWayUp'
    BY <1>3, <2>2, <2>3 DEF NoWayUp
  <2>5. Flagged(labels) /\ ~Flagged(labels') => DownAhead'
    <3> SUFFICES ASSUME Flagged(labels), ~Flagged(labels') PROVE DownAhead'
      OBVIOUS
    <3>1. wire # <<>> => Len(wire) \in DOMAIN wire' /\ Flagged(wire'[Len(wire)].labels)
      BY <1>2, <2>1
    <3> QED
      BY <1>2, <1>3, <2>1, <3>1 DEF DownAhead
  <2>6. (Flagged(labels) => Flagged(labels')) => (DownAhead' <=> DownAhead)
    <3> SUFFICES ASSUME Flagged(labels) => Flagged(labels') PROVE DownAhead' <=> DownAhead
      OBVIOUS
    <3>1. CASE Flagged(labels')
      <4>1. ~DownAhead'
        BY <3>1 DEF DownAhead
      <4>2. wire # <<>> => Flagged(labels)
        BY <1>1, <3>1 DEF Pending
      <4> QED
        BY <4>1, <4>2 DEF DownAhead
    <3>2. CASE ~Flagged(labels')
      BY <1>2, <1>3, <2>1, <3>2 DEF DownAhead
    <3> QED
      BY <3>1, <3>2
  <2>7. Remembered'
    BY <1>1, <1>3, <2>5, <2>6 DEF Remembered
  <2> QED
    BY <2>4, <2>7
<1> QED
  BY <1>4, <1>5 DEF Announce

\* What the history says of skipped and crossed webhooks and moved flags it never
\* takes back.
LEMMA HistoryGrows ==
    ASSUME Shaped, [Next]_vars, ~Excused'
    PROVE  ~Excused
<1> SUFFICES ASSUME ~seen'.skipped, ~seen'.moved, ~seen'.crossed
             PROVE  ~seen.skipped /\ ~seen.moved /\ ~seen.crossed
  BY DEF Excused
<1> USE DEF Shaped
<1>1. CASE AgentLabel
  BY <1>1 DEF AgentLabel, SeenFields
<1>2. CASE AgentEnters \/ FillerPushes \/ AppendWrites
  <2>1. CASE AgentEnters
    BY <2>1 DEF AgentEnters, SeenFields
  <2>2. CASE FillerPushes
    BY <2>2 DEF FillerPushes, SeenFields
  <2>3. CASE AppendWrites
    BY <2>3 DEF AppendWrites, SeenFields
  <2> QED
    BY <1>2, <2>1, <2>2, <2>3
<1>3. CASE SyncSkips
  BY <1>3 DEF SyncSkips, SeenFields
<1>4. CASE RunCopies \/ RunRereads \/ RunFetches \/ RunPushes \/ RunEnds
  <2>1. CASE RunCopies
    BY <2>1 DEF RunCopies, SeenFields
  <2>2. CASE RunRereads
    BY <2>2 DEF RunRereads, SeenFields
  <2>3. CASE RunFetches
    BY <2>3 DEF RunFetches, SeenFields
  <2>4. CASE RunPushes
    BY <2>4 DEF RunPushes, Forget, SeenFields
  <2>5. CASE RunEnds
    BY <2>5 DEF RunEnds, Forget, SeenFields
  <2> QED
    BY <1>4, <2>1, <2>2, <2>3, <2>4, <2>5
<1>5. CASE RunFlags
  BY <1>5 DEF RunFlags, Forget, SeenFields
<1>6. CASE RunWrites
  BY <1>6 DEF RunWrites, Forget, SeenFields
<1>7. CASE \E h \in Handlers : SyncReceives(h) \/ SyncDismisses(h) \/ SyncStores(h) \/ SyncGender(h)
  <2>1. CASE \E h \in Handlers : SyncReceives(h)
    BY <2>1 DEF SyncReceives, SeenFields
  <2>2. CASE \E h \in Handlers : SyncDismisses(h) \/ SyncStores(h) \/ SyncGender(h)
    BY <2>2 DEF SyncDismisses, SyncStores, SyncGender
  <2> QED
    BY <1>7, <2>1, <2>2
<1>8. CASE \/ Speaks \/ BotStores \/ FillerReads \/ FillerMarks \/ AppendReads \/ RunStarts
           \/ RunLoads \/ RunUpdates \/ UNCHANGED vars
  BY <1>8 DEF Speaks, BotStores, FillerReads, FillerMarks, AppendReads, RunStarts, RunLoads,
              RunUpdates, vars
<1> QED
  BY <1>1, <1>2, <1>3, <1>4, <1>5, <1>6, <1>7, <1>8 DEF Next, Run_, Others

\* The edits: an agent's, InfoGatherer's, the run's.
LEMMA EditsDismissing ==
    ASSUME Shaped, Webhooks, Follows, Dismissing, [Next]_vars,
           AgentLabel \/ AgentEnters \/ FillerPushes \/ AppendWrites \/ RunWrites \/ RunPushes
    PROVE  Dismissing'
<1>1. Announce /\ UNCHANGED <<row, sync>>
  BY DEF AgentLabel, AgentEnters, FillerPushes, AppendWrites, RunWrites, RunPushes
<1>2. ~Excused' => ~Excused
  BY HistoryGrows
<1>3. CASE AgentLabel
  <2>1. PICK l \in AgentLabels :
           /\ labels' = IF l \in labels THEN labels \ {l} ELSE labels \cup {l}
           /\ seen'.dismissed = IF l # "info-check" THEN seen.dismissed
                                ELSE IF l \in labels THEN row.flag ELSE NoFlag
           /\ l = "info-check" /\ l \notin labels /\ Pending => seen'.moved
    BY <1>3 DEF AgentLabel, Shaped, SeenFields
  <2>2. ~seen'.moved /\ Flagged(labels') /\ Pending => Flagged(labels)
    BY <2>1 DEF Flagged
  <2>3. \/ seen'.dismissed = NoFlag
        \/ seen'.dismissed = seen.dismissed /\ (Flagged(labels) => Flagged(labels'))
        \/ seen'.dismissed = row.flag /\ Flagged(labels) /\ ~Flagged(labels')
    BY <2>1 DEF Flagged
  <2> QED
    BY <1>1, <1>2, <2>2, <2>3, EditDismissing
<1>4. ASSUME seen'.dismissed = seen.dismissed,
             ~seen'.moved => /\ Flagged(labels) => Flagged(labels')
                             /\ Flagged(labels') /\ Pending => Flagged(labels)
      PROVE  Dismissing'
  BY <1>1, <1>2, <1>4, EditDismissing
<1>5. CASE AgentEnters \/ FillerPushes \/ RunPushes
  <2>1. labels' = labels
    BY <1>5 DEF AgentEnters, FillerPushes, RunPushes
  <2>2. seen'.dismissed = seen.dismissed
    <3>1. CASE AgentEnters
      BY <3>1 DEF AgentEnters, Shaped, SeenFields
    <3>2. CASE FillerPushes
      BY <3>2 DEF FillerPushes, Shaped, SeenFields
    <3>3. CASE RunPushes
      BY <3>3 DEF RunPushes, Forget, Shaped, SeenFields
    <3> QED
      BY <1>5, <3>1, <3>2, <3>3
  <2> QED
    BY <1>4, <2>1, <2>2
<1>6. CASE AppendWrites
  <2>1. /\ seen'.dismissed = seen.dismissed
        /\ "info-check" \in Differ(labels, labels') => seen'.moved
    BY <1>6 DEF AppendWrites, Shaped, SeenFields
  <2> QED
    BY <1>4, <2>1 DEF Flagged, Differ
<1>7. CASE RunWrites
  <2>1. /\ seen'.dismissed = seen.dismissed
        /\ "info-check" \in labels \ labels' => seen'.moved
        /\ "info-check" \in labels' \ labels /\ Pending => seen'.moved
    BY <1>7 DEF RunWrites, Forget, Shaped, SeenFields
  <2> QED
    BY <1>4, <2>1 DEF Flagged
<1> QED
  BY <1>3, <1>5, <1>6, <1>7

\* The handler receives a webhook: where the label was flagged and is not any
\* more, it takes the flag with it.
LEMMA ReceiveDismissing ==
    ASSUME Shaped, Webhooks, Follows, Dismissing, NEW h \in Handlers, SyncReceives(h)
    PROVE  Dismissing'
<1> SUFFICES ASSUME ~Excused'
             PROVE  NoWayUp' /\ Remembered'
  BY DEF Dismissing
<1>0. PICK k \in DOMAIN wire :
         /\ wire' = RemoveAt(wire, k)
         /\ sync' = [sync EXCEPT ![h] =
               [pc     |-> IF "info-check" \in row.labels \ wire[k].labels
                           THEN "dismiss" ELSE "store",
                labels |-> wire[k].labels, shown |-> wire[k].shown,
                flag   |-> row.flag, room |-> row.room]]
         /\ seen' = [seen EXCEPT !.crossed = @ \/ k # 1 \/ \E g \in Handlers : Storing(g)]
  BY DEF SyncReceives
<1>1. /\ ~Excused /\ k = 1 /\ \A g \in Handlers : ~Storing(g)
      /\ sync[h].pc = "idle" /\ wire # <<>> /\ 1 \in DOMAIN wire
      /\ UNCHANGED <<labels, row>> /\ seen'.dismissed = seen.dismissed
      /\ sync'[h].pc = IF Flagged(row.labels) /\ ~Flagged(wire[1].labels)
                       THEN "dismiss" ELSE "store"
      /\ sync'[h].labels = wire[1].labels /\ sync'[h].flag = row.flag
      /\ \A g \in Handlers \ {h} : sync'[g] = sync[g]
  <2>1. ~Excused /\ k = 1 /\ \A g \in Handlers : ~Storing(g)
    BY <1>0 DEF Excused, Shaped, SeenFields
  <2>2. wire # <<>> /\ 1 \in DOMAIN wire
    BY <1>0, <2>1, WireLess
  <2> QED
    BY <1>0, <2>1, <2>2 DEF SyncReceives, Flagged, Webhooks, Shaped, SeenFields
<1>2. NoWayUp /\ Remembered /\ (Ahead <=> Flagged(row.labels)) /\ wire[Len(wire)].labels = labels
  <2>1. NoWayUp /\ Remembered
    BY <1>1 DEF Dismissing
  <2>2. Ahead <=> Flagged(row.labels)
    BY <1>1 DEF Ahead
  <2> QED
    BY <1>1, <2>1, <2>2, InTurn DEF Latest
<1>3. /\ \A i \in DOMAIN wire' : i \in Nat /\ i + 1 \in DOMAIN wire /\ 1 < i + 1
                                 /\ wire'[i] = wire[i + 1]
      /\ \A i \in DOMAIN wire : i = 1 \/ (i - 1 \in DOMAIN wire' /\ wire'[i - 1] = wire[i])
      /\ wire' = <<>> => Len(wire) = 1
  <2>1. wire' = RemoveAt(wire, 1)
    BY <1>0, <1>1
  <2>2. /\ Len(wire) \in Nat \ {0} /\ DOMAIN wire = 1 .. Len(wire)
        /\ DOMAIN wire' = 1 .. Len(wire) - 1 /\ (wire' = <<>> <=> Len(wire) = 1)
        /\ \A j \in DOMAIN wire' : wire'[j] = IF j < 1 THEN wire[j] ELSE wire[j + 1]
    BY <1>1, <2>1, WireLess
  <2> QED
    BY <2>2
<1>4. /\ Ahead' <=> Flagged(wire[1].labels)
      /\ TakingDown = {}
      /\ TakingDown' = {g \in {h} : Flagged(row.labels) /\ ~Flagged(wire[1].labels)}
  <2>1. Storing(h)' /\ \A g \in Handlers \ {h} : ~Storing(g)'
    BY <1>1 DEF Storing
  <2>2. Ahead' <=> Flagged(wire[1].labels)
    BY <1>1, <2>1 DEF Ahead
  <2> QED
    BY <1>1, <2>1, <2>2 DEF TakingDown, Storing
<1>5. NoWayUp'
  <2>1. ASSUME NEW i \in DOMAIN wire', NEW j \in DOMAIN wire', i < j, Flagged(wire'[j].labels)
        PROVE  Flagged(wire'[i].labels)
    <3>1. /\ i + 1 \in DOMAIN wire /\ wire'[i] = wire[i + 1]
          /\ j + 1 \in DOMAIN wire /\ wire'[j] = wire[j + 1] /\ i + 1 < j + 1
      BY <1>3, <2>1
    <3> QED
      BY <1>2, <2>1, <3>1 DEF NoWayUp
  <2>2. ASSUME NEW i \in DOMAIN wire', Flagged(wire'[i].labels)
        PROVE  Ahead'
    <3>1. i + 1 \in DOMAIN wire /\ wire'[i] = wire[i + 1] /\ 1 < i + 1
      BY <1>3
    <3> QED
      BY <1>2, <1>3, <1>4, <2>2, <3>1 DEF NoWayUp
  <2> QED
    BY <2>1, <2>2 DEF NoWayUp
<1>6. CASE Flagged(row.labels) /\ ~Flagged(wire[1].labels)
  <2>1. \A i \in DOMAIN wire : ~Flagged(wire[i].labels)
    <3> SUFFICES ASSUME NEW i \in DOMAIN wire, Flagged(wire[i].labels) PROVE FALSE
      OBVIOUS
    <3>1. 1 < i
      <4>1. PICK S : wire \in Seq(S)
        BY DEF Webhooks
      <4>2. i \in 1 .. Len(wire) /\ Len(wire) \in Nat
        BY <4>1
      <4>3. i # 1
        BY <1>6
      <4> QED
        BY <4>2, <4>3
    <3> QED
      BY <1>2, <1>3, <1>6, <3>1 DEF NoWayUp
  <2>2. DownAhead
    <3>1. Len(wire) \in DOMAIN wire
      <4>1. PICK S : wire \in Seq(S)
        BY DEF Webhooks
      <4> QED
        BY <1>1, <4>1
    <3> QED
      BY <1>1, <1>2, <1>6, <2>1, <3>1 DEF DownAhead
  <2>3. ~DownAhead'
    <3>1. \A i \in DOMAIN wire' : ~Flagged(wire'[i].labels)
      BY <1>3, <2>1
    <3> QED
      BY <1>4, <1>6, <3>1 DEF DownAhead
  <2>4. Remembered'
    BY <1>1, <1>2, <1>4, <1>6, <2>2, <2>3 DEF Remembered
  <2> QED
    BY <1>5, <2>4
<1>7. CASE ~(Flagged(row.labels) /\ ~Flagged(wire[1].labels))
  <2>1. DownAhead' => DownAhead
    <3> SUFFICES ASSUME DownAhead' PROVE DownAhead
      OBVIOUS
    <3>1. CASE Ahead'
      BY <1>1, <1>4, <3>1 DEF DownAhead
    <3>2. CASE \E i \in DOMAIN wire' : Flagged(wire'[i].labels)
      BY <1>1, <1>3, <3>2 DEF DownAhead
    <3> QED
      BY <3>1, <3>2 DEF DownAhead
  <2>2. DownAhead => DownAhead'
    <3> SUFFICES ASSUME DownAhead PROVE DownAhead'
      OBVIOUS
    <3>1. ~Flagged(labels) /\ ~Flagged(labels')
      BY <1>1 DEF DownAhead
    <3>2. wire' # <<>>
      <4> SUFFICES ASSUME wire' = <<>> PROVE FALSE
        OBVIOUS
      <4>1. \A i \in DOMAIN wire : i = 1
        BY <1>3
      <4>2. ~Flagged(wire[1].labels)
        BY <1>2, <1>3, <3>1
      <4>3. ~Flagged(row.labels)
        BY <1>7, <4>2
      <4> QED
        BY <1>2, <4>1, <4>2, <4>3 DEF DownAhead
    <3>3. CASE Flagged(row.labels) \/ Flagged(wire[1].labels)
      BY <1>4, <1>7, <3>1, <3>2, <3>3 DEF DownAhead
    <3>4. CASE \E i \in DOMAIN wire : i # 1 /\ Flagged(wire[i].labels)
      BY <1>3, <3>1, <3>2, <3>4 DEF DownAhead
    <3> QED
      BY <1>2, <3>3, <3>4 DEF DownAhead
  <2>3. Remembered'
    BY <1>1, <1>2, <1>4, <1>7, <2>1, <2>2 DEF Remembered
  <2> QED
    BY <1>5, <2>3
<1> QED
  BY <1>6, <1>7

\* Dismissing is kept.
LEMMA NextDismissing ==
    ASSUME Shaped, Webhooks, Follows, Dismissing, [Next]_vars
    PROVE  Dismissing'
<1> USE DEF Shaped
<1>1. ~Excused' => ~Excused
  BY HistoryGrows
<1>2. CASE SyncSkips
  BY <1>2 DEF SyncSkips, SeenFields, Dismissing, Excused
<1>3. ASSUME NEW h \in Handlers, SyncDismisses(h)
      PROVE  Dismissing'
  <2> SUFFICES ASSUME NoWayUp, Remembered, OneStores PROVE NoWayUp' /\ Remembered'
    BY <1>1, InTurn DEF Dismissing
  <2>1. /\ sync[h].pc = "dismiss" /\ sync'[h].pc = "store" /\ sync'[h].labels = sync[h].labels
        /\ \A g \in Handlers \ {h} : sync'[g] = sync[g]
        /\ row'.suppressed = sync[h].flag /\ UNCHANGED <<labels, wire, seen>>
    BY <1>3 DEF SyncDismisses, Webhooks, SyncFields, RowFields
  <2>2. \A g \in Handlers \ {h} : ~Storing(g) /\ ~Storing(g)'
    BY <2>1 DEF Storing, OneStores
  <2>3. Storing(h) /\ Storing(h)' /\ TakingDown = {h} /\ TakingDown' = {} /\ Busy
    BY <2>1, <2>2 DEF Storing, TakingDown, Busy
  <2>4. ~Ahead /\ ~Ahead'
    BY <2>1, <2>2, <2>3 DEF Ahead, Remembered
  <2>5. ~DownAhead /\ ~DownAhead'
    BY <2>1, <2>3, <2>4 DEF DownAhead, NoWayUp
  <2> QED
    BY <2>1, <2>3, <2>4, <2>5 DEF NoWayUp, Remembered
<1>4. ASSUME UNCHANGED <<labels, wire>>, Ahead' <=> Ahead, Busy' => Busy,
             TakingDown' = TakingDown, \A g \in TakingDown : sync'[g] = sync[g],
             row'.flag = row.flag, row'.suppressed = row.suppressed,
             seen'.dismissed = seen.dismissed
      PROVE  Dismissing'
  <2> SUFFICES ASSUME NoWayUp, Remembered PROVE NoWayUp' /\ Remembered'
    BY <1>1 DEF Dismissing
  <2>1. DownAhead' <=> DownAhead
    BY <1>4 DEF DownAhead
  <2> QED
    BY <1>4, <2>1 DEF NoWayUp, Remembered
<1>5. ASSUME NEW h \in Handlers, SyncStores(h)
      PROVE  Dismissing'
  <2> SUFFICES ASSUME ~Excused PROVE Dismissing'
    BY <1>1 DEF Dismissing
  <2>1. /\ sync[h].pc = "store" /\ UNCHANGED <<labels, wire, seen>>
        /\ row'.labels = sync[h].labels /\ row'.flag = row.flag /\ row'.suppressed = row.suppressed
        /\ \/ sync' = [sync EXCEPT ![h].pc = "gender"] \/ sync' = [sync EXCEPT ![h] = IdleSync]
    BY <1>5 DEF SyncStores, RowFields
  <2>2. sync'[h].pc \in {"idle", "gender"} /\ \A g \in Handlers \ {h} : sync'[g] = sync[g]
    BY <2>1 DEF Webhooks, SyncFields, IdleSync
  <2>3. Storing(h) /\ ~Storing(h)' /\ \A g \in Handlers \ {h} : ~Storing(g) /\ ~Storing(g)'
    BY <2>1, <2>2, InTurn DEF Storing, OneStores
  <2>4. Ahead' <=> Ahead
    BY <2>1, <2>3 DEF Ahead
  <2>5. TakingDown = {} /\ TakingDown' = {} /\ Busy
    BY <2>1, <2>2, <2>3 DEF TakingDown, Storing, Busy
  <2> QED
    BY <1>4, <2>1, <2>4, <2>5
<1>6. ASSUME NEW h \in Handlers, SyncGender(h)
      PROVE  Dismissing'
  <2>1. /\ sync[h].pc = "gender" /\ sync' = [sync EXCEPT ![h] = IdleSync]
        /\ row'.labels = row.labels /\ row'.flag = row.flag /\ row'.suppressed = row.suppressed
        /\ UNCHANGED <<labels, wire, seen>>
    BY <1>6 DEF SyncGender, RowFields
  <2>2. sync'[h].pc = "idle" /\ \A g \in Handlers \ {h} : sync'[g] = sync[g]
    BY <2>1 DEF Webhooks, IdleSync
  <2>3. \A g \in Handlers : (Storing(g)' <=> Storing(g)) /\ (Storing(g) => sync'[g] = sync[g])
    BY <2>1, <2>2 DEF Storing
  <2>4. Ahead' <=> Ahead
    BY <2>1, <2>3 DEF Ahead
  <2>5. TakingDown' = TakingDown /\ Busy /\ \A g \in TakingDown : sync'[g] = sync[g]
    BY <2>1, <2>2 DEF TakingDown, Busy
  <2> QED
    BY <1>4, <2>1, <2>4, <2>5
<1>7. ASSUME UNCHANGED <<labels, wire, sync>>, row'.labels = row.labels, row'.flag = row.flag,
             row'.suppressed = row.suppressed, seen'.dismissed = seen.dismissed
      PROVE  Dismissing'
  <2>1. (Ahead' <=> Ahead) /\ (Busy' <=> Busy) /\ TakingDown' = TakingDown
    BY <1>7 DEF Ahead, Busy, TakingDown, Storing
  <2> QED
    BY <1>4, <1>7, <2>1
<1>8. CASE RunFlags
  <2>1. /\ UNCHANGED <<labels, wire, sync>> /\ row'.labels = row.labels
        /\ row'.suppressed = row.suppressed
        /\ seen'.dismissed = seen.dismissed /\ (row' # row /\ Pending => seen'.moved)
    BY <1>8 DEF RunFlags, Forget, SeenFields, RowFields
  <2>2. CASE row' = row
    BY <1>7, <2>1, <2>2
  <2>3. CASE ~Pending
    <3> SUFFICES ASSUME NoWayUp, Remembered PROVE NoWayUp' /\ Remembered'
      BY <1>1 DEF Dismissing
    <3>1. /\ wire = <<>> /\ wire' = <<>> /\ DOMAIN wire' = {}
          /\ TakingDown = {} /\ TakingDown' = {}
      BY <2>1, <2>3 DEF Pending, TakingDown
    <3> QED
      BY <2>1, <3>1 DEF NoWayUp, Remembered, DownAhead
  <2>4. CASE seen'.moved
    BY <2>4 DEF Dismissing, Excused
  <2> QED
    BY <2>1, <2>2, <2>3, <2>4
<1>9. CASE Speaks \/ FillerReads \/ AppendReads \/ RunStarts \/ RunLoads \/ UNCHANGED vars
  BY <1>7, <1>9 DEF Speaks, FillerReads, AppendReads, RunStarts, RunLoads, vars
<1>10. CASE BotStores \/ FillerMarks
  BY <1>7, <1>10 DEF BotStores, FillerMarks, RowFields
<1>11. CASE RunUpdates
  BY <1>7, <1>11 DEF RunUpdates, Updated, RowFields
<1>12. CASE RunCopies \/ RunRereads \/ RunFetches \/ RunEnds
  <2>1. UNCHANGED <<labels, wire, sync, row>>
    BY <1>12 DEF RunCopies, RunRereads, RunFetches, RunEnds
  <2>2. seen'.dismissed = seen.dismissed
    <3>1. CASE RunCopies
      BY <3>1 DEF RunCopies, SeenFields
    <3>2. CASE RunRereads
      BY <3>2 DEF RunRereads, SeenFields
    <3>3. CASE RunFetches
      BY <3>3 DEF RunFetches, SeenFields
    <3>4. CASE RunEnds
      BY <3>4 DEF RunEnds, Forget, SeenFields
    <3> QED
      BY <1>12, <3>1, <3>2, <3>3, <3>4
  <2> QED
    BY <1>7, <2>1, <2>2
<1>13. CASE \E h \in Handlers : SyncReceives(h)
  BY <1>13, ReceiveDismissing
<1>14. CASE AgentLabel \/ AgentEnters \/ FillerPushes \/ AppendWrites \/ RunWrites \/ RunPushes
  BY <1>14, EditsDismissing
<1> QED
  BY <1>2, <1>3, <1>5, <1>6, <1>8, <1>9, <1>10, <1>11, <1>12, <1>13, <1>14
  DEF Next, Run_, Others

\* The flag an agent dismissed stays suppressed once the webhooks are handled
\* (set_info_check_suppressed_from_dismiss), unless one was taken for the bot's
\* own, the run moved the flag meanwhile, or a handler read the row before an
\* older webhook was stored.
THEOREM DismissalRemembered == Spec => []DismissalKept
<1>1. Spec => [](Webhooks /\ Follows)
  BY InitFollows, NextFollows, AlwaysShaped, PTL DEF Spec
<1>2. Spec => []Dismissing
  BY <1>1, InitDismissing, NextDismissing, AlwaysShaped, PTL DEF Spec
<1>3. Dismissing => DismissalKept
  BY DEF Dismissing, DismissalKept, Excused, Remembered, TakingDown, DownAhead, Pending
<1> QED
  BY <1>2, <1>3, PTL

----------------------------------------------------------------------------
(***************************************************************************)
(* The campus: the row the resolver finds for a list value shows that      *)
(* value, and what the lead tells wins over what the LLM proposes.         *)
(***************************************************************************)
\* Of some numbers one is the least.
LEMMA Least ==
    ASSUME NEW T, T \subseteq Nat, T # {}
    PROVE  \E n \in T : \A m \in T : n <= m
<1>1. PICK n \in T : \A m \in T : <<m, n>> \notin OpToRel(<, Nat)
  BY NatLessThanWellFounded, WFMin
<1>2. \A m \in T : ~(m < n)
  BY <1>1 DEF OpToRel
<1> QED
  BY <1>2

\* A university has one list value.
LEMMA ListValueOf ==
    ASSUME NEW i \in DOMAIN ListValues
    PROVE  ListValue(ListValues[i].id) = ListValues[i].value
<1> DEFINE First_(k) == /\ ListValues[k].id = ListValues[i].id
                        /\ \A j \in 1 .. k - 1 : ListValues[j].id # ListValues[i].id
<1>1. \A j \in 1 .. i - 1 : j \in DOMAIN ListValues /\ j # i
  BY ListValuesAssumption
<1>2. First_(i)
  BY <1>1, ListValuesAssumption
<1>3. \A k \in DOMAIN ListValues : First_(k) => k = i
  BY ListValuesAssumption
<1>4. (CHOOSE k \in DOMAIN ListValues : First_(k)) = i
  BY <1>2, <1>3
<1>5. ListValue(ListValues[i].id) = ListValues[CHOOSE k \in DOMAIN ListValues : First_(k)].value
  BY DEF ListValue, FirstRow, Exists
<1> HIDE DEF First_
<1> QED
  BY <1>4, <1>5

\* What is on the list is found there.
LEMMA ResolvedFromList ==
    ASSUME NEW v, v \notin Sentinels, \E i \in DOMAIN ListValues : ListValues[i].value = v
    PROVE  \E i \in DOMAIN ListValues : ResolveListValue(v) = ListValues[i].id
                                        /\ ListValues[i].value = v
<1> DEFINE First_(k) == /\ ListValues[k].value = v
                        /\ \A j \in 1 .. k - 1 : ListValues[j].value # v
           T == {i \in DOMAIN ListValues : ListValues[i].value = v}
           chosen == CHOOSE k \in DOMAIN ListValues : First_(k)
<1>1. DOMAIN ListValues = 1 .. Len(ListValues) /\ Len(ListValues) \in Nat
  BY ListValuesAssumption
<1>2. PICK n \in T : \A m \in T : n <= m
  <2>1. T \subseteq Nat /\ T # {}
    BY <1>1
  <2> HIDE DEF T
  <2> QED
    BY <2>1, Least
<1>3. n \in DOMAIN ListValues /\ First_(n)
  <2>1. \A j \in 1 .. n - 1 : j \in DOMAIN ListValues /\ ~(n <= j)
    BY <1>1, <1>2
  <2> QED
    BY <1>2, <2>1
<1>4. chosen \in DOMAIN ListValues /\ First_(chosen)
  BY <1>3
<1>5. ResolveListValue(v) = ListValues[chosen].id
  BY DEF ResolveListValue, FirstRow, Exists
<1> QED
  BY <1>4, <1>5

\* canonicalize has a campus, an institution or nothing.
LEMMA CanonicalKinds ==
    ASSUME NEW phrase
    PROVE  Canonicalize(phrase).confidence \in {"campus", "parent_only", "none"}
BY DEF Canonicalize, Canonical, ParentCampus, Campus, ParentOnly, NoSignal

\* resolve_university_override, followed by the lookup in the list, contradicts
\* nothing the lead has told, unless the campus is withheld.
LEMMA OverrideNamed ==
    ASSUME NEW belt, NEW heard, NEW echo, heard \notin Sentinels,
           Override(belt, heard, echo) # Withheld
    PROVE  LET canon == Canonicalize(heard)
               found == ResolveListValue(Override(belt, heard, echo))
           IN  \/ canon.confidence = "none"
               \/ /\ canon.confidence = "campus"
                  /\ ListValue(canon.university) \in {Blank, ListValue(found)}
<1> DEFINE canon == Canonicalize(heard)
           value == ListValue(canon.university)
           found == ResolveListValue(Override(belt, heard, echo))
<1>1. Override(belt, heard, echo) = Overridden(belt, heard, canon)
  BY DEF Override, Sentinels
<1>2. canon.confidence \in {"campus", "parent_only", "none"}
  BY CanonicalKinds
<1> HIDE DEF canon
<1>3. canon.confidence # "parent_only"
  BY <1>1 DEF Overridden
<1>4. ASSUME canon.confidence = "campus", value # Blank PROVE value = ListValue(found)
  <2>1. Override(belt, heard, echo) = value
    BY <1>1, <1>4 DEF Overridden
  <2>2. value \notin Sentinels
    BY <1>4, <2>1 DEF Sentinels
  <2>3. \E i \in DOMAIN ListValues : ListValues[i].value = value
    <3>1. PICK i \in DOMAIN ListValues : ListValues[i].id = canon.university
      BY <1>4 DEF ListValue, Exists
    <3> QED
      BY <3>1, ListValueOf
  <2>4. PICK i \in DOMAIN ListValues : ResolveListValue(value) = ListValues[i].id
                                       /\ ListValues[i].value = value
    <3> HIDE DEF value
    <3> QED
      BY <2>2, <2>3, ResolvedFromList
  <2>5. ListValue(ListValues[i].id) = ListValues[i].value
    BY ListValueOf
  <2> QED
    BY <2>1, <2>4, <2>5
<1> QED
  BY <1>2, <1>3, <1>4 DEF canon

\* merge_attributes accepts no university that is withheld.
LEMMA UniversityAccepted ==
    ASSUME NEW current, NEW setBy, NEW proposed, NEW resolved, NEW heard,
           "university" \in Accepted(Verdicts(current, setBy, proposed, resolved, heard))
    PROVE  proposed["university"] # Withheld
<1>1. MergeUniversity(current["university"], setBy["university"], proposed["university"],
                      resolved).accepted # Unset
  BY DEF Accepted, Verdicts, Fields
<1> QED
  BY <1>1 DEF MergeUniversity, Nothing, Accept, Block, Withheld, CampusAmbiguous, Unset

\* The answer of the LLM has a value for each field.
Answered == run.pc = "update" => DOMAIN run.answer.values = Fields

LEMMA InitAnswered == Init => Answered
BY DEF Init, IdleRun, Answered

LEMMA NextAnswered ==
    ASSUME Shaped, Answered, [Next]_vars
    PROVE  Answered'
<1>1. CASE RunCopies
  <2>1. PICK answer \in Answers : run'.answer = answer
    BY <1>1 DEF RunCopies, Shaped, RunFields
  <2> QED
    BY <2>1, InputsAssumption DEF Answer, Answered
<1>2. CASE run' = run
  BY <1>2 DEF Answered
<1>3. CASE Run_ /\ ~RunCopies
  <2> SUFFICES run'.pc # "update"
    BY DEF Answered
  <2>1. CASE RunStarts \/ RunPushes \/ RunEnds
    <3>1. CASE RunStarts
      <4>1. PICK full \in BOOLEAN : run'.pc = IF full THEN "load" ELSE "ask"
        BY <3>1 DEF RunStarts, IdleRun
      <4> QED
        BY <4>1
    <3>2. CASE RunPushes \/ RunEnds
      <4>1. run' = IdleRun
        BY <3>2 DEF RunPushes, RunEnds
      <4> QED
        BY <4>1 DEF IdleRun
    <3> QED
      BY <2>1, <3>1, <3>2
  <2>2. CASE RunUpdates \/ RunLoads \/ RunRereads
    BY <2>2 DEF RunUpdates, RunLoads, RunRereads, Shaped, RunFields
  <2>3. CASE RunFetches
    BY <2>3 DEF RunFetches, Shaped, RunFields
  <2>4. /\ AfterWrite.pc # "update" /\ \A after : Rest("write", after).pc # "update"
        /\ run.pc = "write" => NextAttempt.pc # "update"
    <3>1. AfterWrite.pc # "update"
      BY DEF AfterWrite, Rest, IdleRun
    <3>2. \A after : Rest("write", after).pc # "update"
      BY DEF Rest, IdleRun
    <3>3. run.pc = "write" => NextAttempt.pc # "update"
      BY DEF NextAttempt, IdleRun, Shaped, RunFields
    <3> QED
      BY <3>1, <3>2, <3>3
  <2>5. CASE RunFlags \/ RunWrites
    BY <2>4, <2>5 DEF RunFlags, RunWrites
  <2> QED
    BY <1>3, <2>1, <2>2, <2>3, <2>4, <2>5 DEF Run_
<1> QED
  BY <1>1, <1>2, <1>3, OthersLeaveRun DEF Next, vars

\* The run's step that writes the attributes.
LEMMA UpdateNamed ==
    ASSUME Shaped, Answered, RunUpdates, row'.university # row.university
    PROVE  LET heard == Heard(run'.history)
               canon == Canonicalize(heard)
           IN  \/ heard \in Sentinels
               \/ canon.confidence = "none"
               \/ /\ canon.confidence = "campus"
                  /\ ListValue(canon.university) \in {Blank, ListValue(row'.university)}
<1> DEFINE n        == IF run.loaded THEN run.history ELSE Len(thread)
           chosen   == Override(run.answer.values["university"], Heard(n), run.answer.echo)
           proposed == [run.answer.values EXCEPT !["university"] = chosen]
           found    == ResolveListValue(proposed["university"])
           verdicts == Verdicts(Display(run.copy), run.copy.setBy, proposed,
                                ListValue(found), Signal(n))
           named    == "university" \in Accepted(verdicts)
<1>1. run'.history = n
  BY DEF RunUpdates, Shaped, RunFields
<1>2. proposed["university"] = chosen
  <2>1. DOMAIN run.answer.values = Fields
    BY DEF Answered, RunUpdates
  <2> HIDE DEF chosen
  <2> QED
    BY <2>1 DEF Fields
<1>3. row'.university = IF named THEN found ELSE row.university
  <2>1. row' = [row EXCEPT
                  !.university = IF named THEN found ELSE @,
                  !.gender     = IF "gender" \in Accepted(verdicts) THEN proposed["gender"] ELSE @,
                  !.room       = IF "room" \in Accepted(verdicts) THEN proposed["room"] ELSE @,
                  !.setBy      = [f \in Fields |-> IF f \in Accepted(verdicts)
                                                   THEN "tagAssigner" ELSE @[f]]]
    BY DEF RunUpdates, Updated
  <2> HIDE DEF n, proposed, found, verdicts
  <2> QED
    BY <2>1 DEF Shaped, RowFields
<1>4. named /\ row'.university = found
  <2> HIDE DEF named, found
  <2> QED
    BY <1>3
<1>5. chosen # Withheld
  <2> HIDE DEF n, chosen, proposed, found
  <2> QED
    BY <1>2, <1>4, UniversityAccepted
<1>6. CASE Heard(n) \notin Sentinels
  <2>1. Override(run.answer.values["university"], Heard(n), run.answer.echo) # Withheld
    BY <1>5
  <2>2. row'.university
          = ResolveListValue(Override(run.answer.values["university"], Heard(n), run.answer.echo))
    BY <1>2, <1>4
  <2> HIDE DEF n
  <2> QED
    BY <1>1, <1>6, <2>1, <2>2, OverrideNamed
<1>7. CASE Heard(n) \in Sentinels
  <2> HIDE DEF n
  <2> QED
    BY <1>1, <1>7
<1> QED
  BY <1>6, <1>7

\* The run never puts a campus into the row that contradicts the lead's own
\* words (resolve_university_override, merge_attributes), for every content of
\* the tables and every answer of the LLM.
THEOREM CampusKept == Spec => CampusIsNamed
<1>1. Spec => []Answered
  BY InitAnswered, NextAnswered, AlwaysShaped, PTL DEF Spec
<1>2. ASSUME Shaped, Answered, [Next]_vars
      PROVE  [run.pc = "update" /\ run' # run /\ row'.university # row.university =>
                LET heard == Heard(run'.history)
                    canon == Canonicalize(heard)
                IN  \/ heard \in Sentinels
                    \/ canon.confidence = "none"
                    \/ /\ canon.confidence = "campus"
                       /\ ListValue(canon.university) \in {Blank, ListValue(row'.university)}]_vars
  <2> SUFFICES ASSUME run.pc = "update", run' # run, row'.university # row.university
               PROVE  RunUpdates
    BY <1>2, UpdateNamed
  <2>1. Run_
    BY <1>2, OthersLeaveRun DEF Next, vars
  <2>2. ~RunEnds
    BY DEF RunEnds
  <2> QED
    BY <2>1, <2>2 DEF Run_, RunStarts, RunLoads, RunCopies, RunRereads, RunFetches, RunFlags,
                RunWrites, RunPushes
<1> QED
  BY <1>1, <1>2, AlwaysShaped, PTL DEF Spec, CampusIsNamed
=============================================================================
