--------------------------- MODULE TagQueueProofs ---------------------------
(***************************************************************************)
(* Proofs about TagQueue: type correctness, and the safety invariants      *)
(* through the inductive invariant QInv.                                   *)
(***************************************************************************)
EXTENDS TagQueue, SequenceTheorems, FiniteSetTheorems, TLAPS

----------------------------------------------------------------------------
\* What one statement does to the two tables.

\* A row is added to the queue, as a pending one.
LEMMA EnqueueShape ==
    ASSUME TypeOK, NEW c \in Convs, NEW kind \in Triggers, Enqueue(c, kind)
    PROVE  /\ queue' \in Seq(Item)
           /\ DOMAIN queue' = DOMAIN queue \cup {Len(queue) + 1}
           /\ Len(queue) + 1 \notin DOMAIN queue
           /\ \A i \in DOMAIN queue : queue'[i] = queue[i]
           /\ queue'[Len(queue) + 1].status = "pending"
           /\ queue'[Len(queue) + 1].conv = c
           /\ queue'[Len(queue) + 1].trigger = kind
<1> DEFINE x == [conv |-> c, status |-> "pending", trigger |-> kind, run |-> 0]
<1>1. x \in Item
  BY DEF Item
<1>2. queue' = Append(queue, x) /\ queue \in Seq(Item)
  BY DEF Enqueue, TypeOK
<1> HIDE DEF x
<1>3. /\ queue' \in Seq(Item) /\ Len(queue') = Len(queue) + 1
      /\ \A i \in 1 .. Len(queue) : queue'[i] = queue[i]
      /\ queue'[Len(queue) + 1] = x
  BY <1>1, <1>2, AppendProperties
<1>4. Len(queue) \in Nat /\ DOMAIN queue = 1 .. Len(queue) /\ DOMAIN queue' = 1 .. Len(queue')
  BY <1>2, <1>3, LenProperties
<1>5. x.status = "pending" /\ x.conv = c /\ x.trigger = kind
  BY DEF x
<1> QED
  BY <1>3, <1>4, <1>5

\* A row of the queue is a row.
LEMMA ItemTyped ==
    ASSUME TypeOK, NEW i \in DOMAIN queue
    PROVE  queue[i] \in Item
BY ElementOfSeq, LenProperties DEF TypeOK

\* A row of the queue changes, and no other does.
LEMMA ItemShape ==
    ASSUME TypeOK, NEW i \in DOMAIN queue, NEW x \in Item,
           queue' = [queue EXCEPT ![i] = x]
    PROVE  /\ queue' \in Seq(Item)
           /\ DOMAIN queue' = DOMAIN queue
           /\ \A j \in DOMAIN queue : j # i => queue'[j] = queue[j]
           /\ queue'[i] = x
<1>1. queue \in Seq(Item)
  BY DEF TypeOK
<1>2. i \in 1 .. Len(queue) /\ DOMAIN queue = 1 .. Len(queue)
  BY <1>1, LenProperties
<1>3. /\ queue' \in Seq(Item) /\ Len(queue') = Len(queue)
      /\ \A j \in 1 .. Len(queue) : queue'[j] = IF j = i THEN x ELSE queue[j]
  BY <1>1, <1>2, ExceptSeq
<1>4. DOMAIN queue' = 1 .. Len(queue')
  BY <1>3, LenProperties
<1> QED
  BY <1>2, <1>3, <1>4

\* The worker closes the item it holds.
LEMMA SetItemShape ==
    ASSUME TypeOK, worker.item \in DOMAIN queue, NEW status \in {"done", "failed"},
           SetItem(status)
    PROVE  /\ queue' \in Seq(Item)
           /\ DOMAIN queue' = DOMAIN queue
           /\ \A j \in DOMAIN queue : j # worker.item => queue'[j] = queue[j]
           /\ queue'[worker.item].status = status
           /\ queue'[worker.item].run = queue[worker.item].run
           /\ queue'[worker.item].conv = queue[worker.item].conv
           /\ queue'[worker.item].trigger = queue[worker.item].trigger
<1> DEFINE i == worker.item
           x == [queue[i] EXCEPT !.status = status]
<1>1. queue[i] \in Item
  BY ItemTyped
<1>2. /\ x \in Item /\ x.status = status /\ x.run = queue[i].run
      /\ x.conv = queue[i].conv /\ x.trigger = queue[i].trigger
  BY <1>1 DEF Item
<1>3. queue' = [queue EXCEPT ![i] = x]
  BY DEF SetItem
<1> HIDE DEF x
<1> QED
  BY <1>2, <1>3, ItemShape

\* The worker claims the item it picked for the run it created.
LEMMA ClaimShape ==
    ASSUME TypeOK, worker.item \in DOMAIN queue,
           queue' = [queue EXCEPT ![worker.item].status = "processing",
                                  ![worker.item].run = worker.run]
    PROVE  /\ queue' \in Seq(Item)
           /\ DOMAIN queue' = DOMAIN queue
           /\ \A j \in DOMAIN queue : j # worker.item => queue'[j] = queue[j]
           /\ queue'[worker.item].status = "processing"
           /\ queue'[worker.item].run = worker.run
           /\ queue'[worker.item].conv = queue[worker.item].conv
           /\ queue'[worker.item].trigger = queue[worker.item].trigger
<1> DEFINE i == worker.item
           x == [queue[i] EXCEPT !.status = "processing", !.run = worker.run]
<1>1. queue[i] \in Item /\ worker.run \in Nat
  BY ItemTyped DEF TypeOK, Worker
<1>2. /\ x \in Item /\ x.status = "processing" /\ x.run = worker.run
      /\ x.conv = queue[i].conv /\ x.trigger = queue[i].trigger
  BY <1>1 DEF Item
<1>3. queue' = [queue EXCEPT ![i] = x]
  <2>1. queue \in [1 .. Len(queue) -> Item] /\ i \in 1 .. Len(queue)
    BY LenProperties DEF TypeOK
  <2> QED
    BY <2>1 DEF Item
<1> HIDE DEF x
<1> QED
  BY <1>2, <1>3, ItemShape

\* The row of a run is a row.
LEMMA RunTyped ==
    ASSUME TypeOK, NEW r \in DOMAIN runs
    PROVE  runs[r] \in RunRow
BY ElementOfSeq, LenProperties DEF TypeOK

\* The worker's run gets its status, and no other run does.
LEMMA SetRunShape ==
    ASSUME TypeOK, worker.item \in DOMAIN queue, worker.run \in DOMAIN runs,
           NEW status \in {"success", "failed"}, SetRun(status)
    PROVE  /\ runs' \in Seq(RunRow)
           /\ DOMAIN runs' = DOMAIN runs
           /\ \A r \in DOMAIN runs : r # worker.run => runs'[r] = runs[r]
           /\ runs'[worker.run].status = status
           /\ runs'[worker.run].conv = runs[worker.run].conv
           /\ runs'[worker.run].completed =
                IF status = "success" THEN conv[Current].stored ELSE 0
<1> DEFINE r == worker.run
           n == IF status = "success" THEN conv[Current].stored ELSE 0
           x == [runs[r] EXCEPT !.status = status, !.completed = n]
<1>1. runs \in Seq(RunRow) /\ runs[r] \in RunRow
  BY RunTyped DEF TypeOK
<1>2. n \in Nat
  BY ItemTyped DEF TypeOK, Current, Item, Counters
<1>3. x \in RunRow /\ x.status = status /\ x.conv = runs[r].conv /\ x.completed = n
  BY <1>1, <1>2 DEF RunRow
<1>4. r \in 1 .. Len(runs) /\ DOMAIN runs = 1 .. Len(runs)
  BY <1>1, LenProperties
<1>5. runs' = [runs EXCEPT ![r] = x]
  <2>1. runs \in [1 .. Len(runs) -> RunRow]
    BY <1>1, LenProperties
  <2> QED
    BY <1>4, <2>1 DEF SetRun, RunRow
<1> HIDE DEF x
<1>6. /\ runs' \in Seq(RunRow) /\ Len(runs') = Len(runs)
      /\ \A s \in 1 .. Len(runs) : runs'[s] = IF s = r THEN x ELSE runs[s]
  BY <1>1, <1>3, <1>4, <1>5, ExceptSeq
<1>7. DOMAIN runs' = 1 .. Len(runs')
  BY <1>6, LenProperties
<1> QED
  BY <1>3, <1>4, <1>6, <1>7

\* A new run gets a number no item has.
LEMMA InsertRunShape ==
    ASSUME TypeOK, worker.item \in DOMAIN queue, DrainInsertsRun
    PROVE  /\ runs' \in Seq(RunRow)
           /\ DOMAIN runs' = DOMAIN runs \cup {Len(runs) + 1}
           /\ Len(runs) + 1 \in Nat
           /\ Len(runs) + 1 \notin DOMAIN runs
           /\ \A r \in DOMAIN runs : runs'[r] = runs[r]
           /\ runs'[Len(runs) + 1] = [conv |-> Current, status |-> "processing", completed |-> 0]
<1> DEFINE x == [conv |-> Current, status |-> "processing", completed |-> 0]
<1>1. x \in RunRow
  BY ItemTyped DEF Current, Item, RunRow
<1>2. runs' = Append(runs, x) /\ runs \in Seq(RunRow)
  BY DEF DrainInsertsRun, TypeOK
<1> HIDE DEF x
<1>3. /\ runs' \in Seq(RunRow) /\ Len(runs') = Len(runs) + 1
      /\ \A r \in 1 .. Len(runs) : runs'[r] = runs[r]
      /\ runs'[Len(runs) + 1] = x
  BY <1>1, <1>2, AppendProperties
<1>4. Len(runs) \in Nat /\ DOMAIN runs = 1 .. Len(runs) /\ DOMAIN runs' = 1 .. Len(runs')
  BY <1>2, <1>3, LenProperties
<1> QED
  BY <1>3, <1>4 DEF x

\* The batch's list changes together with its runs, or its nights.
LEMMA BatchShape ==
    ASSUME NEW b \in Batch, NEW todo \in SUBSET Convs, NEW R \in SUBSET Nat
    PROVE  /\ [b EXCEPT !.todo = todo, !.runs = R] \in Batch
           /\ [b EXCEPT !.todo = todo, !.runs = R].runs = R
<1> DEFINE y == [b EXCEPT !.todo = todo]
<1>1. y \in Batch
  BY DEF Batch
<1>2. [b EXCEPT !.todo = todo, !.runs = R] = [y EXCEPT !.runs = R]
  BY DEF Batch
<1> HIDE DEF y
<1> QED
  BY <1>1, <1>2 DEF Batch

LEMMA NightShape ==
    ASSUME NEW b \in Batch, NEW todo \in SUBSET Convs, NEW n \in Nat
    PROVE  [b EXCEPT !.todo = todo, !.nights = n] \in Batch
<1> DEFINE y == [b EXCEPT !.todo = todo]
<1>1. y \in Batch
  BY DEF Batch
<1>2. [b EXCEPT !.todo = todo, !.nights = n] = [y EXCEPT !.nights = n]
  BY DEF Batch
<1> HIDE DEF y
<1> QED
  BY <1>1, <1>2 DEF Batch

\* A run of the nightly batch likewise; no item is bound to it.
LEMMA BatchInsertShape ==
    ASSUME TypeOK, NEW c \in Convs, BatchInserts(c)
    PROVE  /\ runs' \in Seq(RunRow)
           /\ DOMAIN runs' = DOMAIN runs \cup {Len(runs) + 1}
           /\ Len(runs) + 1 \in Nat
           /\ Len(runs) + 1 \notin DOMAIN runs
           /\ \A r \in DOMAIN runs : runs'[r] = runs[r]
           /\ runs'[Len(runs) + 1] = [conv |-> c, status |-> "processing", completed |-> 0]
           /\ batch' \in Batch
           /\ batch'.runs = batch.runs \cup {Len(runs) + 1}
<1> DEFINE x == [conv |-> c, status |-> "processing", completed |-> 0]
<1>1. x \in RunRow
  BY DEF RunRow
<1>2. runs' = Append(runs, x) /\ runs \in Seq(RunRow)
  BY DEF BatchInserts, TypeOK
<1> HIDE DEF x
<1>3. /\ runs' \in Seq(RunRow) /\ Len(runs') = Len(runs) + 1
      /\ \A r \in 1 .. Len(runs) : runs'[r] = runs[r]
      /\ runs'[Len(runs) + 1] = x
  BY <1>1, <1>2, AppendProperties
<1>4. Len(runs) \in Nat /\ DOMAIN runs = 1 .. Len(runs) /\ DOMAIN runs' = 1 .. Len(runs')
  BY <1>2, <1>3, LenProperties
<1>5. batch' \in Batch /\ batch'.runs = batch.runs \cup {Len(runs) + 1}
  <2> DEFINE todo == batch.todo \ {c}
             R == batch.runs \cup {Len(runs) + 1}
  <2>1. batch \in Batch /\ todo \in SUBSET Convs /\ R \in SUBSET Nat
    BY <1>4 DEF TypeOK, Batch
  <2>2. batch' = [batch EXCEPT !.todo = todo, !.runs = R]
    BY DEF BatchInserts
  <2> HIDE DEF todo
  <2>3. batch' \in Batch /\ batch'.runs = R
    <3> HIDE DEF R
    <3> QED
      BY <2>1, <2>2, BatchShape
  <2> QED
    BY <2>3
<1> QED
  BY <1>3, <1>4, <1>5 DEF x

\* One of its runs fails, and no other does.
LEMMA BatchFailShape ==
    ASSUME TypeOK, NEW r \in batch.runs, r \in DOMAIN runs, BatchFails(r)
    PROVE  /\ runs' \in Seq(RunRow)
           /\ DOMAIN runs' = DOMAIN runs
           /\ \A q \in DOMAIN runs : q # r => runs'[q] = runs[q]
           /\ runs'[r].status = "failed"
           /\ runs'[r].conv = runs[r].conv
           /\ runs'[r].completed = runs[r].completed
           /\ batch' \in Batch
           /\ batch'.runs = batch.runs \ {r}
<1> DEFINE x == [runs[r] EXCEPT !.status = "failed"]
<1>1. runs \in Seq(RunRow) /\ runs[r] \in RunRow
  BY RunTyped DEF TypeOK
<1>2. /\ x \in RunRow /\ x.status = "failed"
      /\ x.conv = runs[r].conv /\ x.completed = runs[r].completed
  BY <1>1 DEF RunRow
<1>3. r \in 1 .. Len(runs) /\ DOMAIN runs = 1 .. Len(runs)
  BY <1>1, LenProperties
<1>4. runs' = [runs EXCEPT ![r] = x]
  BY DEF BatchFails
<1> HIDE DEF x
<1>5. /\ runs' \in Seq(RunRow) /\ Len(runs') = Len(runs)
      /\ \A q \in 1 .. Len(runs) : runs'[q] = IF q = r THEN x ELSE runs[q]
  BY <1>1, <1>2, <1>3, <1>4, ExceptSeq
<1>6. DOMAIN runs' = 1 .. Len(runs')
  BY <1>5, LenProperties
<1>7. batch' \in Batch /\ batch'.runs = batch.runs \ {r}
  BY DEF BatchFails, TypeOK, Batch
<1> QED
  BY <1>2, <1>3, <1>5, <1>6, <1>7

----------------------------------------------------------------------------
\* The counters of one conversation change, and no others do.
LEMMA CountersShape ==
    ASSUME TypeOK, NEW c \in Convs, NEW x \in Counters, conv' = [conv EXCEPT ![c] = x]
    PROVE  /\ conv' \in [Convs -> Counters]
           /\ \A d \in Convs : conv'[d] = IF d = c THEN x ELSE conv[d]
BY DEF TypeOK

\* A message more in the counters of a conversation.
LEMMA StoredTyped ==
    ASSUME NEW s \in Counters
    PROVE  [s EXCEPT !.stored = @ + 1, !.sinceRun = @ + 1] \in Counters
<1> DEFINE y == [s EXCEPT !.stored = @ + 1]
<1>1. y \in Counters /\ y.sinceRun + 1 \in Nat
  <2>1. y \in Counters
    BY DEF Counters
  <2> QED
    BY <2>1 DEF Counters
<1>2. [s EXCEPT !.stored = @ + 1, !.sinceRun = @ + 1] = [y EXCEPT !.sinceRun = y.sinceRun + 1]
  BY DEF Counters
<1> HIDE DEF y
<1> QED
  BY <1>1, <1>2 DEF Counters

\* A stored message counts for nobody's cap.
LEMMA StoreShape ==
    ASSUME TypeOK, NEW c \in Convs, StoreMessage(c)
    PROVE  /\ conv' \in [Convs -> Counters]
           /\ overrun' \in [Convs -> SUBSET Nat]
           /\ \A d \in Convs : conv'[d].auto = conv[d].auto /\ conv'[d].manual = conv[d].manual
<1>1. conv[c] \in Counters
  BY DEF TypeOK
<1> DEFINE x == [conv[c] EXCEPT !.stored = @ + 1, !.sinceRun = @ + 1]
           y == [conv[c] EXCEPT !.sinceRun = @ + 1]
<1>2. x \in Counters /\ x.auto = conv[c].auto /\ x.manual = conv[c].manual
  <2>1. x \in Counters
    BY <1>1, StoredTyped
  <2> QED
    BY <1>1, <2>1 DEF Counters
<1>3. y \in Counters /\ y.auto = conv[c].auto /\ y.manual = conv[c].manual
  BY <1>1 DEF Counters
<1>4. conv' = [conv EXCEPT ![c] = x] \/ conv' = [conv EXCEPT ![c] = y]
  BY DEF StoreMessage, TypeOK, Counters
<1>5. conv[c].stored + 1 \in Nat
  BY <1>1 DEF Counters
<1>6. overrun' \in [Convs -> SUBSET Nat]
  <2>1. \/ UNCHANGED overrun
        \/ overrun' = [overrun EXCEPT ![c] = @ \cup {conv[c].stored + 1}]
    BY DEF StoreMessage
  <2> QED
    BY <1>5, <2>1 DEF TypeOK
<1> HIDE DEF x, y
<1> QED
  BY <1>2, <1>3, <1>4, <1>6, CountersShape

\* A message that is stored while a run is at work came behind its back.
LEMMA StoredShape ==
    ASSUME TypeOK, NEW c \in Convs, StoreMessage(c)
    PROVE  \/ UNCHANGED overrun /\ \A d \in Convs : conv'[d].stored = conv[d].stored
           \/ /\ \A d \in Convs :
                    conv'[d].stored = IF d = c THEN conv[c].stored + 1 ELSE conv[d].stored
              /\ \A d \in Convs : overrun[d] \subseteq overrun'[d]
              /\ worker.pc \in {"llm", "apply", "reset", "complete"} /\ Current = c
                 => conv[c].stored + 1 \in overrun'[c]
<1>1. CASE /\ conv' = [conv EXCEPT ![c].stored = @ + 1, ![c].sinceRun = @ + 1]
           /\ overrun' = IF /\ worker.pc \in {"llm", "apply", "reset", "complete"}
                            /\ Current = c
                         THEN [overrun EXCEPT ![c] = @ \cup {conv[c].stored + 1}]
                         ELSE overrun
  <2>1. \A d \in Convs :
            conv'[d].stored = IF d = c THEN conv[c].stored + 1 ELSE conv[d].stored
    BY <1>1 DEF TypeOK, Counters
  <2>2. \A d \in Convs : overrun[d] \subseteq overrun'[d]
    BY <1>1 DEF TypeOK
  <2>3. worker.pc \in {"llm", "apply", "reset", "complete"} /\ Current = c
        => conv[c].stored + 1 \in overrun'[c]
    BY <1>1 DEF TypeOK
  <2> QED
    BY <2>1, <2>2, <2>3
<1>2. CASE conv' = [conv EXCEPT ![c].sinceRun = @ + 1] /\ UNCHANGED overrun
  <2>1. \A d \in Convs : conv'[d].stored = conv[d].stored
    BY <1>2 DEF TypeOK, Counters
  <2> QED
    BY <1>2, <2>1
<1> QED
  BY <1>1, <1>2 DEF StoreMessage, Current

\* The scan counts an automated run.
LEMMA ScanCountShape ==
    ASSUME TypeOK, NEW c \in Convs, ScanCounts(c)
    PROVE  /\ conv' \in [Convs -> Counters]
           /\ \A d \in Convs : conv'[d].auto = IF d = c THEN conv[c].auto + 1 ELSE conv[d].auto
           /\ \A d \in Convs : conv'[d].stored = conv[d].stored /\ conv'[d].manual = conv[d].manual
<1>1. conv[c] \in Counters
  BY DEF TypeOK
<1> DEFINE x == [conv[c] EXCEPT !.auto = @ + 1]
<1>2. /\ x \in Counters /\ x.auto = conv[c].auto + 1
      /\ x.stored = conv[c].stored /\ x.manual = conv[c].manual
  BY <1>1 DEF Counters
<1>3. conv' = [conv EXCEPT ![c] = x]
  BY DEF ScanCounts
<1> HIDE DEF x
<1> QED
  BY <1>2, <1>3, CountersShape

\* A trigger counts a manual one.
LEMMA TriggerCountShape ==
    ASSUME TypeOK, NEW h \in Handlers, TriggerCounts(h)
    PROVE  /\ conv' \in [Convs -> Counters]
           /\ \A d \in Convs : conv'[d].auto = conv[d].auto /\ conv'[d].stored = conv[d].stored
           /\ \A d \in Convs :
                conv'[d].manual = IF d = trigger[h].conv THEN conv[d].manual + 1 ELSE conv[d].manual
<1> DEFINE c == trigger[h].conv
           x == [conv[c] EXCEPT !.manual = @ + 1]
<1>1. c \in Convs /\ conv[c] \in Counters
  BY DEF TypeOK, Trigger
<1>2. /\ x \in Counters /\ x.auto = conv[c].auto /\ x.stored = conv[c].stored
      /\ x.manual = conv[c].manual + 1
  BY <1>1 DEF Counters
<1>3. conv' = [conv EXCEPT ![c] = x]
  BY DEF TriggerCounts
<1> HIDE DEF x
<1> QED
  BY <1>1, <1>2, <1>3, CountersShape

\* A run that was applied starts the message counter again.
LEMMA ResetShape ==
    ASSUME TypeOK, worker.item \in DOMAIN queue, ApplyResets
    PROVE  /\ conv' \in [Convs -> Counters]
           /\ \A d \in Convs : conv'[d].auto = conv[d].auto /\ conv'[d].stored = conv[d].stored
           /\ \A d \in Convs : conv'[d].manual = conv[d].manual
<1> DEFINE x == [conv[Current] EXCEPT !.sinceRun = 0]
<1>1. Current \in Convs /\ conv[Current] \in Counters
  BY ItemTyped DEF TypeOK, Current, Item
<1>2. /\ x \in Counters /\ x.auto = conv[Current].auto
      /\ x.stored = conv[Current].stored /\ x.manual = conv[Current].manual
  BY <1>1 DEF Counters
<1>3. conv' = [conv EXCEPT ![Current] = x]
  BY DEF ApplyResets
<1> HIDE DEF x
<1> QED
  BY <1>1, <1>2, <1>3, CountersShape

\* The worker's record after an update of it.
LEMMA WorkerAtTyped ==
    ASSUME TypeOK, NEW pc \in WorkerPCs, WorkerAt(pc)
    PROVE  worker' \in Worker
BY DEF TypeOK, WorkerAt, Worker

\* A free worker is a worker.
LEMMA IdleTyped == Idle \in Worker
BY DEF Idle, Worker, WorkerPCs

\* Every initial state is typed.
LEMMA InitTyped == Init => TypeOK
<1> SUFFICES ASSUME Init PROVE TypeOK
  OBVIOUS
<1>1. queue \in Seq(Item) /\ runs \in Seq(RunRow)
  BY EmptySeq DEF Init
<1> QED
  BY <1>1, IdleTyped DEF Init, TypeOK, Counters, Scan, Batch, Trigger

\* A message, the scan, the sweep, a trigger and midnight keep the types.
LEMMA TriggersTyped ==
    ASSUME TypeOK,
           \/ \E c \in Convs : StoreMessage(c) \/ ScanEnqueues(c) \/ ScanCounts(c) \/ SweepEnqueues(c)
           \/ \E h \in Handlers : \/ TriggerReadsCount(h) \/ TriggerChecks(h)
                                  \/ TriggerEnqueues(h) \/ TriggerCounts(h)
           \/ ScanReads \/ SweepReads \/ MidnightReset
    PROVE  TypeOK'
<1>1. ASSUME NEW c \in Convs, StoreMessage(c) PROVE TypeOK'
  BY <1>1, StoreShape DEF StoreMessage, TypeOK
<1>2. ASSUME NEW c \in Convs, ScanEnqueues(c) PROVE TypeOK'
  BY <1>2, EnqueueShape DEF ScanEnqueues, TypeOK, Scan, history, Triggers
<1>3. ASSUME NEW c \in Convs, ScanCounts(c) PROVE TypeOK'
  BY <1>3, ScanCountShape DEF ScanCounts, TypeOK, Scan, history
<1>4. ASSUME NEW c \in Convs, SweepEnqueues(c) PROVE TypeOK'
  BY <1>4, EnqueueShape DEF SweepEnqueues, TypeOK, history, Triggers
<1>5. ASSUME NEW h \in Handlers, TriggerReadsCount(h) \/ TriggerChecks(h) PROVE TypeOK'
  BY <1>5 DEF TriggerReadsCount, TriggerChecks, Goto, TypeOK, Trigger, history
<1>6. ASSUME NEW h \in Handlers, TriggerEnqueues(h) PROVE TypeOK'
  <2>1. queue' \in Seq(Item)
    BY <1>6, EnqueueShape DEF TriggerEnqueues, TypeOK, Trigger, Triggers
  <2>2. trigger' \in [Handlers -> Trigger]
    BY <1>6 DEF TriggerEnqueues, Goto, TypeOK, Trigger
  <2> QED
    BY <1>6, <2>1, <2>2 DEF TriggerEnqueues, TypeOK, history
<1>7. ASSUME NEW h \in Handlers, TriggerCounts(h) PROVE TypeOK'
  <2>1. trigger' \in [Handlers -> Trigger]
    BY <1>7 DEF TriggerCounts, Goto, TypeOK, Trigger
  <2> QED
    BY <1>7, <2>1, TriggerCountShape DEF TriggerCounts, TypeOK, history
<1>8. CASE ScanReads
  BY <1>8 DEF ScanReads, TypeOK, Scan, history
<1>9. CASE SweepReads
  BY <1>9 DEF SweepReads, TypeOK, history
<1>10. CASE MidnightReset
  BY <1>10 DEF MidnightReset, TypeOK, Counters, history
<1> QED
  BY <1>1, <1>2, <1>3, <1>4, <1>5, <1>6, <1>7, <1>8, <1>9, <1>10

\* So does the nightly batch.
LEMMA BatchTyped ==
    ASSUME TypeOK, BatchHolds,
           \/ BatchReads
           \/ \E c \in Convs : BatchInserts(c)
           \/ \E r \in batch.runs : BatchFails(r)
    PROVE  TypeOK'
<1>1. CASE BatchReads
  <2>1. batch.nights + 1 \in Nat /\ batch.runs \in SUBSET Nat
    BY DEF TypeOK, Batch
  <2>2. batch' \in Batch
    BY <1>1, <2>1, NightShape DEF BatchReads, TypeOK
  <2> QED
    BY <1>1, <2>2 DEF BatchReads, TypeOK, history
<1>2. ASSUME NEW c \in Convs, BatchInserts(c) PROVE TypeOK'
  BY <1>2, BatchInsertShape DEF BatchInserts, TypeOK, history
<1>3. ASSUME NEW r \in batch.runs, BatchFails(r) PROVE TypeOK'
  BY <1>3, BatchFailShape DEF BatchFails, BatchHolds, TypeOK, history
<1> QED
  BY <1>1, <1>2, <1>3

\* The worker keeps them, as long as it holds what it says it holds.
LEMMA DrainTyped ==
    ASSUME TypeOK, RunsBound, WorkerHolds, Drain
    PROVE  TypeOK'
<1> USE DEF history
<1>1. CASE DrainPicks
  <2>1. PICK i \in DOMAIN queue : worker' = [Idle EXCEPT !.pc = "insert", !.item = i]
    BY <1>1 DEF DrainPicks
  <2>2. i \in Nat
    BY LenProperties DEF TypeOK
  <2> QED
    BY <1>1, <2>1, <2>2 DEF DrainPicks, Idle, TypeOK, Worker, WorkerPCs
<1>2. CASE DrainInsertsRun
  <2>1. worker.item \in DOMAIN queue
    BY <1>2 DEF DrainInsertsRun, WorkerHolds
  <2>2. runs' \in Seq(RunRow) /\ Len(runs) + 1 \in Nat
    BY <1>2, <2>1, InsertRunShape
  <2> QED
    BY <1>2, <2>2 DEF DrainInsertsRun, TypeOK, Worker, WorkerPCs
<1>3. CASE DrainClaims
  <2>1. worker.item \in DOMAIN queue
    BY <1>3 DEF DrainClaims, WorkerHolds
  <2>2. queue' \in Seq(Item)
    BY <1>3, <2>1, ClaimShape DEF DrainClaims, TypeOK
  <2>3. worker' \in Worker
    BY <1>3, IdleTyped, WorkerAtTyped DEF DrainClaims, WorkerPCs
  <2> QED
    BY <1>3, <2>2, <2>3 DEF DrainClaims, TypeOK
<1>4. CASE RunReads
  <2>1. Unread(Current) \subseteq Nat /\ 1 .. conv[Current].stored \subseteq Nat
    BY DEF Unread
  <2>2. CASE WorkerAt("fail")
    BY <1>4, <2>2, WorkerAtTyped DEF RunReads, TypeOK, WorkerPCs
  <2>3. CASE ~WorkerAt("fail")
    <3>1. PICK seen \in SUBSET Nat : worker' = [worker EXCEPT !.pc = "llm", !.seen = seen]
      BY <1>4, <2>1, <2>3 DEF RunReads
    <3>2. worker' \in Worker
      BY <3>1 DEF TypeOK, Worker, WorkerPCs
    <3> QED
      BY <1>4, <3>2 DEF RunReads, TypeOK
  <2> QED
    BY <2>2, <2>3
<1>5. CASE RunUnanswered \/ ApplyFails
  BY <1>5 DEF RunUnanswered, ApplyFails, WorkerAt, TypeOK, Worker, WorkerPCs
<1>6. CASE RunAnswered \/ ApplyCompletes \/ RunFails
  <2>1. worker.item \in DOMAIN queue /\ worker.run \in DOMAIN runs
    BY <1>6 DEF RunAnswered, ApplyCompletes, RunFails, WorkerHolds, RunsBound, Claimed
  <2>2. runs' \in Seq(RunRow)
    BY <1>6, <2>1, SetRunShape DEF RunAnswered, ApplyCompletes, RunFails
  <2>3. worker' \in Worker
    BY <1>6 DEF RunAnswered, ApplyCompletes, RunFails, WorkerAt, TypeOK, Worker, WorkerPCs
  <2> QED
    BY <1>6, <2>2, <2>3 DEF RunAnswered, ApplyCompletes, RunFails, TypeOK
<1>7. CASE ApplyWrites
  <2>1. Current \in Convs
    BY <1>7, ItemTyped DEF ApplyWrites, WorkerHolds, Current, Item
  <2> QED
    BY <1>7, <2>1 DEF ApplyWrites, WorkerAt, TypeOK, Worker, WorkerPCs
<1>8. CASE ApplyResets
  <2>1. worker.item \in DOMAIN queue
    BY <1>8 DEF ApplyResets, WorkerHolds
  <2>2. conv' \in [Convs -> Counters]
    BY <1>8, <2>1, ResetShape
  <2>3. worker' \in Worker
    BY <1>8, WorkerAtTyped DEF ApplyResets, WorkerPCs
  <2> QED
    BY <1>8, <2>2, <2>3 DEF ApplyResets, TypeOK
<1>9. CASE DrainCloses
  <2>1. queue' \in Seq(Item)
    BY <1>9, SetItemShape DEF DrainCloses, WorkerHolds
  <2> QED
    BY <1>9, <2>1, IdleTyped DEF DrainCloses, TypeOK
<1> QED
  BY <1>1, <1>2, <1>3, <1>4, <1>5, <1>6, <1>7, <1>8, <1>9 DEF Drain

\* So do exceptions and restarts.
LEMMA FaultsTyped ==
    ASSUME TypeOK, RunRaises \/ TaskRaises \/ Restart
    PROVE  TypeOK'
<1> USE DEF history
<1>1. CASE RunRaises
  BY <1>1, WorkerAtTyped DEF RunRaises, TypeOK, WorkerPCs
<1>2. CASE TaskRaises
  <2>1. worker' \in Worker /\ scan' \in Scan
    BY <1>2, IdleTyped DEF TaskRaises, TypeOK, Scan
  <2>2. batch' \in Batch
    <3>1. UNCHANGED batch \/ BatchEnds
      BY <1>2 DEF TaskRaises
    <3>2. CASE UNCHANGED batch
      BY <3>2 DEF TypeOK
    <3>3. CASE BatchEnds
      BY <3>3, BatchShape DEF BatchEnds, TypeOK
    <3> QED
      BY <3>1, <3>2, <3>3
  <2>3. trigger' \in [Handlers -> Trigger]
    BY <1>2 DEF TaskRaises, Goto, TypeOK, Trigger
  <2> QED
    BY <1>2, <2>1, <2>2, <2>3 DEF TaskRaises, TypeOK
<1>3. CASE Restart
  <2>1. batch' \in Batch
    BY <1>3, BatchShape DEF Restart, BatchEnds, TypeOK
  <2> QED
    BY <1>3, <2>1, IdleTyped DEF Restart, TypeOK, Scan, Trigger
<1> QED
  BY <1>1, <1>2, <1>3

----------------------------------------------------------------------------
\* The scan's list and the day's count of automated runs.
LEMMA CapStep ==
    ASSUME TypeOK, ScanWithinCap, AutoCapKept, WorkerHolds, [Next]_vars
    PROVE  ScanWithinCap' /\ AutoCapKept'
<1> USE ParametersAssumption DEF ScanWithinCap, AutoCapKept
<1>1. /\ \A c \in Convs : conv[c].auto \in Nat
      /\ scan.todo \subseteq Convs /\ scan.counting \subseteq Convs
      /\ scan = [todo |-> scan.todo, counting |-> scan.counting]
  BY DEF TypeOK, Scan, Counters
<1>2. ASSUME UNCHANGED conv, scan'.todo \subseteq scan.todo \cup {c \in Convs : Eligible(c)},
             scan'.counting \subseteq scan.counting \cup scan.todo,
             scan'.todo \cap scan'.counting = {}
      PROVE  ScanWithinCap' /\ AutoCapKept'
  BY <1>1, <1>2 DEF Eligible
<1>3. ASSUME UNCHANGED scan, \A c \in Convs : conv'[c].auto = conv[c].auto \/ conv'[c].auto = 0
      PROVE  ScanWithinCap' /\ AutoCapKept'
  <2>1. \A c \in Convs : conv'[c].auto <= conv[c].auto
    BY <1>1, <1>3
  <2>2. \A c \in Convs : conv'[c].auto \in Nat
    BY <1>1, <1>3
  <2> QED
    BY <1>1, <1>3, <2>1, <2>2
<1>4. ASSUME UNCHANGED <<conv, scan>> PROVE ScanWithinCap' /\ AutoCapKept'
  BY <1>4
<1>5. ASSUME NEW c \in Convs, StoreMessage(c) PROVE ScanWithinCap' /\ AutoCapKept'
  <2>1. UNCHANGED scan
    BY <1>5 DEF StoreMessage
  <2> QED
    BY <1>3, <1>5, <2>1, StoreShape
<1>6. CASE ScanReads
  BY <1>1, <1>2, <1>6 DEF ScanReads
<1>7. ASSUME NEW c \in Convs, ScanEnqueues(c) PROVE ScanWithinCap' /\ AutoCapKept'
  <2>1. c \in scan.todo /\ scan.counting = {} /\ UNCHANGED conv
    BY <1>7 DEF ScanEnqueues
  <2>2. /\ scan'.todo = scan.todo \ {c}
        /\ scan'.counting \in {{c}, {}}
    BY <1>1, <1>7, <2>1 DEF ScanEnqueues
  <2> QED
    BY <1>2, <2>1, <2>2
<1>8. ASSUME NEW c \in Convs, ScanCounts(c) PROVE ScanWithinCap' /\ AutoCapKept'
  <2>1. scan'.counting = {} /\ scan'.todo = scan.todo /\ c \in scan.counting
    BY <1>1, <1>8 DEF ScanCounts
  <2>2. \A d \in Convs : conv'[d].auto = IF d = c THEN conv[c].auto + 1 ELSE conv[d].auto
    BY <1>8, ScanCountShape
  <2>3. c \notin scan.todo /\ conv[c].auto < AutoCap
    BY <2>1
  <2>4. \A d \in scan.todo : conv'[d].auto = conv[d].auto
    BY <1>1, <2>2, <2>3
  <2> QED
    BY <1>1, <2>1, <2>2, <2>3, <2>4
<1>9. ASSUME NEW h \in Handlers, TriggerCounts(h) PROVE ScanWithinCap' /\ AutoCapKept'
  <2>1. UNCHANGED scan
    BY <1>9 DEF TriggerCounts
  <2> QED
    BY <1>3, <1>9, <2>1, TriggerCountShape
<1>10. CASE MidnightReset
  <2>1. UNCHANGED scan /\ \A c \in Convs : conv'[c].auto = 0
    BY <1>10 DEF MidnightReset, TypeOK, Counters
  <2> QED
    BY <1>3, <2>1
<1>11. CASE ApplyResets
  <2>1. UNCHANGED scan /\ worker.item \in DOMAIN queue
    BY <1>11 DEF ApplyResets, WorkerHolds
  <2> QED
    BY <1>3, <1>11, <2>1, ResetShape
<1>12. CASE Drain /\ ~ApplyResets
  <2>1. UNCHANGED <<conv, scan>>
    BY <1>12 DEF Drain, DrainPicks, DrainInsertsRun, DrainClaims, RunReads, RunAnswered,
       RunUnanswered, ApplyWrites, ApplyFails, ApplyCompletes, RunFails, DrainCloses
  <2> QED
    BY <1>4, <2>1
<1>13. CASE RunRaises \/ TaskRaises \/ Restart
  <2>1. UNCHANGED conv /\ (UNCHANGED scan \/ scan' = [todo |-> {}, counting |-> {}])
    BY <1>13 DEF RunRaises, TaskRaises, Restart
  <2> QED
    BY <1>2, <1>4, <2>1
<1>14. ASSUME \/ UNCHANGED vars \/ SweepReads \/ BatchReads
              \/ \E c \in Convs : SweepEnqueues(c) \/ BatchInserts(c)
              \/ \E r \in batch.runs : BatchFails(r)
              \/ \E h \in Handlers : TriggerReadsCount(h) \/ TriggerChecks(h) \/ TriggerEnqueues(h)
       PROVE  ScanWithinCap' /\ AutoCapKept'
  <2>1. UNCHANGED <<conv, scan>>
    BY <1>14 DEF vars, SweepReads, SweepEnqueues, BatchReads, BatchInserts, BatchFails,
       TriggerReadsCount, TriggerChecks,
       TriggerEnqueues
  <2> QED
    BY <1>4, <2>1
<1> HIDE DEF ScanWithinCap, AutoCapKept
<1> QED
  BY <1>5, <1>6, <1>7, <1>8, <1>9, <1>10, <1>11, <1>12, <1>13, <1>14 DEF Next

----------------------------------------------------------------------------
(***************************************************************************)
(* The queue, its runs and the worker: a step that adds a pending row, one *)
(* that leaves all three alone, and the worker's own.                      *)
(***************************************************************************)
\* What the proofs below keep.
Bound == RunsBound /\ WorkerHolds /\ BatchHolds /\ OutcomesAgree /\ ProcessingIsHeld

\* A step that leaves the two tables and the worker alone.
LEMMA AloneKeepsBound ==
    ASSUME Bound, UNCHANGED <<queue, runs, worker, faults>>, batch'.runs = batch.runs
    PROVE  Bound'
BY DEF Bound, RunsBound, Claimed, WorkerHolds, BatchHolds, OutcomesAgree, ProcessingIsHeld,
   WorkerHasRun

\* The batch's runs are neither the worker's nor any item's.
LEMMA BatchKeepsBound ==
    ASSUME TypeOK, Bound,
           \/ \E c \in Convs : BatchInserts(c)
           \/ \E r \in batch.runs : BatchFails(r)
    PROVE  Bound'
<1> USE DEF Bound, Claimed, WorkerHasRun
<1>1. UNCHANGED <<queue, worker, faults>>
  BY DEF BatchInserts, BatchFails
<1>2. /\ \A i \in DOMAIN queue : Claimed(i) => queue[i].run \in DOMAIN runs
      /\ worker.pc \notin {"idle", "insert"} => worker.run \in DOMAIN runs
  BY DEF RunsBound, WorkerHolds
<1>3. ASSUME NEW c \in Convs, BatchInserts(c) PROVE Bound'
  <2>1. /\ DOMAIN runs' = DOMAIN runs \cup {Len(runs) + 1}
        /\ Len(runs) + 1 \notin DOMAIN runs
        /\ \A r \in DOMAIN runs : runs'[r] = runs[r]
        /\ batch'.runs = batch.runs \cup {Len(runs) + 1}
    BY <1>3, BatchInsertShape
  <2>2. RunsBound' /\ OutcomesAgree'
    BY <1>1, <1>2, <2>1 DEF RunsBound, OutcomesAgree
  <2>3. WorkerHolds'
    BY <1>1, <1>2, <2>1 DEF WorkerHolds
  <2>4. BatchHolds'
    BY <1>1, <1>2, <2>1 DEF BatchHolds
  <2>5. ProcessingIsHeld'
    BY <1>1, <2>1 DEF ProcessingIsHeld
  <2> QED
    BY <2>2, <2>3, <2>4, <2>5
<1>4. ASSUME NEW r \in batch.runs, BatchFails(r) PROVE Bound'
  <2>1. /\ r \in DOMAIN runs
        /\ \A i \in DOMAIN queue : Claimed(i) => queue[i].run # r
        /\ worker.pc \notin {"idle", "insert"} => worker.run # r
    BY DEF BatchHolds
  <2>2. /\ DOMAIN runs' = DOMAIN runs
        /\ \A q \in DOMAIN runs : q # r => runs'[q] = runs[q]
        /\ runs'[r].status = "failed"
        /\ batch'.runs = batch.runs \ {r}
    BY <1>4, <2>1, BatchFailShape
  <2>3. RunsBound' /\ OutcomesAgree'
    BY <1>1, <1>2, <2>1, <2>2 DEF RunsBound, OutcomesAgree
  <2>4. WorkerHolds'
    BY <1>1, <1>2, <2>1, <2>2 DEF WorkerHolds
  <2>5. BatchHolds'
    BY <1>1, <2>2 DEF BatchHolds
  <2>6. ProcessingIsHeld'
    BY <1>1, <2>2 DEF ProcessingIsHeld
  <2> QED
    BY <2>3, <2>4, <2>5, <2>6
<1> QED
  BY <1>3, <1>4

\* A pending row is nobody's.
LEMMA EnqueueKeepsBound ==
    ASSUME TypeOK, Bound, NEW c \in Convs, NEW kind \in Triggers, Enqueue(c, kind),
           UNCHANGED <<runs, worker, batch, faults>>
    PROVE  Bound'
<1> USE EnqueueShape DEF Bound, Claimed
<1>1. \A i \in DOMAIN queue' : Claimed(i)' => i \in DOMAIN queue /\ Claimed(i)
  OBVIOUS
<1>2. \A i \in DOMAIN queue : queue'[i] = queue[i] /\ i \in DOMAIN queue'
  OBVIOUS
<1>3. RunsBound'
  BY <1>1, <1>2 DEF RunsBound
<1>4. WorkerHolds'
  BY <1>1, <1>2 DEF WorkerHolds
<1>5. OutcomesAgree'
  BY <1>1, <1>2 DEF OutcomesAgree
<1>6. ProcessingIsHeld'
  BY <1>1, <1>2 DEF ProcessingIsHeld, WorkerHasRun
<1>7. BatchHolds'
  BY <1>1, <1>2 DEF BatchHolds, WorkerHasRun
<1> QED
  BY <1>3, <1>4, <1>5, <1>6, <1>7

\* The worker picks an item, creates a run and claims the item for it.
LEMMA ClaimingKeepsBound ==
    ASSUME TypeOK, Bound, DrainPicks \/ DrainInsertsRun \/ DrainClaims
    PROVE  Bound'
<1> USE DEF Bound, Claimed, WorkerHasRun
<1>1. CASE DrainPicks
  <2>1. PICK i \in DOMAIN queue : /\ queue[i].status = "pending"
                                  /\ worker' = [Idle EXCEPT !.pc = "insert", !.item = i]
    BY <1>1 DEF DrainPicks
  <2>2. UNCHANGED <<queue, runs, batch, faults>> /\ worker.pc = "idle"
    BY <1>1 DEF DrainPicks
  <2>3. worker'.pc = "insert" /\ worker'.item = i /\ ~worker'.success
    BY <2>1 DEF Idle
  <2>4. RunsBound' /\ OutcomesAgree'
    BY <2>2 DEF RunsBound, OutcomesAgree
  <2>5. WorkerHolds'
    BY <2>1, <2>2, <2>3 DEF WorkerHolds
  <2>6. ProcessingIsHeld'
    <3>1. worker.item = 0 /\ 0 \notin DOMAIN queue
      BY <2>2, LenProperties DEF WorkerHolds, TypeOK
    <3> QED
      BY <2>2, <3>1 DEF ProcessingIsHeld
  <2>7. BatchHolds'
    BY <2>2, <2>3 DEF BatchHolds
  <2> QED
    BY <2>4, <2>5, <2>6, <2>7
<1>2. CASE DrainInsertsRun
  <2>1. worker.item \in DOMAIN queue /\ ~Claimed(worker.item) /\ worker.pc = "insert"
    BY <1>2 DEF DrainInsertsRun, WorkerHolds
  <2>2. /\ worker'.pc = "claim" /\ worker'.run = Len(runs) + 1 /\ worker'.item = worker.item
        /\ ~worker'.success
    BY <1>2, <2>1 DEF DrainInsertsRun, TypeOK, Worker, WorkerHolds
  <2>3. UNCHANGED <<queue, batch, faults>>
    BY <1>2 DEF DrainInsertsRun
  <2>4. /\ DOMAIN runs' = DOMAIN runs \cup {Len(runs) + 1}
        /\ Len(runs) + 1 \notin DOMAIN runs
        /\ \A r \in DOMAIN runs : runs'[r] = runs[r]
    BY <1>2, <2>1, InsertRunShape
  <2>5. RunsBound'
    BY <2>3, <2>4 DEF RunsBound
  <2>6. OutcomesAgree'
    BY <2>3, <2>4 DEF OutcomesAgree, RunsBound
  <2>7. WorkerHolds'
    BY <2>1, <2>2, <2>3, <2>4 DEF WorkerHolds, RunsBound
  <2>8. ProcessingIsHeld'
    BY <2>1, <2>2, <2>3, <2>4 DEF ProcessingIsHeld
  <2>9. BatchHolds'
    BY <2>1, <2>2, <2>3, <2>4 DEF BatchHolds
  <2> QED
    BY <2>5, <2>6, <2>7, <2>8, <2>9
<1>3. CASE DrainClaims
  <2>1. /\ worker.item \in DOMAIN queue /\ ~Claimed(worker.item) /\ worker.pc = "claim"
        /\ worker.run \in DOMAIN runs
        /\ \A i \in DOMAIN queue : Claimed(i) => queue[i].run # worker.run
    BY <1>3 DEF DrainClaims, WorkerHolds
  <2>2. /\ DOMAIN queue' = DOMAIN queue
        /\ \A j \in DOMAIN queue : j # worker.item => queue'[j] = queue[j]
        /\ queue'[worker.item].status = "processing"
        /\ queue'[worker.item].run = worker.run
    BY <1>3, <2>1, ClaimShape DEF DrainClaims
  <2>3. worker' = [worker EXCEPT !.pc = "read"] /\ UNCHANGED <<runs, batch, faults>>
    BY <1>3, <2>1 DEF DrainClaims, WorkerAt
  <2>4. /\ worker'.pc = "read" /\ worker'.item = worker.item /\ worker'.run = worker.run
        /\ ~worker'.success
    BY <2>1, <2>3 DEF TypeOK, Worker, WorkerHolds
  <2>5. RunsBound'
    BY <2>1, <2>2, <2>3 DEF RunsBound
  <2>6. OutcomesAgree'
    BY <2>1, <2>2, <2>3 DEF OutcomesAgree
  <2>7. WorkerHolds'
    BY <2>1, <2>2, <2>4 DEF WorkerHolds
  <2>8. ProcessingIsHeld'
    BY <2>1, <2>2, <2>3, <2>4 DEF ProcessingIsHeld
  <2>9. BatchHolds'
    BY <2>1, <2>2, <2>3, <2>4 DEF BatchHolds
  <2> QED
    BY <2>5, <2>6, <2>7, <2>8, <2>9
<1> QED
  BY <1>1, <1>2, <1>3

\* The places at which the worker runs a claimed item, short of closing it.
Running == {"read", "llm", "apply", "reset", "complete", "fail"}

\* A step of the run that touches neither table.
LEMMA RunningKeepsBound ==
    ASSUME Bound, UNCHANGED <<queue, runs, batch>>, faults' = faults \/ faults' # 0,
           worker.pc \in Running, worker'.pc \in Running,
           worker'.item = worker.item, worker'.run = worker.run,
           worker'.success = worker.success
    PROVE  Bound'
BY DEF Running, Bound, RunsBound, Claimed, WorkerHolds, BatchHolds, OutcomesAgree,
   ProcessingIsHeld, WorkerHasRun

\* A step that gives the run a status, which no item has been closed with.
LEMMA StatusKeepsBound ==
    ASSUME TypeOK, Bound, UNCHANGED <<queue, batch, faults>>, worker.pc \in Running,
           NEW status \in {"success", "failed"}, SetRun(status),
           worker'.pc \in Running \cup {"close"},
           worker'.item = worker.item, worker'.run = worker.run,
           worker'.pc \in Running => ~worker'.success,
           worker'.pc = "close" => status = IF worker'.success THEN "success" ELSE "failed"
    PROVE  Bound'
<1> USE DEF Bound, Claimed, Running, WorkerHasRun
<1>1. /\ worker.item \in DOMAIN queue /\ Claimed(worker.item)
      /\ queue[worker.item].status = "processing" /\ queue[worker.item].run = worker.run
      /\ worker.run \in DOMAIN runs
  BY DEF WorkerHolds, RunsBound
<1>2. /\ DOMAIN runs' = DOMAIN runs
      /\ \A r \in DOMAIN runs : r # worker.run => runs'[r] = runs[r]
      /\ runs'[worker.run].status = status
  BY <1>1, SetRunShape
<1>3. RunsBound'
  BY <1>2 DEF RunsBound
<1>4. OutcomesAgree'
  <2>1. \A i \in DOMAIN queue : queue[i].status \in {"done", "failed"}
           => queue[i].run \in DOMAIN runs /\ queue[i].run # worker.run
    BY <1>1 DEF RunsBound
  <2> QED
    BY <1>2, <2>1 DEF OutcomesAgree
<1>5. WorkerHolds'
  BY <1>1, <1>2 DEF WorkerHolds
<1>6. ProcessingIsHeld'
  BY <1>1, <1>2 DEF ProcessingIsHeld
<1>7. BatchHolds'
  BY <1>1, <1>2 DEF BatchHolds
<1> QED
  BY <1>3, <1>4, <1>5, <1>6, <1>7

\* The worker lets go of the item, whose status is its run's.
LEMMA ClosingKeepsBound ==
    ASSUME TypeOK, Bound, DrainCloses
    PROVE  Bound'
<1> USE DEF Bound, Claimed, WorkerHasRun
<1> DEFINE status == IF worker.success THEN "done" ELSE "failed"
<1>1. /\ worker.item \in DOMAIN queue /\ Claimed(worker.item)
      /\ queue[worker.item].run = worker.run
      /\ runs[worker.run].status = IF worker.success THEN "success" ELSE "failed"
  BY DEF DrainCloses, WorkerHolds
<1>2. /\ DOMAIN queue' = DOMAIN queue
      /\ \A j \in DOMAIN queue : j # worker.item => queue'[j] = queue[j]
      /\ queue'[worker.item].status = status
      /\ queue'[worker.item].run = queue[worker.item].run
  BY <1>1, SetItemShape DEF DrainCloses
<1>3. /\ UNCHANGED <<runs, batch, faults>>
      /\ worker'.pc = "idle" /\ worker'.item = 0 /\ ~worker'.success
  BY DEF DrainCloses, Idle
<1>4. RunsBound'
  BY <1>1, <1>2, <1>3 DEF RunsBound
<1>5. OutcomesAgree'
  BY <1>1, <1>2, <1>3 DEF OutcomesAgree
<1>6. WorkerHolds'
  BY <1>3 DEF WorkerHolds
<1>7. ProcessingIsHeld'
  BY <1>1, <1>2, <1>3 DEF ProcessingIsHeld
<1>8. BatchHolds'
  BY <1>1, <1>2, <1>3 DEF BatchHolds
<1> QED
  BY <1>4, <1>5, <1>6, <1>7, <1>8

\* Every step of the worker.
LEMMA DrainKeepsBound ==
    ASSUME TypeOK, Bound, Drain
    PROVE  Bound'
<1>1. CASE DrainPicks \/ DrainInsertsRun \/ DrainClaims
  BY <1>1, ClaimingKeepsBound
<1>2. worker \in Worker /\ (worker.success => worker.pc = "close")
  BY DEF TypeOK, Bound, WorkerHolds
<1>3. CASE RunReads \/ RunUnanswered \/ ApplyWrites \/ ApplyFails \/ ApplyResets
  <2>1. /\ UNCHANGED <<queue, runs, batch, faults>>
        /\ worker.pc \in Running /\ worker'.pc \in Running
        /\ worker'.item = worker.item /\ worker'.run = worker.run
        /\ worker'.success = worker.success
    BY <1>2, <1>3 DEF RunReads, RunUnanswered, ApplyWrites, ApplyFails, ApplyResets, WorkerAt,
       Worker, Running
  <2> QED
    BY <2>1, RunningKeepsBound
<1>4. CASE RunAnswered
  <2>1. /\ UNCHANGED <<queue, batch, faults>> /\ SetRun("success")
        /\ worker.pc \in Running /\ worker'.pc \in Running /\ ~worker'.success
        /\ worker'.item = worker.item /\ worker'.run = worker.run
    BY <1>2, <1>4 DEF RunAnswered, WorkerAt, Worker, Running
  <2> QED
    BY <2>1, StatusKeepsBound DEF Running
<1>5. CASE ApplyCompletes
  <2>1. /\ UNCHANGED <<queue, batch, faults>> /\ SetRun("success")
        /\ worker.pc \in Running /\ worker'.pc = "close" /\ worker'.success
        /\ worker'.item = worker.item /\ worker'.run = worker.run
    BY <1>2, <1>5 DEF ApplyCompletes, Worker, Running
  <2> QED
    BY <2>1, StatusKeepsBound DEF Running
<1>6. CASE RunFails
  <2>1. /\ UNCHANGED <<queue, batch, faults>> /\ SetRun("failed")
        /\ worker.pc \in Running /\ worker'.pc = "close" /\ ~worker'.success
        /\ worker'.item = worker.item /\ worker'.run = worker.run
    BY <1>2, <1>6 DEF RunFails, WorkerAt, Worker, Running
  <2> QED
    BY <2>1, StatusKeepsBound DEF Running
<1>7. CASE DrainCloses
  BY <1>7, ClosingKeepsBound
<1> QED
  BY <1>1, <1>3, <1>4, <1>5, <1>6, <1>7 DEF Drain

\* A fault drops the worker, or sends it to the failure path.
LEMMA FaultsKeepBound ==
    ASSUME TypeOK, Bound, RunRaises \/ TaskRaises \/ Restart
    PROVE  Bound'
<1>1. UNCHANGED <<queue, runs>> /\ faults' # 0
  BY DEF RunRaises, TaskRaises, Restart, TypeOK
<1>2. CASE RunRaises
  <2>1. /\ UNCHANGED batch
        /\ worker.pc \in Running /\ worker'.pc \in Running
        /\ worker'.item = worker.item /\ worker'.run = worker.run
        /\ worker'.success = worker.success
    BY <1>2 DEF RunRaises, WorkerAt, TypeOK, Worker, Running
  <2> QED
    BY <1>1, <2>1, RunningKeepsBound
<1>3. RunsBound' /\ OutcomesAgree' /\ ProcessingIsHeld'
  BY <1>1 DEF Bound, RunsBound, Claimed, OutcomesAgree, ProcessingIsHeld
<1>4. ASSUME TaskRaises \/ Restart PROVE batch'.runs \subseteq batch.runs
  BY <1>4 DEF TaskRaises, Restart, BatchEnds, TypeOK, Batch
<1>5. CASE worker' = worker /\ (TaskRaises \/ Restart)
  BY <1>1, <1>3, <1>4, <1>5 DEF Bound, Claimed, WorkerHolds, BatchHolds, WorkerHasRun
<1>6. CASE worker' = Idle /\ (TaskRaises \/ Restart)
  BY <1>1, <1>3, <1>4, <1>6 DEF Idle, Bound, Claimed, WorkerHolds, BatchHolds, WorkerHasRun
<1> QED
  BY <1>2, <1>5, <1>6 DEF TaskRaises, Restart

----------------------------------------------------------------------------
(***************************************************************************)
(* What a successful run leaves out.                                       *)
(***************************************************************************)
Kept == RunsKept /\ NothingLeftOut

\* The conversation the worker is at is one, and so is that of any run.
LEMMA ConvsKnown ==
    ASSUME TypeOK
    PROVE  /\ \A r \in DOMAIN runs : /\ runs[r].conv \in Convs
                                     /\ runs[r].completed \in Nat
           /\ worker.item \in DOMAIN queue => Current \in Convs
           /\ \A c \in Convs : conv[c].stored \in Nat
<1>1. \A r \in DOMAIN runs : runs[r] \in RunRow
  BY RunTyped
<1>2. worker.item \in DOMAIN queue => queue[worker.item] \in Item
  BY ItemTyped
<1> QED
  BY <1>1, <1>2 DEF RunRow, Item, Current, TypeOK, Counters

\* A step that labels nothing, stores nothing and leaves the worker be.
LEMMA AloneKeepsKept ==
    ASSUME TypeOK, Kept, WorkerHolds, UNCHANGED <<runs, worker, tagged, overrun, faults>>,
           worker.item \in DOMAIN queue => Current' = Current,
           \A c \in Convs : conv'[c].stored = conv[c].stored
    PROVE  Kept'
<1>1. worker.pc # "idle" => Current' = Current /\ Current \in Convs
  BY ConvsKnown DEF WorkerHolds
<1>2. RunsKept'
  BY <1>1, ConvsKnown DEF Kept, RunsKept
<1>3. NothingLeftOut'
  BY <1>1 DEF Kept, NothingLeftOut
<1> QED
  BY <1>2, <1>3 DEF Kept

\* A run of the batch is never successful.
LEMMA BatchKeepsKept ==
    ASSUME TypeOK, Bound, Kept,
           \/ \E c \in Convs : BatchInserts(c)
           \/ \E r \in batch.runs : BatchFails(r)
    PROVE  Kept'
<1>1. UNCHANGED <<queue, conv, worker, tagged, overrun, faults>> /\ Current' = Current
  BY DEF BatchInserts, BatchFails, Current, history
<1>2. worker.pc \notin {"idle", "insert"}
      => worker.run \in DOMAIN runs /\ runs[worker.run].conv = Current
  BY DEF Kept, RunsKept
<1>3. ASSUME NEW c \in Convs, BatchInserts(c) PROVE Kept'
  <2>1. /\ DOMAIN runs' = DOMAIN runs \cup {Len(runs) + 1}
        /\ \A r \in DOMAIN runs : runs'[r] = runs[r]
        /\ runs'[Len(runs) + 1] = [conv |-> c, status |-> "processing", completed |-> 0]
    BY <1>3, BatchInsertShape
  <2>2. RunsKept'
    BY <1>1, <1>2, <2>1, ConvsKnown DEF Kept, RunsKept
  <2>3. NothingLeftOut'
    BY <1>1, <2>1 DEF Kept, NothingLeftOut
  <2> QED
    BY <2>2, <2>3 DEF Kept
<1>4. ASSUME NEW r \in batch.runs, BatchFails(r) PROVE Kept'
  <2>1. r \in DOMAIN runs
    BY DEF Bound, BatchHolds
  <2>2. /\ DOMAIN runs' = DOMAIN runs
        /\ \A q \in DOMAIN runs : q # r => runs'[q] = runs[q]
        /\ runs'[r].status = "failed"
        /\ runs'[r].conv = runs[r].conv /\ runs'[r].completed = runs[r].completed
    BY <1>4, <2>1, BatchFailShape
  <2>3. RunsKept'
    BY <1>1, <1>2, <2>2 DEF Kept, RunsKept
  <2>4. NothingLeftOut'
    BY <1>1, <2>2 DEF Kept, NothingLeftOut
  <2> QED
    BY <2>3, <2>4 DEF Kept
<1> QED
  BY <1>3, <1>4

\* A message stored now is read by a later run, or came behind this one's back.
LEMMA StoringKeepsKept ==
    ASSUME TypeOK, Kept, WorkerHolds, NEW c \in Convs, StoreMessage(c)
    PROVE  Kept'
<1>1. UNCHANGED <<queue, runs, worker, tagged, faults>> /\ Current' = Current
  BY DEF StoreMessage, Current
<1>2. CASE UNCHANGED overrun /\ \A d \in Convs : conv'[d].stored = conv[d].stored
  BY <1>1, <1>2, AloneKeepsKept
<1>3. CASE /\ \A d \in Convs :
                conv'[d].stored = IF d = c THEN conv[c].stored + 1 ELSE conv[d].stored
           /\ \A d \in Convs : overrun[d] \subseteq overrun'[d]
           /\ worker.pc \in {"llm", "apply", "reset", "complete"} /\ Current = c
              => conv[c].stored + 1 \in overrun'[c]
  <2>1. RunsKept'
    BY <1>1, <1>3, ConvsKnown DEF Kept, RunsKept
  <2>2. ASSUME faults = 0, NEW r \in DOMAIN runs, runs[r].status = "success",
               ~(r = worker.run /\ worker.pc \in {"apply", "fail"})
        PROVE  1 .. runs[r].completed \subseteq tagged[runs[r].conv] \cup overrun'[runs[r].conv]
    BY <1>3, <2>2, ConvsKnown DEF Kept, NothingLeftOut
  <2>3. ASSUME worker.pc \in {"llm", "apply", "reset", "complete"}
        PROVE  /\ Current \in Convs
               /\ 1 .. conv'[Current].stored \subseteq
                    (1 .. conv[Current].stored) \cup overrun'[Current]
    BY <1>3, <2>3, ConvsKnown DEF WorkerHolds
  <2>4. NothingLeftOut'
    BY <1>1, <1>3, <2>2, <2>3 DEF Kept, NothingLeftOut
  <2> QED
    BY <2>1, <2>4 DEF Kept
<1> QED
  BY <1>2, <1>3, StoredShape

\* Outside "apply" and "fail" an incremental run's window is all that is left.
LEMMA WindowCovers ==
    ASSUME TypeOK, Kept, faults = 0, worker.pc \notin {"apply", "fail"}, NEW c \in Convs
    PROVE  (1 .. conv[c].stored) \ Unread(c) \subseteq tagged[c] \cup overrun[c]
<1> SUFFICES ASSUME NEW m \in 1 .. conv[c].stored, m \notin Unread(c)
             PROVE  m \in tagged[c] \cup overrun[c]
  OBVIOUS
<1>1. PICK n \in Completions(c) : ~(m > n)
  BY DEF Unread
<1>2. PICK r \in DOMAIN runs : /\ runs[r].conv = c /\ runs[r].status = "success"
                              /\ runs[r].completed = n
  BY <1>1 DEF Completions
<1>3. m \in 1 .. n
  BY <1>1, <1>2, ConvsKnown
<1> QED
  BY <1>2, <1>3 DEF Kept, NothingLeftOut

\* The worker's steps up to the claim.
LEMMA ClaimingKeepsKept ==
    ASSUME TypeOK, Kept, WorkerHolds, DrainPicks \/ DrainInsertsRun \/ DrainClaims
    PROVE  Kept'
<1>1. UNCHANGED <<conv, tagged, overrun, faults>>
  BY DEF DrainPicks, DrainInsertsRun, DrainClaims, history
<1>2. CASE DrainPicks
  <2>1. worker.pc = "idle" /\ worker'.pc = "insert" /\ UNCHANGED runs
    BY <1>2 DEF DrainPicks, Idle
  <2> QED
    BY <1>1, <2>1 DEF Kept, RunsKept, NothingLeftOut
<1>3. CASE DrainInsertsRun
  <2>1. /\ worker.pc = "insert" /\ worker'.pc = "claim" /\ worker'.run = Len(runs) + 1
        /\ Current' = Current
    BY <1>3 DEF DrainInsertsRun, TypeOK, Worker, Current
  <2>2. worker.item \in DOMAIN queue
    BY <2>1 DEF WorkerHolds
  <2>3. /\ DOMAIN runs' = DOMAIN runs \cup {Len(runs) + 1}
        /\ Len(runs) + 1 \notin DOMAIN runs
        /\ \A r \in DOMAIN runs : runs'[r] = runs[r]
        /\ runs'[Len(runs) + 1] = [conv |-> Current, status |-> "processing", completed |-> 0]
    BY <1>3, <2>2, InsertRunShape
  <2>4. RunsKept'
    BY <1>1, <2>1, <2>2, <2>3, ConvsKnown DEF Kept, RunsKept
  <2>5. NothingLeftOut'
    BY <1>1, <2>1, <2>3 DEF Kept, NothingLeftOut
  <2> QED
    BY <2>4, <2>5 DEF Kept
<1>4. CASE DrainClaims
  <2>1. worker.pc = "claim" /\ worker.item \in DOMAIN queue /\ ~Claimed(worker.item)
    BY <1>4 DEF DrainClaims, WorkerHolds
  <2>2. queue'[worker.item].conv = queue[worker.item].conv
    BY <1>4, <2>1, ClaimShape DEF DrainClaims, Claimed
  <2>3. /\ worker'.pc = "read" /\ worker'.run = worker.run /\ worker'.item = worker.item
        /\ UNCHANGED runs
    BY <1>4, <2>1 DEF DrainClaims, Claimed, WorkerAt, TypeOK, Worker
  <2>4. Current' = Current
    BY <2>2, <2>3 DEF Current
  <2> QED
    BY <1>1, <2>1, <2>3, <2>4 DEF Kept, RunsKept, NothingLeftOut
<1> QED
  BY <1>2, <1>3, <1>4

\* A run reads, is answered, writes and completes, or fails.
LEMMA RunKeepsKept ==
    ASSUME TypeOK, Bound, Kept, Drain, worker.pc \in Running
    PROVE  Kept'
<1>1. /\ worker.item \in DOMAIN queue /\ worker.run \in DOMAIN runs
      /\ Current \in Convs /\ runs[worker.run].conv = Current
  BY ConvsKnown DEF Running, Bound, WorkerHolds, Kept, RunsKept
<1>2. /\ UNCHANGED <<queue, overrun, faults>>
      /\ worker'.item = worker.item /\ worker'.run = worker.run
      /\ Current' = Current
  BY DEF Running, Drain, DrainPicks, DrainInsertsRun, DrainClaims, RunReads, RunAnswered,
     RunUnanswered, ApplyWrites, ApplyFails, ApplyResets, ApplyCompletes, RunFails, DrainCloses,
     WorkerAt, TypeOK, Worker, Current, history
<1>3. CASE RunReads
  <2>1. UNCHANGED <<runs, conv, tagged>> /\ worker.pc = "read"
    BY <1>3 DEF RunReads, history
  <2>2. \/ worker'.pc = "fail"
        \/ worker'.pc = "llm" /\ worker'.seen \in {Unread(Current), 1 .. conv[Current].stored}
    BY <1>3 DEF RunReads, WorkerAt, TypeOK, Worker
  <2>3. faults = 0 => (1 .. conv[Current].stored) \ Unread(Current)
                         \subseteq tagged[Current] \cup overrun[Current]
    BY <1>1, <2>1, WindowCovers
  <2>4. RunsKept'
    BY <1>1, <1>2, <2>1 DEF Kept, RunsKept
  <2>5. ASSUME faults = 0, worker'.pc = "llm"
        PROVE  1 .. conv[Current].stored \subseteq
                 worker'.seen \cup tagged[Current] \cup overrun[Current]
    BY <2>2, <2>3, <2>5
  <2>6. NothingLeftOut'
    BY <1>2, <2>1, <2>2, <2>5 DEF Kept, NothingLeftOut
  <2> QED
    BY <2>4, <2>6 DEF Kept
<1>4. CASE RunUnanswered \/ ApplyFails
  <2>1. UNCHANGED <<runs, conv, tagged>> /\ worker.pc \in {"llm", "apply"} /\ worker'.pc = "fail"
    BY <1>4 DEF RunUnanswered, ApplyFails, WorkerAt, TypeOK, Worker, history
  <2> QED
    BY <1>1, <1>2, <2>1 DEF Kept, RunsKept, NothingLeftOut
<1>5. CASE RunAnswered
  <2>1. /\ UNCHANGED <<conv, tagged>> /\ worker.pc = "llm" /\ worker'.pc = "apply"
        /\ worker'.seen = worker.seen
    BY <1>5 DEF RunAnswered, WorkerAt, TypeOK, Worker, history
  <2>2. /\ DOMAIN runs' = DOMAIN runs
        /\ \A r \in DOMAIN runs : r # worker.run => runs'[r] = runs[r]
        /\ runs'[worker.run].conv = Current
        /\ runs'[worker.run].completed = conv[Current].stored
    BY <1>1, <1>5, SetRunShape DEF RunAnswered
  <2>3. RunsKept'
    BY <1>1, <1>2, <2>1, <2>2, ConvsKnown DEF Kept, RunsKept
  <2>4. NothingLeftOut'
    BY <1>2, <2>1, <2>2 DEF Kept, NothingLeftOut
  <2> QED
    BY <2>3, <2>4 DEF Kept
<1>6. CASE ApplyWrites
  <2>1. /\ UNCHANGED <<runs, conv>> /\ worker.pc = "apply" /\ worker'.pc = "reset"
        /\ \A c \in Convs : tagged'[c] = IF c = Current THEN tagged[c] \cup worker.seen ELSE tagged[c]
    BY <1>6 DEF ApplyWrites, WorkerAt, TypeOK, Worker
  <2>2. RunsKept'
    BY <1>1, <1>2, <2>1 DEF Kept, RunsKept
  <2>3. ASSUME faults = 0
        PROVE  1 .. conv[Current].stored \subseteq tagged'[Current] \cup overrun[Current]
    BY <1>1, <2>1, <2>3 DEF Kept, NothingLeftOut
  <2>4. ASSUME faults = 0, NEW r \in DOMAIN runs, runs[r].status = "success"
        PROVE  1 .. runs[r].completed \subseteq tagged'[runs[r].conv] \cup overrun[runs[r].conv]
    <3>1. CASE r = worker.run
      <4>1. runs[r].completed <= conv[Current].stored
        BY <1>1, <3>1 DEF Kept, RunsKept
      <4> QED
        BY <1>1, <2>3, <2>4, <3>1, <4>1, ConvsKnown
    <3>2. CASE r # worker.run
      BY <2>1, <2>4, <3>2, ConvsKnown DEF Kept, NothingLeftOut
    <3> QED
      BY <3>1, <3>2
  <2>5. NothingLeftOut'
    BY <1>2, <2>1, <2>3, <2>4 DEF NothingLeftOut
  <2> QED
    BY <2>2, <2>5 DEF Kept
<1>7. CASE ApplyResets
  <2>1. UNCHANGED <<runs, tagged>> /\ worker.pc = "reset" /\ worker'.pc = "complete"
    BY <1>7 DEF ApplyResets, WorkerAt, TypeOK, Worker, history
  <2>2. \A c \in Convs : conv'[c].stored = conv[c].stored
    BY <1>1, <1>7, ResetShape
  <2>3. RunsKept'
    BY <1>1, <1>2, <2>1, <2>2, ConvsKnown DEF Kept, RunsKept
  <2>4. NothingLeftOut'
    BY <1>1, <1>2, <2>1, <2>2 DEF Kept, NothingLeftOut
  <2> QED
    BY <2>3, <2>4 DEF Kept
<1>8. CASE ApplyCompletes
  <2>1. UNCHANGED <<conv, tagged>> /\ worker.pc = "complete" /\ worker'.pc = "close"
    BY <1>8 DEF ApplyCompletes, TypeOK, Worker, history
  <2>2. /\ DOMAIN runs' = DOMAIN runs
        /\ \A r \in DOMAIN runs : r # worker.run => runs'[r] = runs[r]
        /\ runs'[worker.run].conv = Current
        /\ runs'[worker.run].completed = conv[Current].stored
    BY <1>1, <1>8, SetRunShape DEF ApplyCompletes
  <2>3. RunsKept'
    BY <1>1, <1>2, <2>1, <2>2, ConvsKnown DEF Kept, RunsKept
  <2>4. NothingLeftOut'
    BY <1>1, <1>2, <2>1, <2>2 DEF Kept, NothingLeftOut
  <2> QED
    BY <2>3, <2>4 DEF Kept
<1>9. CASE RunFails
  <2>1. UNCHANGED <<conv, tagged>> /\ worker.pc = "fail" /\ worker'.pc = "close"
    BY <1>9 DEF RunFails, WorkerAt, TypeOK, Worker, history
  <2>2. /\ DOMAIN runs' = DOMAIN runs
        /\ \A r \in DOMAIN runs : r # worker.run => runs'[r] = runs[r]
        /\ runs'[worker.run].conv = Current /\ runs'[worker.run].status = "failed"
        /\ runs'[worker.run].completed = 0
    BY <1>1, <1>9, SetRunShape DEF RunFails
  <2>3. RunsKept'
    BY <1>1, <1>2, <2>1, <2>2, ConvsKnown DEF Kept, RunsKept
  <2>4. NothingLeftOut'
    BY <1>1, <1>2, <2>1, <2>2 DEF Kept, NothingLeftOut
  <2> QED
    BY <2>3, <2>4 DEF Kept
<1> QED
  BY <1>3, <1>4, <1>5, <1>6, <1>7, <1>8, <1>9
  DEF Drain, Running, DrainPicks, DrainInsertsRun, DrainClaims, DrainCloses

\* Letting go of the item changes nothing of it; a fault voids the claim.
LEMMA EndingKeepsKept ==
    ASSUME TypeOK, Kept, WorkerHolds, DrainCloses \/ RunRaises \/ TaskRaises \/ Restart
    PROVE  Kept'
<1>1. UNCHANGED <<runs, conv, tagged, overrun>>
  BY DEF DrainCloses, RunRaises, TaskRaises, Restart, history
<1>2. CASE DrainCloses
  <2>1. worker.pc = "close" /\ worker'.pc = "idle" /\ UNCHANGED faults
    BY <1>2 DEF DrainCloses, Idle
  <2> QED
    BY <1>1, <2>1 DEF Kept, RunsKept, NothingLeftOut
<1>3. CASE RunRaises \/ TaskRaises \/ Restart
  <2>1. faults' # 0 /\ UNCHANGED queue
    BY <1>3 DEF RunRaises, TaskRaises, Restart, TypeOK
  <2>2. \/ worker' = worker \/ worker' = Idle
        \/ worker.pc \in Running /\ worker' = [worker EXCEPT !.pc = "fail"]
    BY <1>3 DEF RunRaises, TaskRaises, Restart, WorkerAt, Running
  <2>3. RunsKept'
    <3>1. CASE worker' = Idle
      BY <1>1, <3>1 DEF Idle, Kept, RunsKept
    <3>2. CASE worker' # Idle
      <4>1. /\ worker'.item = worker.item /\ worker'.run = worker.run
            /\ worker.pc \in {"idle", "insert"} => worker'.pc = worker.pc
        BY <2>2, <3>2 DEF TypeOK, Worker, Running
      <4>2. Current' = Current
        BY <2>1, <4>1 DEF Current
      <4> QED
        BY <1>1, <4>1, <4>2 DEF Kept, RunsKept
    <3> QED
      BY <3>1, <3>2
  <2>4. NothingLeftOut'
    BY <2>1 DEF NothingLeftOut
  <2> QED
    BY <2>3, <2>4 DEF Kept
<1> QED
  BY <1>2, <1>3

----------------------------------------------------------------------------
(***************************************************************************)
(* What manual triggers draw from their cap.                               *)
(***************************************************************************)
\* Both sides of NoDoubleSpending are finite sets.
LEMMA SpendingFinite ==
    ASSUME TypeOK, NEW c \in Convs
    PROVE  IsFiniteSet(Uncounted(c)) /\ IsFiniteSet(ManualItems(c))
<1>1. IsFiniteSet(Uncounted(c))
  BY HandlersAssumption, FS_Subset DEF Uncounted
<1>2. Len(queue) \in Nat /\ ManualItems(c) \subseteq 1 .. Len(queue)
  BY LenProperties DEF TypeOK, ManualItems
<1>3. IsFiniteSet(1 .. Len(queue))
  BY <1>2, FS_Interval
<1> QED
  BY <1>1, <1>2, <1>3, FS_Subset

\* Nobody is counted, nobody is accepted, and some may drop out.
LEMMA LessSpending ==
    ASSUME TypeOK, TypeOK', NoDoubleSpending,
           \A c \in Convs : /\ conv'[c].manual <= conv[c].manual
                           /\ Uncounted(c)' \subseteq Uncounted(c)
                           /\ ManualItems(c) \subseteq ManualItems(c)'
    PROVE  NoDoubleSpending'
<1> SUFFICES ASSUME NEW c \in Convs
             PROVE  conv'[c].manual + Cardinality(Uncounted(c)') <= Cardinality(ManualItems(c)')
  BY DEF NoDoubleSpending
<1>1. /\ IsFiniteSet(Uncounted(c)) /\ IsFiniteSet(Uncounted(c)')
      /\ IsFiniteSet(ManualItems(c)) /\ IsFiniteSet(ManualItems(c)')
  <2>1. IsFiniteSet(Uncounted(c)) /\ IsFiniteSet(ManualItems(c))
    BY SpendingFinite
  <2>2. Len(queue') \in Nat /\ ManualItems(c)' \subseteq 1 .. Len(queue')
    BY LenProperties DEF TypeOK, ManualItems
  <2>3. IsFiniteSet(1 .. Len(queue'))
    BY <2>2, FS_Interval
  <2> QED
    BY <2>1, <2>2, <2>3, FS_Subset
<1>2. /\ Cardinality(Uncounted(c)') <= Cardinality(Uncounted(c))
      /\ Cardinality(ManualItems(c)) <= Cardinality(ManualItems(c)')
  BY <1>1, FS_Subset
<1>3. /\ Cardinality(Uncounted(c)) \in Nat /\ Cardinality(Uncounted(c)') \in Nat
      /\ Cardinality(ManualItems(c)) \in Nat /\ Cardinality(ManualItems(c)') \in Nat
  BY <1>1, FS_CardinalityType
<1>4. conv[c].manual \in Nat /\ conv'[c].manual \in Nat
  BY DEF TypeOK, Counters
<1>5. conv[c].manual + Cardinality(Uncounted(c)) <= Cardinality(ManualItems(c))
  BY DEF NoDoubleSpending
<1> QED
  BY <1>2, <1>3, <1>4, <1>5

\* An accepted trigger has added its item.
LEMMA AcceptedOnce ==
    ASSUME TypeOK, TypeOK', NoDoubleSpending, NEW h \in Handlers, TriggerEnqueues(h)
    PROVE  NoDoubleSpending'
<1> DEFINE d == trigger[h].conv
<1>1. d \in Convs /\ UNCHANGED conv /\ trigger[h].pc = "enqueue"
  BY DEF TypeOK, Trigger, TriggerEnqueues
<1>2. CASE UNCHANGED queue /\ Goto(h, "done")
  <2>1. \A c \in Convs : Uncounted(c)' \subseteq Uncounted(c)
    BY <1>2 DEF Uncounted, Goto, TypeOK, Trigger
  <2>2. \A c \in Convs : ManualItems(c)' = ManualItems(c) /\ conv'[c].manual <= conv[c].manual
    BY <1>1, <1>2 DEF ManualItems, TypeOK, Counters
  <2> QED
    BY <2>1, <2>2, LessSpending
<1>3. CASE Enqueue(d, "manual") /\ Goto(h, "count")
  <2> SUFFICES ASSUME NEW c \in Convs
               PROVE  conv'[c].manual + Cardinality(Uncounted(c)') <= Cardinality(ManualItems(c)')
    BY DEF NoDoubleSpending
  <2>1. Uncounted(c)' = IF c = d THEN Uncounted(c) \cup {h} ELSE Uncounted(c)
    BY <1>1, <1>3 DEF Uncounted, Goto, TypeOK, Trigger
  <2>2. h \notin Uncounted(c)
    BY <1>1 DEF Uncounted
  <2>3. /\ DOMAIN queue' = DOMAIN queue \cup {Len(queue) + 1}
        /\ Len(queue) + 1 \notin DOMAIN queue
        /\ \A i \in DOMAIN queue : queue'[i] = queue[i]
        /\ queue'[Len(queue) + 1].conv = d
        /\ queue'[Len(queue) + 1].trigger = "manual"
    BY <1>1, <1>3, EnqueueShape DEF Triggers
  <2>4. /\ ManualItems(c)' = IF c = d THEN ManualItems(c) \cup {Len(queue) + 1} ELSE ManualItems(c)
        /\ Len(queue) + 1 \notin ManualItems(c)
    BY <2>3 DEF ManualItems
  <2>5. IsFiniteSet(Uncounted(c)) /\ IsFiniteSet(ManualItems(c))
    BY SpendingFinite
  <2>6. /\ Cardinality(Uncounted(c)) \in Nat /\ Cardinality(ManualItems(c)) \in Nat
        /\ Cardinality(Uncounted(c) \cup {h}) = Cardinality(Uncounted(c)) + 1
        /\ Cardinality(ManualItems(c) \cup {Len(queue) + 1}) = Cardinality(ManualItems(c)) + 1
    BY <2>2, <2>4, <2>5, FS_CardinalityType, FS_AddElement
  <2>7. conv[c].manual \in Nat /\ conv'[c].manual = conv[c].manual
    BY <1>1 DEF TypeOK, Counters
  <2>8. conv[c].manual + Cardinality(Uncounted(c)) <= Cardinality(ManualItems(c))
    BY DEF NoDoubleSpending
  <2>9. CASE c = d
    BY <2>1, <2>4, <2>6, <2>7, <2>8, <2>9
  <2>10. CASE c # d
    BY <2>1, <2>4, <2>7, <2>8, <2>10
  <2> QED
    BY <2>9, <2>10
<1> QED
  BY <1>2, <1>3 DEF TriggerEnqueues

\* It is counted as it leaves.
LEMMA CountedOnce ==
    ASSUME TypeOK, TypeOK', NoDoubleSpending, NEW h \in Handlers, TriggerCounts(h)
    PROVE  NoDoubleSpending'
<1> DEFINE d == trigger[h].conv
<1> SUFFICES ASSUME NEW c \in Convs
             PROVE  conv'[c].manual + Cardinality(Uncounted(c)') <= Cardinality(ManualItems(c)')
  BY DEF NoDoubleSpending
<1>1. trigger[h].pc = "count" /\ UNCHANGED queue
  BY DEF TriggerCounts
<1>2. Uncounted(c)' = IF c = d THEN Uncounted(c) \ {h} ELSE Uncounted(c)
  BY DEF TriggerCounts, Uncounted, Goto, TypeOK, Trigger
<1>3. c = d => h \in Uncounted(c)
  BY <1>1 DEF Uncounted
<1>4. ManualItems(c)' = ManualItems(c)
  BY <1>1 DEF ManualItems
<1>5. conv'[c].manual = IF c = d THEN conv[c].manual + 1 ELSE conv[c].manual
  BY TriggerCountShape
<1>6. IsFiniteSet(Uncounted(c)) /\ IsFiniteSet(ManualItems(c))
  BY SpendingFinite
<1>7. Cardinality(Uncounted(c)) \in Nat /\ Cardinality(ManualItems(c)) \in Nat
  BY <1>6, FS_CardinalityType
<1>8. c = d => Cardinality(Uncounted(c) \ {h}) = Cardinality(Uncounted(c)) - 1
  BY <1>3, <1>6, FS_RemoveElement
<1>9. conv[c].manual \in Nat
  BY DEF TypeOK, Counters
<1>10. conv[c].manual + Cardinality(Uncounted(c)) <= Cardinality(ManualItems(c))
  BY DEF NoDoubleSpending
<1>11. CASE c = d
  BY <1>2, <1>4, <1>5, <1>7, <1>8, <1>9, <1>10, <1>11
<1>12. CASE c # d
  BY <1>2, <1>4, <1>5, <1>10, <1>12
<1> QED
  BY <1>11, <1>12

\* Items keep their conversation and what triggered them.
LEMMA ItemsKept ==
    ASSUME TypeOK, WorkerHolds, [Next]_vars, NEW i \in DOMAIN queue
    PROVE  /\ i \in DOMAIN queue'
           /\ queue'[i].conv = queue[i].conv /\ queue'[i].trigger = queue[i].trigger
<1>1. CASE UNCHANGED queue
  BY <1>1
<1>2. ASSUME NEW c \in Convs, NEW kind \in Triggers, Enqueue(c, kind)
      PROVE  i \in DOMAIN queue' /\ queue'[i] = queue[i]
  BY <1>2, EnqueueShape
<1>3. CASE DrainClaims
  <2>1. worker.item \in DOMAIN queue
    BY <1>3 DEF DrainClaims, WorkerHolds
  <2> QED
    BY <1>1, <1>3, <2>1, ClaimShape DEF DrainClaims
<1>4. CASE DrainCloses
  BY <1>4, SetItemShape DEF DrainCloses, WorkerHolds
<1>5. CASE ~UNCHANGED queue /\ ~DrainClaims /\ ~DrainCloses
  <2>1. \E c \in Convs, kind \in Triggers : Enqueue(c, kind)
    BY <1>5 DEF Next, vars, Drain, StoreMessage, ScanReads, ScanEnqueues, ScanCounts, SweepReads,
       SweepEnqueues, TriggerReadsCount, TriggerChecks, TriggerEnqueues, TriggerCounts,
       MidnightReset, DrainPicks, DrainInsertsRun, RunReads, RunAnswered, RunUnanswered,
       ApplyWrites, ApplyFails, ApplyResets, ApplyCompletes, RunFails, RunRaises, TaskRaises,
       Restart, BatchReads, BatchInserts, BatchFails, TypeOK, Trigger, Triggers
  <2> QED
    BY <1>2, <2>1
<1> QED
  BY <1>1, <1>3, <1>4, <1>5

\* Any other step: triggers under way only end, and midnight forgives.
LEMMA SpendingStep ==
    ASSUME TypeOK, TypeOK', WorkerHolds, NoDoubleSpending, [Next]_vars
    PROVE  NoDoubleSpending'
<1>1. ASSUME NEW h \in Handlers, TriggerEnqueues(h) PROVE NoDoubleSpending'
  BY <1>1, AcceptedOnce
<1>2. ASSUME NEW h \in Handlers, TriggerCounts(h) PROVE NoDoubleSpending'
  BY <1>2, CountedOnce
<1>3. ASSUME ~\E h \in Handlers : TriggerEnqueues(h) \/ TriggerCounts(h)
      PROVE  NoDoubleSpending'
  <2>1. \A c \in Convs : ManualItems(c) \subseteq ManualItems(c)'
    BY ItemsKept DEF ManualItems
  <2>2. \A h \in Handlers :
            /\ trigger'[h].conv = trigger[h].conv
            /\ trigger'[h].pc = "count" => trigger[h].pc = "count"
    <3>1. CASE UNCHANGED trigger
      BY <3>1
    <3>2. ASSUME NEW h \in Handlers, TriggerReadsCount(h) \/ TriggerChecks(h)
          PROVE  \A g \in Handlers :
                    /\ trigger'[g].conv = trigger[g].conv
                    /\ trigger'[g].pc = "count" => trigger[g].pc = "count"
      BY <3>2 DEF TriggerReadsCount, TriggerChecks, Goto, TypeOK, Trigger
    <3>3. CASE TaskRaises
      BY <3>3 DEF TaskRaises, Goto, TypeOK, Trigger
    <3>4. CASE Restart
      BY <3>4 DEF Restart, TypeOK, Trigger
    <3> QED
      BY <1>3, <3>1, <3>2, <3>3, <3>4 DEF Next, vars, Drain, StoreMessage, ScanReads,
         ScanEnqueues, ScanCounts, SweepReads, SweepEnqueues, BatchReads, BatchInserts,
         BatchFails, MidnightReset, DrainPicks,
         DrainInsertsRun, DrainClaims, RunReads, RunAnswered, RunUnanswered, ApplyWrites,
         ApplyFails, ApplyResets, ApplyCompletes, RunFails, DrainCloses, RunRaises
  <2>3. \A c \in Convs : Uncounted(c)' \subseteq Uncounted(c)
    BY <2>2 DEF Uncounted
  <2>4. \A c \in Convs : conv'[c].manual <= conv[c].manual
    <3>1. \A c \in Convs : conv[c].manual \in Nat
      BY DEF TypeOK, Counters
    <3>2. CASE \A c \in Convs : conv'[c].manual = conv[c].manual
      BY <3>1, <3>2
    <3>3. CASE MidnightReset
      <4>1. \A c \in Convs : conv'[c].manual = 0
        BY <3>3 DEF MidnightReset, TypeOK, Counters
      <4> QED
        BY <3>1, <4>1
    <3>4. CASE ~MidnightReset
      <4>1. \/ UNCHANGED conv
            \/ \E c \in Convs : StoreMessage(c) \/ ScanCounts(c)
            \/ ApplyResets
        BY <1>3, <3>4 DEF Next, vars, Drain, ScanReads, ScanEnqueues, SweepReads, SweepEnqueues,
           BatchReads, BatchInserts, BatchFails,
           TriggerReadsCount, TriggerChecks, DrainPicks, DrainInsertsRun, DrainClaims, RunReads,
           RunAnswered, RunUnanswered, ApplyWrites, ApplyFails, ApplyCompletes, RunFails,
           DrainCloses, RunRaises, TaskRaises, Restart
      <4>2. ApplyResets => worker.item \in DOMAIN queue
        BY DEF ApplyResets, WorkerHolds
      <4> QED
        BY <3>2, <4>1, <4>2, StoreShape, ScanCountShape, ResetShape
    <3> QED
      BY <3>3, <3>4
  <2> QED
    BY <2>1, <2>3, <2>4, LessSpending
<1> QED
  BY <1>1, <1>2, <1>3

----------------------------------------------------------------------------
\* QInv holds at first ...
LEMMA InitQInv == Init => QInv
<1> SUFFICES ASSUME Init PROVE QInv
  OBVIOUS
<1>1. TypeOK
  BY InitTyped
<1>2. DOMAIN queue = {}
  BY EmptySeq, LenProperties DEF Init
<1>3. RunsBound /\ OutcomesAgree
  BY <1>2 DEF RunsBound, OutcomesAgree
<1>4. WorkerHolds
  BY DEF Init, Idle, WorkerHolds
<1>5. ScanWithinCap /\ AutoCapKept
  BY ParametersAssumption DEF Init, ScanWithinCap, AutoCapKept
<1>6. DOMAIN runs = {}
  BY EmptySeq, LenProperties DEF Init
<1>7. RunsKept /\ NothingLeftOut
  BY <1>6 DEF Init, Idle, RunsKept, NothingLeftOut
<1>8. ProcessingIsHeld /\ BatchHolds
  BY <1>2, <1>6 DEF Init, ProcessingIsHeld, BatchHolds
<1>9. NoDoubleSpending
  <2> SUFFICES ASSUME NEW c \in Convs
               PROVE  conv[c].manual + Cardinality(Uncounted(c)) <= Cardinality(ManualItems(c))
    BY DEF NoDoubleSpending
  <2>1. conv[c].manual = 0 /\ Uncounted(c) = {} /\ ManualItems(c) = {}
    BY <1>2 DEF Init, Uncounted, ManualItems
  <2> QED
    BY <2>1, FS_EmptySet
<1> QED
  BY <1>1, <1>3, <1>4, <1>5, <1>7, <1>8, <1>9 DEF QInv

\* ... and every step keeps it.
LEMMA NextQInv == QInv /\ [Next]_vars => QInv'
<1> SUFFICES ASSUME QInv, [Next]_vars PROVE QInv'
  OBVIOUS
<1> DEFINE Enqueues == \/ \E c \in Convs : ScanEnqueues(c) \/ SweepEnqueues(c)
                       \/ \E h \in Handlers : TriggerEnqueues(h)
           Alone == \/ \E c \in Convs : StoreMessage(c) \/ ScanCounts(c)
                    \/ \E h \in Handlers : \/ TriggerReadsCount(h) \/ TriggerChecks(h)
                                           \/ TriggerCounts(h)
                    \/ ScanReads \/ SweepReads \/ MidnightReset \/ UNCHANGED vars
           Nightly == \/ \E c \in Convs : BatchInserts(c)
                      \/ \E r \in batch.runs : BatchFails(r)
           Faults == RunRaises \/ TaskRaises \/ Restart
<1>1. TypeOK /\ Bound /\ Kept /\ WorkerHolds
  BY DEF QInv, Bound, Kept
<1>2. Enqueues \/ Alone \/ BatchReads \/ Nightly \/ Faults \/ Drain
  BY DEF Next
<1>3. /\ ScanWithinCap' /\ AutoCapKept'
      /\ TypeOK' => NoDoubleSpending'
  BY CapStep, SpendingStep DEF QInv
<1>4. CASE Enqueues
  <2>1. TypeOK'
    BY <1>1, <1>4, TriggersTyped
  <2>2. UNCHANGED <<runs, conv, worker, batch, tagged, overrun, faults>>
    BY <1>4 DEF ScanEnqueues, SweepEnqueues, TriggerEnqueues, history
  <2>3. \/ UNCHANGED queue
        \/ \E c \in Convs, kind \in Triggers : Enqueue(c, kind)
    BY <1>1, <1>4 DEF ScanEnqueues, SweepEnqueues, TriggerEnqueues, TypeOK, Trigger, Triggers
  <2>4. Bound'
    BY <1>1, <2>2, <2>3, AloneKeepsBound, EnqueueKeepsBound
  <2>5. worker.item \in DOMAIN queue => Current' = Current
    BY <1>1, <2>2, <2>3, EnqueueShape DEF Current
  <2>6. Kept'
    BY <1>1, <2>2, <2>5, AloneKeepsKept
  <2> QED
    BY <1>3, <2>1, <2>4, <2>6 DEF QInv, Bound, Kept
<1>5. CASE Alone
  <2>1. TypeOK'
    <3>1. CASE UNCHANGED vars
      BY <1>1, <3>1 DEF vars, history, TypeOK
    <3> QED
      BY <1>1, <1>5, <3>1, TriggersTyped
  <2>2. UNCHANGED <<queue, runs, worker, batch, faults>>
    BY <1>5 DEF StoreMessage, ScanCounts, TriggerReadsCount, TriggerChecks, TriggerCounts,
       ScanReads, SweepReads, MidnightReset, vars
  <2>3. Bound'
    BY <1>1, <2>2, AloneKeepsBound
  <2>4. Kept'
    <3>1. CASE \E c \in Convs : StoreMessage(c)
      BY <1>1, <3>1, StoringKeepsKept
    <3>2. CASE ~\E c \in Convs : StoreMessage(c)
      <4>1. UNCHANGED <<tagged, overrun>>
        BY <1>5, <3>2 DEF ScanCounts, TriggerReadsCount, TriggerChecks, TriggerCounts,
           ScanReads, SweepReads, MidnightReset, vars, history
      <4>2. CASE MidnightReset
        <5>1. \A c \in Convs : conv'[c].stored = conv[c].stored
          BY <1>1, <4>2 DEF MidnightReset, TypeOK, Counters
        <5> QED
          BY <1>1, <2>2, <4>1, <5>1, AloneKeepsKept DEF Current
      <4>3. CASE ~MidnightReset
        <5>1. \/ UNCHANGED conv
              \/ \E c \in Convs : ScanCounts(c)
              \/ \E h \in Handlers : TriggerCounts(h)
          BY <1>5, <3>2, <4>3 DEF TriggerReadsCount, TriggerChecks, ScanReads, SweepReads, vars
        <5>2. \A c \in Convs : conv'[c].stored = conv[c].stored
          BY <1>1, <5>1, ScanCountShape, TriggerCountShape
        <5> QED
          BY <1>1, <2>2, <4>1, <5>2, AloneKeepsKept DEF Current
      <4> QED
        BY <4>2, <4>3
    <3> QED
      BY <3>1, <3>2
  <2> QED
    BY <1>3, <2>1, <2>3, <2>4 DEF QInv, Bound, Kept
<1>6. CASE BatchReads
  <2>1. /\ UNCHANGED <<queue, runs, conv, worker, tagged, overrun, faults>>
        /\ batch'.runs = batch.runs
    BY <1>1, <1>6 DEF BatchReads, history, TypeOK, Batch
  <2>2. TypeOK' /\ Bound'
    BY <1>1, <1>6, <2>1, BatchTyped, AloneKeepsBound DEF Bound
  <2>3. Kept'
    BY <1>1, <2>1, AloneKeepsKept DEF Current
  <2> QED
    BY <1>3, <2>2, <2>3 DEF QInv, Bound, Kept
<1>7. CASE Nightly
  <2>1. TypeOK' /\ Bound' /\ Kept'
    BY <1>1, <1>7, BatchTyped, BatchKeepsBound, BatchKeepsKept DEF Bound
  <2> QED
    BY <1>3, <2>1 DEF QInv, Bound, Kept
<1>8. CASE Faults
  <2>1. TypeOK' /\ Bound' /\ Kept'
    BY <1>1, <1>8, FaultsTyped, FaultsKeepBound, EndingKeepsKept
  <2> QED
    BY <1>3, <2>1 DEF QInv, Bound, Kept
<1>9. CASE Drain
  <2>1. TypeOK' /\ Bound'
    BY <1>1, <1>9, DrainTyped, DrainKeepsBound DEF Bound
  <2>2. Kept'
    <3>1. \/ DrainPicks \/ DrainInsertsRun \/ DrainClaims \/ DrainCloses
          \/ worker.pc \in Running
      BY <1>9 DEF Drain, RunReads, RunAnswered, RunUnanswered, ApplyWrites, ApplyFails,
         ApplyResets, ApplyCompletes, RunFails, Running
    <3> QED
      BY <1>1, <1>9, <3>1, ClaimingKeepsKept, RunKeepsKept, EndingKeepsKept
  <2> QED
    BY <1>3, <2>1, <2>2 DEF QInv, Bound, Kept
<1> QED
  BY <1>2, <1>4, <1>5, <1>6, <1>7, <1>8, <1>9

\* The inductive invariant of the queue.
THEOREM QueueInvariance == Spec => []QInv
BY InitQInv, NextQInv, PTL DEF Spec

\* The tables, counters and tasks of the TagAssigner stay well typed.
THEOREM QueueTypeCorrect == Spec => []TypeOK
<1>1. QInv => TypeOK
  BY DEF QInv
<1> QED
  BY <1>1, QueueInvariance, PTL

\* The idle scan never exceeds the daily cap (_run_idle_scan).
THEOREM AutoCapNeverExceeded == Spec => []AutoCapKept
<1>1. QInv => AutoCapKept
  BY DEF QInv
<1> QED
  BY <1>1, QueueInvariance, PTL

\* No trigger is ever counted twice (_process_manual_tag_trigger).
THEOREM ManualDrawnOnce == Spec => []NoDoubleSpending
<1>1. QInv => NoDoubleSpending
  BY DEF QInv
<1> QED
  BY <1>1, QueueInvariance, PTL

\* An item is done only if its run succeeded and failed only if it failed,
\* whatever raises or dies in between (_drain_one).
THEOREM ItemAndRunAgree == Spec => []OutcomesAgree
<1>1. QInv => OutcomesAgree
  BY DEF QInv
<1> QED
  BY <1>1, QueueInvariance, PTL

\* Without faults no item and no run is left in "processing" (_drain_one,
\* submit_nightly_batch).
THEOREM NoOrphanWithoutFault == Spec => []ProcessingIsHeld
<1>1. QInv => ProcessingIsHeld
  BY DEF QInv
<1> QED
  BY <1>1, QueueInvariance, PTL

\* A message an incremental run will not read was labelled by a run that
\* succeeded, or stored between a run's read and its completion
\* (run_tagging, _get_last_successful_run).
THEOREM NothingSkippedSilently == Spec => []SkippedIsTagged
<1>1. QInv => SkippedIsTagged
  <2> SUFFICES ASSUME QInv, worker.pc = "idle", faults = 0
               PROVE  \A c \in Convs :
                        (1 .. conv[c].stored) \ Unread(c) \subseteq tagged[c] \cup overrun[c]
    BY DEF SkippedIsTagged
  <2> QED
    BY WindowCovers DEF QInv, Kept
<1> QED
  BY <1>1, QueueInvariance, PTL
=============================================================================
