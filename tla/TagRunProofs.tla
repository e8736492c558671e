----------------------------- MODULE TagRunProofs -----------------------------
(***************************************************************************)
(* Proofs about TagRun, for any label lists, tables, speech, answers and   *)
(* edits: what a late write of labels changes, when an agent's entry is    *)
(* overwritten, where a gender comes from, and that the replica follows.   *)
(***************************************************************************)
EXTENDS TagRun, FiniteSetTheorems, SequenceTheorems, TLAPS

----------------------------------------------------------------------------
(***************************************************************************)
(* The label rules (LabelResolver) as far as the proofs need them.         *)
(***************************************************************************)
\* The mutually exclusive groups only take labels away from the proposal.
LEMMA EnforcementsShrink ==
    ASSUME NEW before, NEW proposed, NEW enforced \in Enforcements(before, proposed)
    PROVE  enforced \subseteq proposed
BY DEF Enforcements

\* resolve_labels leaves the CRM's labels alone, and those that stay for good
\* where they are.
LEMMA ResolvedKeeps ==
    ASSUME NEW before, NEW proposed, NEW resolved \in Resolutions(before, proposed)
    PROVE  /\ \A l \in NeverTouch : l \in resolved <=> l \in before
           /\ before \ Usable \subseteq resolved
<1>1. PICK enforced : resolved = Merge(before, enforced)
  BY DEF Resolutions
<1> QED
  BY <1>1, ListsAssumption DEF Merge

\* apply_info_check moves one label only.
LEMMA InfoCheckMoves ==
    ASSUME NEW labs, NEW flag, NEW suppressed, NEW expired, NEW blocked, NEW l,
           l # "info-check"
    PROVE  l \in InfoCheck(labs, flag, suppressed, expired, blocked).labels <=> l \in labs
BY DEF InfoCheck

\* The computed labels are neither the CRM's nor among those that stay.
LEMMA ComputeKeeps ==
    ASSUME NEW resolved, NEW n, NEW copy
    PROVE  /\ \A l \in NeverTouch : l \in Compute(resolved, n, copy) <=> l \in resolved
           /\ resolved \ Droppable \subseteq Compute(resolved, n, copy)
BY ListsAssumption DEF Compute, DealAwaiting, Droppable, RouterOwned

----------------------------------------------------------------------------
(***************************************************************************)
(* The fields of the records, which is all the proofs need of their types. *)
(***************************************************************************)
RunFields == {"pc", "before", "history", "loaded", "answer", "copy", "patches", "blocked",
              "blind", "after", "writes"}

SeenFields == {"byAgent", "known", "changed", "dismissed", "skipped", "crossed", "moved"}

RowFields == {"labels", "university", "gender", "room", "setBy", "flag", "suppressed"}

Shaped ==
    /\ DOMAIN run = RunFields
    /\ DOMAIN seen = SeenFields
    /\ DOMAIN row = RowFields
    /\ DOMAIN row.setBy = Fields

\* The shapes hold initially.
LEMMA InitShaped == Init => Shaped
BY InputsAssumption
DEF Init, Shaped, IdleRun, RunFields, SeenFields, RowFields, AtRest, Row

\* They are kept.
LEMMA NextShaped == Shaped /\ [Next]_vars => Shaped'
<1> SUFFICES ASSUME Shaped, [Next]_vars PROVE Shaped'
  OBVIOUS
<1>1. DOMAIN run' = RunFields
  BY DEF Shaped, Next, Run_, Others, vars, RunStarts, RunLoads, RunCopies, RunUpdates,
         RunRereads, RunFetches, RunFlags, RunWrites, RunPushes, RunEnds, AfterWrite, Rest,
         NextAttempt, IdleRun, RunFields, Speaks, AgentLabel, AgentEnters, SyncSkips,
         SyncReceives, SyncDismisses, SyncStores, SyncGender, BotStores,
         FillerReads, FillerPushes, FillerMarks, AppendReads, AppendWrites
<1>2. DOMAIN seen' = SeenFields
  <2>1. CASE RunFlags \/ RunWrites \/ RunPushes \/ RunEnds
    <3>1. CASE RunFlags
      BY <3>1 DEF Shaped, RunFlags, Forget
    <3>2. CASE RunWrites
      BY <3>2 DEF Shaped, RunWrites, Forget
    <3>3. CASE RunPushes
      BY <3>3 DEF Shaped, RunPushes, Forget
    <3>4. CASE RunEnds
      BY <3>4 DEF Shaped, RunEnds, Forget
    <3> QED
      BY <2>1, <3>1, <3>2, <3>3, <3>4
  <2>2. CASE Run_ /\ ~(RunFlags \/ RunWrites \/ RunPushes \/ RunEnds)
    BY <2>2 DEF Shaped, Run_, RunStarts, RunLoads, RunCopies, RunUpdates, RunRereads, RunFetches
  <2>3. CASE Others \/ UNCHANGED vars
    BY <2>3
    DEF Shaped, Others, vars, Speaks, AgentLabel, AgentEnters, SyncSkips, SyncReceives,
        SyncDismisses, SyncStores, SyncGender, BotStores, FillerReads,
        FillerPushes, FillerMarks, AppendReads, AppendWrites
  <2> QED
    BY <2>1, <2>2, <2>3 DEF Next
<1>3. DOMAIN row' = RowFields /\ DOMAIN row'.setBy = Fields
  <2>1. CASE RunUpdates
    BY <2>1 DEF Shaped, RunUpdates, Updated, RowFields
  <2>2. CASE RunFlags
    BY <2>2 DEF Shaped, RunFlags, RowFields
  <2>3. CASE Run_ /\ ~RunUpdates /\ ~RunFlags
    BY <2>3 DEF Shaped, Run_, RunStarts, RunLoads, RunCopies, RunRereads, RunFetches,
                RunWrites, RunPushes, RunEnds
  <2>4. CASE \E h \in Handlers : SyncStores(h)
    BY <2>4 DEF Shaped, SyncStores, RowFields
  <2>5. CASE \E h \in Handlers : SyncGender(h)
    BY <2>5 DEF Shaped, SyncGender, RowFields
  <2>6. CASE (\E h \in Handlers : SyncDismisses(h)) \/ BotStores \/ FillerMarks
    BY <2>6 DEF Shaped, SyncDismisses, BotStores, FillerMarks, RowFields
  <2>7. CASE \/ UNCHANGED vars \/ Speaks \/ AgentLabel \/ AgentEnters \/ SyncSkips
             \/ (\E h \in Handlers : SyncReceives(h))
             \/ FillerReads \/ FillerPushes \/ AppendReads \/ AppendWrites
    BY <2>7 DEF Shaped, vars, Speaks, AgentLabel, AgentEnters, SyncSkips, SyncReceives,
                FillerReads, FillerPushes, AppendReads, AppendWrites
  <2> QED
    BY <2>1, <2>2, <2>3, <2>4, <2>5, <2>6, <2>7 DEF Next, Others
<1> QED
  BY <1>1, <1>2, <1>3 DEF Shaped

----------------------------------------------------------------------------
(***************************************************************************)
(* An agent's entry: what the run is about to push is, field by field, not *)
(* what the rows it read said a human had set.                             *)
(***************************************************************************)
HumanSet(r) == {f \in Fields : r.setBy[f] = "human"}

PatchesSpare == \A f \in Fields : run.patches[f] # Unset => f \notin seen.known

Spares ==
    /\ seen.known \subseteq Fields
    /\ run.pc = "update" => seen.known \subseteq HumanSet(run.copy)
    /\ run.pc = "reread" => PatchesSpare
    /\ run.pc = "fetch" => PatchesSpare /\ seen.known \subseteq HumanSet(run.copy)
    /\ run.pc \in {"flag", "write", "push"} => run.blind \/ PatchesSpare

\* merge_attributes accepts nothing for what a human set.
LEMMA MergeSpares ==
    ASSUME NEW current, NEW setBy, NEW proposed, NEW resolved, NEW heard, NEW f \in Fields,
           setBy[f] = "human"
    PROVE  f \notin Accepted(Verdicts(current, setBy, proposed, resolved, heard))
<1>1. CASE f = "university"
  BY <1>1
  DEF Accepted, Verdicts, MergeUniversity, Nothing, Block, CampusAmbiguous, Fields, Unset
<1>2. CASE f = "gender"
  BY <1>2 DEF Accepted, Verdicts, MergeGender, Nothing, Block, Fields, Unset
<1>3. CASE f = "room"
  BY <1>3 DEF Accepted, Verdicts, MergeRoom, Nothing, Block, Fields, Unset
<1> QED
  BY <1>1, <1>2, <1>3 DEF Fields

\* The others leave the run, and what is known of it, alone.
LEMMA OthersLeaveRun ==
    ASSUME Shaped, Others
    PROVE  run' = run /\ seen'.known = seen.known
BY DEF Shaped, SeenFields, Others, Speaks, AgentLabel, AgentEnters, SyncSkips, SyncReceives,
       SyncDismisses, SyncStores, SyncGender, BotStores, FillerReads,
       FillerPushes, FillerMarks, AppendReads, AppendWrites

\* Spares holds initially.
LEMMA InitSpares == Init => Spares
BY DEF Init, IdleRun, Spares

\* Spares is kept.
LEMMA NextSpares ==
    ASSUME Shaped, Spares, [Next]_vars
    PROVE  Spares'
<1> USE DEF Shaped
<1>0. seen'.known \subseteq Fields
  <2>1. CASE RunCopies \/ RunRereads \/ RunFetches
    <3>1. CASE RunCopies
      BY <3>1 DEF RunCopies, SeenFields
    <3>2. CASE RunRereads
      BY <3>2 DEF RunRereads, SeenFields, Spares
    <3>3. CASE RunFetches
      BY <3>3 DEF RunFetches, SeenFields, Spares
    <3> QED
      BY <2>1, <3>1, <3>2, <3>3
  <2>2. CASE RunFlags
    BY <2>2 DEF RunFlags, Forget, SeenFields, Spares
  <2>3. CASE RunWrites
    BY <2>3 DEF RunWrites, Forget, SeenFields, Spares
  <2>4. CASE RunPushes \/ RunEnds
    BY <2>4 DEF RunPushes, RunEnds, Forget, SeenFields, Spares
  <2>5. CASE RunStarts \/ RunLoads \/ RunUpdates \/ UNCHANGED vars
    BY <2>5 DEF RunStarts, RunLoads, RunUpdates, vars, Spares
  <2>6. CASE Others
    BY <2>6, OthersLeaveRun DEF Spares
  <2> QED
    BY <2>1, <2>2, <2>3, <2>4, <2>5, <2>6 DEF Next, Run_
<1>1. CASE RunStarts \/ RunLoads \/ RunEnds
  <2>1. run'.pc \in {"idle", "load", "ask"}
    <3>1. CASE RunStarts
      BY <3>1 DEF RunStarts, IdleRun
    <3>2. CASE RunLoads
      BY <3>2 DEF RunLoads, RunFields
    <3>3. CASE RunEnds
      BY <3>3 DEF RunEnds, IdleRun
    <3> QED
      BY <1>1, <3>1, <3>2, <3>3
  <2> QED
    BY <1>0, <2>1 DEF Spares
<1>2. CASE RunCopies
  BY <1>0, <1>2 DEF RunCopies, Spares, RunFields, SeenFields, HumanSet
<1>3. CASE RunUpdates
  <2>1. PICK verdicts :
           /\ \A f \in Fields : run.copy.setBy[f] = "human" => f \notin Accepted(verdicts)
           /\ run'.pc \in {"fetch", "reread"} /\ run'.copy = run.copy
           /\ \A f \in Fields : run'.patches[f] # Unset => f \in Accepted(verdicts)
    BY <1>3, MergeSpares DEF RunUpdates, RunFields
  <2> QED
    BY <1>0, <1>3, <2>1 DEF RunUpdates, Spares, PatchesSpare, HumanSet
<1>4. CASE RunRereads
  <2>1. run'.pc = "fetch" /\ run'.copy = row /\ run'.patches = run.patches
    BY <1>4 DEF RunRereads, RunFields
  <2>2. seen'.known = {f \in seen.known : row.setBy[f] = "human"}
    BY <1>4 DEF RunRereads, SeenFields
  <2>3. seen.known \subseteq Fields /\ PatchesSpare
    BY <1>4 DEF RunRereads, Spares
  <2> QED
    BY <1>0, <2>1, <2>2, <2>3 DEF Spares, PatchesSpare, HumanSet
<1>5. CASE RunFetches
  <2>1. PICK blind \in BOOLEAN :
           /\ run'.pc = "flag" /\ run'.blind = blind
           /\ \A f \in Fields :
                 run'.patches[f] # Unset
                 => \/ run.patches[f] # Unset
                    \/ f \in Stale(Display(run.copy), run.copy.setBy,
                                  IF blind THEN Empty ELSE shown)
    BY <1>5 DEF RunFetches, RunFields
  <2>2. seen'.known = {f \in seen.known : Read(shown, f) # Unset}
    BY <1>5 DEF RunFetches, SeenFields
  <2>3. PatchesSpare /\ seen.known \subseteq HumanSet(run.copy)
    BY <1>5 DEF RunFetches, Spares
  <2>4. ASSUME ~blind, NEW f \in Fields, run'.patches[f] # Unset
        PROVE  f \notin seen'.known
    <3>1. run.patches[f] # Unset \/ f \in Stale(Display(run.copy), run.copy.setBy, shown)
      BY <2>1, <2>4
    <3>2. f \in Stale(Display(run.copy), run.copy.setBy, shown)
          => run.copy.setBy[f] # "human" \/ Read(shown, f) = Unset
      BY DEF Stale
    <3> QED
      BY <2>2, <2>3, <3>1, <3>2 DEF PatchesSpare, HumanSet
  <2> QED
    BY <1>0, <2>1, <2>4 DEF Spares, PatchesSpare
<1>6. CASE RunFlags
  <2>1. \/ run'.pc = "idle"
        \/ /\ run'.pc \in {"write", "push"}
           /\ run'.patches = run.patches /\ run'.blind = run.blind
    BY <1>6 DEF RunFlags, AfterWrite, Rest, IdleRun, RunFields
  <2>2. run'.pc # "idle" => seen'.known = seen.known
    BY <1>6 DEF RunFlags, Forget, SeenFields
  <2>3. run.blind \/ PatchesSpare
    BY <1>6 DEF RunFlags, Spares
  <2> QED
    BY <1>0, <2>1, <2>2, <2>3 DEF Spares, PatchesSpare
<1>7. CASE RunWrites
  <2>1. \/ run'.pc = "idle"
        \/ /\ run'.pc \in {"write", "push"}
           /\ run'.patches = run.patches /\ run'.blind = run.blind
    <3>1. CASE run' = AfterWrite
      BY <3>1 DEF AfterWrite, Rest, IdleRun
    <3>2. CASE run' = [run EXCEPT !.writes = @ + 1]
      BY <1>7, <3>2 DEF RunWrites, RunFields
    <3>3. CASE run' = IdleRun
      BY <3>3 DEF IdleRun
    <3> QED
      BY <1>7, <3>1, <3>2, <3>3 DEF RunWrites, NextAttempt
  <2>2. run'.pc # "idle" => seen'.known = seen.known
    BY <1>7 DEF RunWrites, Forget, SeenFields
  <2>3. run.blind \/ PatchesSpare
    BY <1>7 DEF RunWrites, Spares
  <2> QED
    BY <1>0, <2>1, <2>2, <2>3 DEF Spares, PatchesSpare
<1>8. CASE RunPushes
  BY <1>0, <1>8 DEF RunPushes, IdleRun, Spares
<1>9. CASE Others
  BY <1>9, OthersLeaveRun DEF Spares, PatchesSpare
<1>10. CASE UNCHANGED vars
  BY <1>10 DEF vars, Spares, PatchesSpare
<1> QED
  BY <1>1, <1>2, <1>3, <1>4, <1>5, <1>6, <1>7, <1>8, <1>9, <1>10 DEF Next, Run_

\* What a push changes in Chatwoot it has a patch for.
LEMMA PushSpares ==
    ASSUME Shaped, Spares, [Next]_vars, run.pc = "push", run' # run
    PROVE  \A f \in seen.byAgent :
              Read(shown', f) # Read(shown, f) => run.blind \/ f \notin seen.known
<1>1. CASE RunPushes
  BY <1>1 DEF RunPushes, Put, Patched, Read, Spares, PatchesSpare
<1>2. CASE RunEnds
  BY <1>2 DEF RunEnds
<1> QED
  BY <1>1, <1>2, OthersLeaveRun
  DEF Next, Run_, vars, RunStarts, RunLoads, RunCopies, RunUpdates, RunRereads, RunFetches,
      RunFlags, RunWrites

\* The shapes hold in every reachable state.
LEMMA AlwaysShaped == Spec => []Shaped
BY InitShaped, NextShaped, PTL DEF Spec

\* The run writes over an agent's entry only if the rows it read did not say
\* so, Chatwoot had no value when it looked, or Chatwoot could not be read.
THEOREM EntriesKept == Spec => AgentEntryKept
<1>1. Spec => []Spares
  BY InitSpares, NextSpares, AlwaysShaped, PTL DEF Spec
<1>2. Shaped /\ Spares /\ [Next]_vars
      => [run.pc = "push" /\ run' # run =>
             \A f \in seen.byAgent :
                Read(shown', f) # Read(shown, f) => run.blind \/ f \notin seen.known]_vars
  BY PushSpares
<1> QED
  BY <1>1, <1>2, AlwaysShaped, PTL DEF Spec, AgentEntryKept

----------------------------------------------------------------------------
(***************************************************************************)
(* A late write of labels: what the run has read, or is about to write,    *)
(* differs from what Chatwoot has only by what others changed meanwhile.   *)
(***************************************************************************)
OnlyTheirs(old) ==
    /\ Differ(labels, old) \cap NeverTouch \subseteq seen.changed
    /\ (labels \ old) \ Droppable \subseteq seen.changed

BeforeWrite == {"load", "ask", "update", "reread", "fetch", "flag"}

Late ==
    /\ run.pc \in BeforeWrite => OnlyTheirs(run.before)
    /\ run.pc = "write" => OnlyTheirs(run.after)

\* Late holds initially.
LEMMA InitLate == Init => Late
BY DEF Init, IdleRun, Late, BeforeWrite

\* The steps before the label set is computed keep what the run has read.
LEMMA EarlyLate ==
    ASSUME Shaped, Late, RunLoads \/ RunCopies \/ RunUpdates \/ RunRereads \/ RunFetches
    PROVE  Late'
<1>1. labels' = labels /\ seen'.changed = seen.changed
  BY DEF Shaped, RunLoads, RunCopies, RunUpdates, RunRereads, RunFetches, SeenFields
<1>2. run'.before = run.before /\ run'.pc \in BeforeWrite /\ run.pc \in BeforeWrite
  <2>1. CASE RunLoads
    BY <2>1 DEF Shaped, RunLoads, RunFields, BeforeWrite
  <2>2. CASE RunCopies
    BY <2>2 DEF Shaped, RunCopies, RunFields, BeforeWrite
  <2>3. CASE RunUpdates
    BY <2>3 DEF Shaped, RunUpdates, RunFields, BeforeWrite
  <2>4. CASE RunRereads
    BY <2>4 DEF Shaped, RunRereads, RunFields, BeforeWrite
  <2>5. CASE RunFetches
    BY <2>5 DEF Shaped, RunFetches, RunFields, BeforeWrite
  <2> QED
    BY <2>1, <2>2, <2>3, <2>4, <2>5
<1> QED
  BY <1>1, <1>2 DEF Late, OnlyTheirs, BeforeWrite, Differ

\* The label set computed differs from the labels read only where it may.
LEMMA FlagsLate ==
    ASSUME Shaped, Late, RunFlags
    PROVE  Late'
<1>1. labels' = labels /\ OnlyTheirs(run.before)
  BY DEF RunFlags, Late, BeforeWrite
<1> DEFINE Final(resolved, expired) ==
               Compute(InfoCheck(resolved, run.copy.flag, run.copy.suppressed, expired,
                                 run.blocked).labels, run.history, run.copy)
<1>0. PICK resolved \in Resolutions(run.before, Strip(run.answer.labels)),
           expired \in BOOLEAN :
         run' = IF Final(resolved, expired) = run.before THEN AfterWrite
                ELSE Rest("write", Final(resolved, expired))
  BY DEF RunFlags
<1> DEFINE after == Final(resolved, expired)
<1>2. /\ after = Compute(InfoCheck(resolved, run.copy.flag, run.copy.suppressed, expired,
                                   run.blocked).labels, run.history, run.copy)
      /\ run' = IF after = run.before THEN AfterWrite ELSE Rest("write", after)
  BY <1>0
<1> HIDE DEF after
<1>3. /\ \A l \in NeverTouch : l \in after <=> l \in run.before
      /\ run.before \ Droppable \subseteq after
  <2>1. after = Compute(InfoCheck(resolved, run.copy.flag, run.copy.suppressed, expired,
                                  run.blocked).labels, run.history, run.copy)
    BY <1>2
  <2>2. resolved \in Resolutions(run.before, Strip(run.answer.labels))
    OBVIOUS
  <2> HIDE <1>2
  <2>3. /\ \A l \in NeverTouch : l \in resolved <=> l \in run.before
        /\ run.before \ Droppable \subseteq resolved
    BY <2>2, ResolvedKeeps DEF Droppable
  <2> DEFINE checked == InfoCheck(resolved, run.copy.flag, run.copy.suppressed, expired,
                                  run.blocked).labels
  <2>4. /\ \A l \in NeverTouch : l \in checked <=> l \in resolved
        /\ resolved \ Droppable \subseteq checked
    <3>1. "info-check" \in Droppable \ NeverTouch
      BY ListsAssumption DEF Droppable
    <3> QED
      BY <3>1, InfoCheckMoves
  <2>5. after = Compute(checked, run.history, run.copy)
    BY <2>1
  <2> HIDE DEF checked
  <2>6. /\ \A l \in NeverTouch : l \in after <=> l \in checked
        /\ checked \ Droppable \subseteq after
    BY <2>5, ComputeKeeps
  <2> QED
    BY <2>3, <2>4, <2>6
<1>4. OnlyTheirs(after)
  BY <1>1, <1>3 DEF OnlyTheirs, Differ
<1>5. run'.pc # "idle" => seen'.changed = seen.changed
  BY DEF Shaped, RunFlags, Forget, SeenFields
<1>6. run'.pc \in {"idle", "push"} \/ (run'.pc = "write" /\ run'.after = after)
  BY <1>2 DEF AfterWrite, Rest, IdleRun
<1> QED
  BY <1>1, <1>4, <1>5, <1>6 DEF Late, OnlyTheirs, BeforeWrite, Differ

\* An attempt leaves the labels as they are, or as the run wants them.
LEMMA WritesLate ==
    ASSUME Shaped, Late, RunWrites
    PROVE  Late'
<1>1. labels' \in {labels, run.after} /\ OnlyTheirs(run.after)
  BY DEF RunWrites, Late
<1>2. run'.pc # "idle" => seen'.changed = seen.changed
  BY DEF Shaped, RunWrites, Forget, SeenFields
<1>3. run'.pc \in {"idle", "push"} \/ (run'.pc = "write" /\ run'.after = run.after)
  <2>1. CASE run' = AfterWrite
    BY <2>1 DEF AfterWrite, Rest, IdleRun
  <2>2. CASE run' = [run EXCEPT !.writes = @ + 1]
    BY <2>2 DEF Shaped, RunWrites, RunFields
  <2>3. CASE run' = IdleRun
    BY <2>3 DEF IdleRun
  <2> QED
    BY <2>1, <2>2, <2>3 DEF RunWrites, NextAttempt
<1> QED
  BY <1>1, <1>2, <1>3 DEF Late, OnlyTheirs, BeforeWrite, Differ

\* What an agent changes while the run is under way is remembered.
LEMMA OthersLate ==
    ASSUME Shaped, Late, Others
    PROVE  Late'
<1>1. CASE AgentLabel
  <2>1. PICK l : /\ labels' = IF l \in labels THEN labels \ {l} ELSE labels \cup {l}
                 /\ run.pc # "idle" => seen'.changed = seen.changed \cup {l}
    BY <1>1 DEF Shaped, AgentLabel, SeenFields
  <2>2. run' = run
    BY <1>1 DEF AgentLabel
  <2> QED
    BY <2>1, <2>2 DEF Late, OnlyTheirs, BeforeWrite, Differ
<1>2. CASE AppendWrites
  <2>1. run.pc # "idle" => seen'.changed = seen.changed \cup Differ(labels, labels')
    BY <1>2 DEF Shaped, AppendWrites, SeenFields
  <2>2. run' = run
    BY <1>2 DEF AppendWrites
  <2> QED
    BY <2>1, <2>2 DEF Late, OnlyTheirs, BeforeWrite, Differ
<1>3. CASE ~AgentLabel /\ ~AppendWrites
  <2>1. labels' = labels /\ seen'.changed = seen.changed
    BY <1>3 DEF Shaped, SeenFields, Others, Speaks, AgentEnters, SyncSkips, SyncReceives,
                SyncDismisses, SyncStores, SyncGender, BotStores, FillerReads,
                FillerPushes, FillerMarks, AppendReads
  <2> QED
    BY <2>1, OthersLeaveRun DEF Late, OnlyTheirs, BeforeWrite, Differ
<1> QED
  BY <1>1, <1>2, <1>3

\* Late is kept.
LEMMA NextLate ==
    ASSUME Shaped, Late, [Next]_vars
    PROVE  Late'
<1>1. CASE RunStarts
  <2>1. run'.before = labels \ {"tag"} /\ run'.pc \in {"load", "ask"} /\ labels' = labels
    BY <1>1 DEF RunStarts, IdleRun
  <2>2. "tag" \in Droppable \ NeverTouch
    BY ListsAssumption DEF Droppable
  <2> QED
    BY <2>1, <2>2 DEF Late, OnlyTheirs, BeforeWrite, Differ
<1>2. CASE RunPushes \/ RunEnds
  <2>1. run' = IdleRun
    BY <1>2 DEF RunPushes, RunEnds
  <2> QED
    BY <2>1 DEF IdleRun, Late, BeforeWrite
<1>3. CASE UNCHANGED vars
  BY <1>3 DEF vars, Late, OnlyTheirs, Differ
<1> QED
  BY <1>1, <1>2, <1>3, EarlyLate, FlagsLate, WritesLate, OthersLate DEF Next, Run_

\* A late write of labels only undoes, among the CRM's own and those that stay,
\* what somebody changed between the run's reading and its writing.
THEOREM LabelsKept == Spec => LateLabelsOnly
<1>1. Spec => []Late
  BY InitLate, NextLate, AlwaysShaped, PTL DEF Spec
<1>2. Shaped /\ Late /\ [Next]_vars
      => [run.pc = "write" /\ run' # run =>
             /\ Differ(labels, labels') \cap NeverTouch \subseteq seen.changed
             /\ (labels \ labels') \ Droppable \subseteq seen.changed]_vars
  <2> SUFFICES ASSUME Shaped, Late, [Next]_vars, run.pc = "write", run' # run
               PROVE  /\ Differ(labels, labels') \cap NeverTouch \subseteq seen.changed
                      /\ (labels \ labels') \ Droppable \subseteq seen.changed
    OBVIOUS
  <2>1. labels' \in {labels, run.after}
    BY OthersLeaveRun
    DEF Next, Run_, vars, RunStarts, RunLoads, RunCopies, RunUpdates, RunRereads,
        RunFetches, RunFlags, RunWrites, RunPushes, RunEnds
  <2> QED
    BY <2>1 DEF Late, OnlyTheirs, Differ
<1> QED
  BY <1>1, <1>2, AlwaysShaped, PTL DEF Spec, LateLabelsOnly

----------------------------------------------------------------------------
(***************************************************************************)
(* The gender: the messages are only ever added to, so what some part of   *)
(* the thread spoke of it still does.                                      *)
(***************************************************************************)
Threaded ==
    /\ thread \in Seq(Message)
    /\ run.history \in 0 .. Len(thread)

OfTheLead == row.setBy["gender"] = "tagAssigner" =>
                 /\ row.gender # Unset
                 /\ \E n \in 1 .. Len(thread) : row.gender = Signal(n)

\* Threaded holds initially, and no gender is the TagAssigner's.
LEMMA InitGender == Init => Threaded /\ OfTheLead
BY InputsAssumption DEF Init, IdleRun, Threaded, OfTheLead, AtRest

\* Only Speaks changes the thread, and it only appends.
LEMMA ThreadGrows ==
    ASSUME Threaded, [Next]_vars
    PROVE  /\ thread' \in Seq(Message) /\ Len(thread) <= Len(thread')
           /\ \A i \in 1 .. Len(thread) : thread'[i] = thread[i]
<1>1. CASE Speaks
  <2>1. PICK m \in Message : thread' = Append(thread, m)
    BY <1>1, InputsAssumption DEF Speaks
  <2> QED
    BY <2>1 DEF Threaded
<1>2. CASE ~Speaks
  <2>1. thread' = thread
    BY <1>2
    DEF Next, Run_, Others, vars, RunStarts, RunLoads, RunCopies, RunUpdates, RunRereads,
        RunFetches, RunFlags, RunWrites, RunPushes, RunEnds, AgentLabel, AgentEnters,
        SyncSkips, SyncReceives, SyncDismisses, SyncStores, SyncGender,
        BotStores, FillerReads, FillerPushes, FillerMarks, AppendReads, AppendWrites
  <2> QED
    BY <2>1 DEF Threaded
<1> QED
  BY <1>1, <1>2

\* What a part of the thread says does not change.
LEMMA SignalStays ==
    ASSUME Threaded, [Next]_vars, NEW n \in 0 .. Len(thread)
    PROVE  Signal(n)' = Signal(n)
<1>1. \A i \in 1 .. n : thread'[i] = thread[i]
  BY ThreadGrows DEF Threaded
<1>2. Said(n)' = Said(n)
  BY <1>1 DEF Said
<1> QED
  BY <1>2 DEF Signal

\* No message speaks of no gender.
LEMMA Silence == Signal(0) = Unset
<1>1. Said(0) = {}
  BY DEF Said
<1>2. {m.gender : m \in Said(0)} \ {Unset} = {}
  BY <1>1
<1> QED
  BY <1>2, FS_EmptySet DEF Signal

\* The run has loaded no more messages than there are.
LEMMA NextThreaded ==
    ASSUME Shaped, Threaded, [Next]_vars
    PROVE  Threaded'
<1>1. run'.history \in {0, run.history, Len(thread)}
  <2>1. CASE RunStarts \/ RunPushes \/ RunEnds
    <3>1. CASE RunStarts
      BY <3>1 DEF RunStarts, IdleRun
    <3>2. CASE RunPushes \/ RunEnds
      <4>1. run' = IdleRun
        BY <3>2 DEF RunPushes, RunEnds
      <4> QED
        BY <4>1 DEF IdleRun
    <3> QED
      BY <2>1, <3>1, <3>2
  <2>2. CASE RunLoads
    BY <2>2 DEF Shaped, RunLoads, RunFields
  <2>3. CASE RunCopies
    BY <2>3 DEF Shaped, RunCopies, RunFields
  <2>4. CASE RunUpdates
    BY <2>4 DEF Shaped, RunUpdates, RunFields
  <2>5. CASE RunRereads
    BY <2>5 DEF Shaped, RunRereads, RunFields
  <2>6. CASE RunFetches
    BY <2>6 DEF Shaped, RunFetches, RunFields
  <2>7. CASE RunFlags
    BY <2>7 DEF RunFlags, AfterWrite, Rest, IdleRun
  <2>8. CASE RunWrites
    <3>1. CASE run' = AfterWrite
      BY <3>1 DEF AfterWrite, Rest, IdleRun
    <3>2. CASE run' = [run EXCEPT !.writes = @ + 1]
      BY <3>2 DEF Shaped, RunFields
    <3>3. CASE run' = IdleRun
      BY <3>3 DEF IdleRun
    <3> QED
      BY <2>8, <3>1, <3>2, <3>3 DEF RunWrites, NextAttempt
  <2>9. CASE Others \/ UNCHANGED vars
    BY <2>9, OthersLeaveRun DEF vars
  <2> QED
    BY <2>1, <2>2, <2>3, <2>4, <2>5, <2>6, <2>7, <2>8, <2>9 DEF Next, Run_
<1> QED
  BY <1>1, ThreadGrows DEF Threaded

\* merge_attributes accepts only a gender heard.
LEMMA GenderHeard ==
    ASSUME NEW current, NEW setBy, NEW proposed, NEW resolved, NEW heard,
           "gender" \in Accepted(Verdicts(current, setBy, proposed, resolved, heard))
    PROVE  proposed["gender"] = heard /\ heard # Unset
<1>1. MergeGender(current["gender"], setBy["gender"], proposed["gender"], heard).accepted # Unset
  BY DEF Accepted, Verdicts, Fields
<1> QED
  BY <1>1 DEF MergeGender, Nothing, Accept, Block, Asks, Unset

\* The run writes a gender only if some part of the thread speaks of it.
LEMMA UpdateGender ==
    ASSUME Shaped, Threaded, OfTheLead, RunUpdates
    PROVE  OfTheLead'
<1> DEFINE n        == IF run.loaded THEN run.history ELSE Len(thread)
           proposed == [run.answer.values EXCEPT
                          !["university"] = Override(run.answer.values["university"], Heard(n),
                                                     run.answer.echo)]
           found    == ResolveListValue(proposed["university"])
           verdicts == Verdicts(Display(run.copy), run.copy.setBy, proposed,
                                ListValue(found), Signal(n))
           heard    == "gender" \in Accepted(verdicts)
<1>1. n \in 0 .. Len(thread) /\ thread' = thread
  <2>1. Len(thread) \in Nat /\ run.history \in 0 .. Len(thread)
    BY DEF Threaded
  <2>2. Len(thread) \in 0 .. Len(thread)
    BY <2>1
  <2>3. thread' = thread
    BY DEF RunUpdates
  <2> QED
    BY <2>1, <2>2, <2>3
<1>2. /\ heard => proposed["gender"] = Signal(n) /\ Signal(n) # Unset
      /\ row'.gender = IF heard THEN proposed["gender"] ELSE row.gender
      /\ row'.setBy["gender"] = IF heard THEN "tagAssigner" ELSE row.setBy["gender"]
  <2>1. row' = [row EXCEPT
                  !.university = IF "university" \in Accepted(verdicts) THEN found ELSE @,
                  !.gender     = IF heard THEN proposed["gender"] ELSE @,
                  !.room       = IF "room" \in Accepted(verdicts) THEN proposed["room"] ELSE @,
                  !.setBy      = [f \in Fields |-> IF f \in Accepted(verdicts)
                                                   THEN "tagAssigner" ELSE @[f]]]
    BY DEF RunUpdates, Updated
  <2>2. heard => proposed["gender"] = Signal(n) /\ Signal(n) # Unset
    <3> HIDE DEF n, proposed, found
    <3> SUFFICES ASSUME heard PROVE proposed["gender"] = Signal(n) /\ Signal(n) # Unset
      OBVIOUS
    <3>1. "gender" \in Accepted(Verdicts(Display(run.copy), run.copy.setBy, proposed,
                                        ListValue(found), Signal(n)))
      OBVIOUS
    <3> HIDE DEF verdicts, heard
    <3> QED
      BY <3>1, GenderHeard
  <2> HIDE DEF n, proposed, found, verdicts
  <2> QED
    BY <2>1, <2>2 DEF Shaped, RowFields, Fields
<1> HIDE DEF n, proposed, found, verdicts, heard
<1>3. \A k \in 0 .. Len(thread) : Signal(k)' = Signal(k)
  BY <1>1 DEF Signal, Said
<1>4. CASE heard
  <2>1. n # 0
    BY <1>2, <1>4, Silence
  <2> QED
    BY <1>1, <1>2, <1>3, <1>4, <2>1 DEF OfTheLead
<1>5. CASE ~heard
  BY <1>1, <1>2, <1>3, <1>5 DEF OfTheLead
<1> QED
  BY <1>4, <1>5

\* The other writers leave a gender of the TagAssigner's alone, or take it over.
LEMMA OthersGender ==
    ASSUME Shaped, [Next]_vars, ~RunUpdates
    PROVE  \/ row'.gender = row.gender /\ row'.setBy["gender"] = row.setBy["gender"]
           \/ row'.setBy["gender"] # "tagAssigner"
           \/ row.gender = Unset /\ row'.setBy["gender"] = row.setBy["gender"]
<1> USE DEF Shaped, RowFields, Fields
<1>1. CASE Run_
  <2>1. CASE RunFlags
    BY <2>1 DEF RunFlags
  <2>2. CASE ~RunFlags
    BY <1>1, <2>2 DEF Run_, RunStarts, RunLoads, RunCopies, RunRereads, RunFetches,
                      RunWrites, RunPushes, RunEnds
  <2> QED
    BY <2>1, <2>2
<1>2. CASE \E h \in Handlers : SyncStores(h)
  BY <1>2 DEF SyncStores
<1>3. CASE \E h \in Handlers : SyncGender(h)
  BY <1>3 DEF SyncGender
<1>4. CASE \E h \in Handlers : SyncDismisses(h)
  BY <1>4 DEF SyncDismisses
<1>5. CASE BotStores
  BY <1>5 DEF BotStores
<1>6. CASE FillerMarks
  BY <1>6 DEF FillerMarks, Filled
<1>7. CASE \/ UNCHANGED vars
           \/ Speaks \/ AgentLabel \/ AgentEnters \/ SyncSkips
           \/ (\E h \in Handlers : SyncReceives(h))
           \/ FillerReads \/ FillerPushes \/ AppendReads \/ AppendWrites
  BY <1>7 DEF vars, Speaks, AgentLabel, AgentEnters, SyncSkips, SyncReceives, FillerReads,
              FillerPushes, AppendReads, AppendWrites
<1> QED
  BY <1>1, <1>2, <1>3, <1>4, <1>5, <1>6, <1>7 DEF Next, Others

\* OfTheLead is kept.
LEMMA NextGender ==
    ASSUME Shaped, Threaded, OfTheLead, [Next]_vars
    PROVE  OfTheLead'
<1>1. CASE RunUpdates
  BY <1>1, UpdateGender
<1>2. CASE ~RunUpdates
  <2>1. ASSUME NEW n \in 1 .. Len(thread), row.gender = Signal(n), row'.gender = row.gender
        PROVE  \E k \in 1 .. Len(thread') : row'.gender = Signal(k)'
    <3>1. n \in 0 .. Len(thread) /\ n \in 1 .. Len(thread')
      BY ThreadGrows DEF Threaded
    <3>2. Signal(n)' = Signal(n)
      BY <3>1, SignalStays
    <3> QED
      BY <2>1, <3>1, <3>2
  <2> QED
    BY <1>2, <2>1, OthersGender DEF OfTheLead
<1> QED
  BY <1>1, <1>2

\* A gender the TagAssigner put into the row is one the lead's messages spoke
\* of at some time.
THEOREM GenderHeardOf == Spec => []GenderIsTheLeads
<1>1. Spec => [](Threaded /\ OfTheLead)
  BY InitGender, NextThreaded, NextGender, AlwaysShaped, PTL DEF Spec
<1>2. OfTheLead => GenderIsTheLeads
  BY DEF OfTheLead, GenderIsTheLeads
<1> QED
  BY <1>1, <1>2, PTL

----------------------------------------------------------------------------
(***************************************************************************)
(* The replica: the last webhook under way, the one being stored, or the   *)
(* row has the labels of Chatwoot, as long as no handler reads the row     *)
(* before an older webhook is stored.  Of two that are stored at the same  *)
(* time, the older one may come last.                                      *)
(***************************************************************************)
SyncFields == {"pc", "labels", "shown", "flag", "room"}

Webhooks ==
    /\ \E S : wire \in Seq(S)
    /\ DOMAIN sync = Handlers
    /\ \A h \in Handlers : /\ DOMAIN sync[h] = SyncFields
                           /\ sync[h].pc \in {"idle", "dismiss", "store", "gender"}

OneStores == \A g, h \in Handlers : Storing(g) /\ Storing(h) => g = h

Latest ==
    /\ wire # <<>> => wire[Len(wire)].labels = labels
    /\ wire = <<>> => \A h \in Handlers : Storing(h) => sync[h].labels = labels
    /\ wire = <<>> /\ (\A h \in Handlers : ~Storing(h)) => row.labels = labels

Follows == seen.skipped = TRUE \/ seen.crossed = TRUE \/ (OneStores /\ Latest)

\* Webhooks and Follows hold initially.
LEMMA InitFollows == Init => Webhooks /\ Follows
<1> SUFFICES ASSUME Init PROVE Webhooks /\ Follows
  OBVIOUS
<1>1. wire \in Seq({}) /\ wire = <<>> /\ \A h \in Handlers : sync[h] = IdleSync
  BY DEF Init
<1>2. row.labels = labels
  BY InputsAssumption DEF Init, AtRest
<1>3. Webhooks
  BY <1>1 DEF Init, IdleSync, Webhooks, SyncFields
<1>4. \A h \in Handlers : ~Storing(h)
  BY <1>1 DEF IdleSync, Storing
<1> QED
  BY <1>1, <1>2, <1>3, <1>4 DEF OneStores, Latest, Follows

\* The webhooks that are left when one is taken.
LEMMA WireLess ==
    ASSUME Webhooks, NEW i \in DOMAIN wire, wire' = RemoveAt(wire, i)
    PROVE  /\ \E S : wire' \in Seq(S)
           /\ Len(wire) \in Nat \ {0} /\ DOMAIN wire = 1 .. Len(wire)
           /\ Len(wire') = Len(wire) - 1 /\ DOMAIN wire' = 1 .. Len(wire) - 1
           /\ \A j \in DOMAIN wire' : wire'[j] = IF j < i THEN wire[j] ELSE wire[j + 1]
           /\ wire # <<>> /\ (wire' = <<>> <=> Len(wire) = 1)
<1>1. PICK S : wire \in Seq(S)
  BY DEF Webhooks
<1>2. Len(wire) \in Nat /\ DOMAIN wire = 1 .. Len(wire) /\ i \in 1 .. Len(wire)
  BY <1>1
<1> DEFINE s == SubSeq(wire, 1, i - 1)
           t == SubSeq(wire, i + 1, Len(wire))
<1>3. /\ s \in Seq(S) /\ Len(s) = i - 1 /\ \A j \in 1 .. i - 1 : s[j] = wire[j]
  BY <1>1, <1>2
<1>4. /\ t \in Seq(S) /\ Len(t) = Len(wire) - i
      /\ \A j \in 1 .. Len(wire) - i : t[j] = wire[i + j]
  BY <1>1, <1>2
<1>5. wire' = s \o t
  BY DEF RemoveAt
<1> HIDE DEF s, t
<1>6. /\ wire' \in Seq(S) /\ Len(wire') = Len(wire) - 1
      /\ DOMAIN wire' = 1 .. Len(wire) - 1
      /\ \A j \in 1 .. Len(wire) - 1 : wire'[j] = IF j < i THEN s[j] ELSE t[j - (i - 1)]
  <2>1. wire' \in Seq(S) /\ Len(wire') = Len(s) + Len(t)
    BY <1>3, <1>4, <1>5, ConcatProperties
  <2>2. Len(s) + Len(t) = Len(wire) - 1 /\ Len(s) \in Nat
    BY <1>2, <1>3, <1>4
  <2>3. DOMAIN wire' = 1 .. Len(wire) - 1
    BY <2>1, <2>2
  <2>4. \A j \in 1 .. Len(s) + Len(t) : wire'[j] = IF j <= Len(s) THEN s[j] ELSE t[j - Len(s)]
    <3>1. s \in Seq(S) /\ t \in Seq(S)
      BY <1>3, <1>4
    <3>2. \A j \in 1 .. Len(s) + Len(t) :
             (s \o t)[j] = IF j <= Len(s) THEN s[j] ELSE t[j - Len(s)]
      BY <3>1, ConcatProperties, Zenon
    <3> QED
      BY <1>5, <3>2, Zenon
  <2>5. \A j \in 1 .. Len(wire) - 1 : j <= Len(s) <=> j < i
    BY <1>2, <1>3
  <2> QED
    BY <1>3, <2>1, <2>2, <2>3, <2>4, <2>5
<1>7. ASSUME NEW j \in 1 .. Len(wire) - 1
      PROVE  wire'[j] = IF j < i THEN wire[j] ELSE wire[j + 1]
  <2>1. j < i => j \in 1 .. i - 1
    BY <1>2
  <2>2. ~(j < i) => j - (i - 1) \in 1 .. Len(wire) - i /\ i + (j - (i - 1)) = j + 1
    BY <1>2
  <2> QED
    BY <1>3, <1>4, <1>6, <2>1, <2>2
<1>8. wire' = <<>> <=> Len(wire') = 0
  BY <1>6
<1> QED
  BY <1>2, <1>6, <1>7, <1>8

\* The last webhook announces what there is now.
LEMMA Announced ==
    ASSUME Webhooks, Announce, sync' = sync, seen'.skipped = seen.skipped,
           seen'.crossed = seen.crossed, row'.labels = row.labels
    PROVE  Webhooks' /\ (Follows => Follows')
<1>1. OneStores' <=> OneStores
  BY DEF OneStores, Storing
<1>2. CASE wire' = wire /\ labels' = labels
  <2>1. Latest' <=> Latest
    BY <1>2 DEF Latest, Storing
  <2> QED
    BY <1>1, <1>2, <2>1 DEF Webhooks, Follows
<1>3. CASE wire' = Append(wire, [labels |-> labels', shown |-> shown'])
  <2> DEFINE e == [labels |-> labels', shown |-> shown']
  <2>1. PICK S : wire \in Seq(S)
    BY DEF Webhooks
  <2>2. wire \in Seq(S \cup {e})
    BY <2>1
  <2>3. /\ wire' \in Seq(S \cup {e}) /\ wire' # <<>>
        /\ wire'[Len(wire')] = e
    <3> HIDE DEF e
    <3>1. wire' = Append(wire, e)
      BY <1>3 DEF e
    <3> QED
      BY <2>2, <3>1
  <2>4. Latest'
    BY <2>3 DEF Latest
  <2> QED
    BY <1>1, <2>3, <2>4 DEF Webhooks, Follows
<1> QED
  BY <1>2, <1>3 DEF Announce

\* A handler receives a webhook: the oldest, while none is stored, or the row has
\* been read too early.
LEMMA ReceiveFollows ==
    ASSUME Shaped, Webhooks, Follows, NEW h \in Handlers, SyncReceives(h)
    PROVE  Webhooks' /\ Follows'
<1>1. PICK i \in DOMAIN wire :
         /\ wire' = RemoveAt(wire, i)
         /\ sync' = [sync EXCEPT ![h] =
               [pc     |-> IF "info-check" \in row.labels \ wire[i].labels
                           THEN "dismiss" ELSE "store",
                labels |-> wire[i].labels, shown |-> wire[i].shown,
                flag   |-> row.flag, room |-> row.room]]
         /\ seen' = [seen EXCEPT !.crossed = @ \/ i # 1 \/ \E g \in Handlers : Storing(g)]
  BY DEF SyncReceives
<1>2. /\ DOMAIN sync' = Handlers
      /\ DOMAIN sync'[h] = SyncFields /\ sync'[h].pc \in {"dismiss", "store"}
      /\ sync'[h].labels = wire[i].labels
      /\ \A g \in Handlers \ {h} : sync'[g] = sync[g]
      /\ labels' = labels
  BY <1>1 DEF Webhooks, SyncFields, SyncReceives
<1>3. /\ \E S : wire' \in Seq(S)
      /\ Len(wire) \in Nat \ {0} /\ Len(wire') = Len(wire) - 1
      /\ DOMAIN wire' = 1 .. Len(wire) - 1
      /\ \A j \in DOMAIN wire' : wire'[j] = IF j < i THEN wire[j] ELSE wire[j + 1]
      /\ wire # <<>> /\ (wire' = <<>> <=> Len(wire) = 1)
  BY <1>1, WireLess
<1>4. Webhooks'
  BY <1>2, <1>3 DEF Webhooks
<1>5. seen'.skipped = seen.skipped
      /\ (seen'.crossed = (seen.crossed \/ i # 1 \/ \E g \in Handlers : Storing(g)))
  BY <1>1 DEF Shaped, SeenFields
<1>6. CASE seen.skipped = TRUE \/ seen'.crossed = TRUE
  BY <1>4, <1>5, <1>6 DEF Follows
<1>7. CASE seen.skipped # TRUE /\ seen'.crossed # TRUE
  <2>1. i = 1 /\ (\A g \in Handlers : ~Storing(g)) /\ seen.crossed # TRUE
    BY <1>5, <1>7
  <2>2. \A g \in Handlers : Storing(g)' => g = h
    BY <1>2, <2>1 DEF Storing
  <2>3. OneStores'
    BY <2>2 DEF OneStores
  <2>4. wire[Len(wire)].labels = labels
    BY <1>3, <1>7, <2>1 DEF Follows, Latest
  <2>5. wire' # <<>> => wire'[Len(wire')] = wire[Len(wire)]
    <3> SUFFICES ASSUME wire' # <<>> PROVE wire'[Len(wire')] = wire[Len(wire)]
      OBVIOUS
    <3>1. Len(wire') \in DOMAIN wire' /\ ~(Len(wire') < 1) /\ Len(wire') + 1 = Len(wire)
      BY <1>3
    <3> QED
      BY <1>3, <2>1, <3>1
  <2>6. wire' = <<>> => sync'[h].labels = labels'
    BY <1>2, <1>3, <2>1, <2>4
  <2>7. Storing(h)'
    BY <1>2 DEF Storing
  <2>8. Latest'
    BY <1>2, <2>2, <2>4, <2>5, <2>6, <2>7 DEF Latest
  <2> QED
    BY <1>4, <2>3, <2>8 DEF Follows
<1> QED
  BY <1>6, <1>7

\* Webhooks is kept, and so is Follows.
LEMMA NextFollows ==
    ASSUME Shaped, Webhooks, Follows, [Next]_vars
    PROVE  Webhooks' /\ Follows'
<1> USE DEF Shaped
<1>1. CASE AgentLabel \/ AgentEnters \/ FillerPushes \/ AppendWrites \/ RunWrites \/ RunPushes
  <2>1. Announce /\ sync' = sync /\ row' = row
    BY <1>1 DEF AgentLabel, AgentEnters, FillerPushes, AppendWrites, RunWrites, RunPushes
  <2>2. seen'.skipped = seen.skipped /\ seen'.crossed = seen.crossed
    <3>1. CASE AgentLabel
      BY <3>1 DEF AgentLabel, SeenFields
    <3>2. CASE AgentEnters
      BY <3>2 DEF AgentEnters, SeenFields
    <3>3. CASE FillerPushes
      BY <3>3 DEF FillerPushes, SeenFields
    <3>4. CASE RunWrites
      BY <3>4 DEF RunWrites, Forget, SeenFields
    <3>5. CASE RunPushes
      BY <3>5 DEF RunPushes, Forget, SeenFields
    <3>6. CASE AppendWrites
      BY <3>6 DEF AppendWrites, SeenFields
    <3> QED
      BY <1>1, <3>1, <3>2, <3>3, <3>4, <3>5, <3>6
  <2> QED
    BY <2>1, <2>2, Announced
<1>2. CASE SyncSkips
  <2>1. PICK i \in DOMAIN wire : wire' = RemoveAt(wire, i)
    BY <1>2 DEF SyncSkips
  <2>2. \E S : wire' \in Seq(S)
    BY <2>1, WireLess
  <2>3. sync' = sync /\ seen'.skipped = TRUE
    BY <1>2 DEF SyncSkips, SeenFields
  <2> QED
    BY <2>2, <2>3 DEF Webhooks, Follows
<1>3. CASE \E h \in Handlers : SyncReceives(h)
  BY <1>3, ReceiveFollows
<1>4. ASSUME NEW h \in Handlers, SyncDismisses(h)
      PROVE  Webhooks' /\ Follows'
  <2>1. /\ UNCHANGED <<wire, labels, seen>> /\ row'.labels = row.labels
        /\ sync' = [sync EXCEPT ![h].pc = "store"] /\ Storing(h)
    BY <1>4 DEF SyncDismisses, Storing, RowFields
  <2>2. Webhooks' /\ \A g \in Handlers : sync'[g].labels = sync[g].labels
    BY <2>1 DEF Webhooks, SyncFields
  <2>3. \A g \in Handlers : Storing(g)' <=> Storing(g)
    BY <2>1 DEF Webhooks, SyncFields, Storing
  <2>4. OneStores => OneStores'
    BY <2>3 DEF OneStores
  <2>5. Latest => Latest'
    BY <2>1, <2>2, <2>3 DEF Latest
  <2> QED
    BY <2>1, <2>2, <2>4, <2>5 DEF Follows
<1>5. ASSUME NEW h \in Handlers, SyncStores(h)
      PROVE  Webhooks' /\ Follows'
  <2>1. /\ UNCHANGED <<wire, labels, seen>> /\ row'.labels = sync[h].labels /\ Storing(h)
        /\ \/ sync' = [sync EXCEPT ![h].pc = "gender"] \/ sync' = [sync EXCEPT ![h] = IdleSync]
    BY <1>5 DEF SyncStores, Storing, RowFields
  <2>2. Webhooks' /\ sync'[h].pc \in {"idle", "gender"}
        /\ \A g \in Handlers \ {h} : sync'[g] = sync[g]
    BY <2>1 DEF Webhooks, SyncFields, IdleSync
  <2>3. ~Storing(h)' /\ \A g \in Handlers : Storing(g)' => Storing(g) /\ g # h
    BY <2>2 DEF Storing
  <2>4. OneStores => OneStores' /\ \A g \in Handlers : ~Storing(g)'
    BY <2>1, <2>3 DEF OneStores
  <2>5. OneStores /\ Latest => Latest'
    BY <2>1, <2>4 DEF Latest
  <2> QED
    BY <2>1, <2>2, <2>4, <2>5 DEF Follows
<1>6. ASSUME NEW h \in Handlers, SyncGender(h)
      PROVE  Webhooks' /\ Follows'
  <2>1. /\ UNCHANGED <<wire, labels, seen>> /\ row'.labels = row.labels
        /\ sync[h].pc = "gender" /\ sync' = [sync EXCEPT ![h] = IdleSync]
    BY <1>6 DEF SyncGender, RowFields
  <2>2. Webhooks' /\ sync'[h].pc = "idle" /\ \A g \in Handlers \ {h} : sync'[g] = sync[g]
    BY <2>1 DEF Webhooks, SyncFields, IdleSync
  <2>3. \A g \in Handlers : (Storing(g)' <=> Storing(g)) /\ (Storing(g) => sync'[g] = sync[g])
    BY <2>1, <2>2 DEF Storing
  <2>4. OneStores => OneStores'
    BY <2>3 DEF OneStores
  <2>5. Latest => Latest'
    BY <2>1, <2>3 DEF Latest
  <2> QED
    BY <2>1, <2>2, <2>4, <2>5 DEF Follows
<1>7. ASSUME UNCHANGED <<wire, labels, sync>>, row'.labels = row.labels,
             seen'.skipped = seen.skipped, seen'.crossed = seen.crossed
      PROVE  Webhooks' /\ Follows'
  BY <1>7 DEF Webhooks, Follows, OneStores, Latest, Storing
<1>8. CASE BotStores \/ FillerMarks
  BY <1>7, <1>8 DEF BotStores, FillerMarks, RowFields
<1>9. CASE Speaks \/ FillerReads \/ AppendReads \/ UNCHANGED vars
  BY <1>7, <1>9 DEF Speaks, FillerReads, AppendReads, vars
<1>10. CASE RunUpdates
  BY <1>7, <1>10 DEF RunUpdates, Updated, RowFields
<1>11. CASE RunFlags
  BY <1>7, <1>11 DEF RunFlags, Forget, RowFields, SeenFields
<1>12. CASE RunStarts \/ RunLoads \/ RunCopies \/ RunRereads \/ RunFetches \/ RunEnds
  <2>1. UNCHANGED <<wire, labels, sync, row>>
    BY <1>12 DEF RunStarts, RunLoads, RunCopies, RunRereads, RunFetches, RunEnds
  <2>2. seen'.skipped = seen.skipped /\ seen'.crossed = seen.crossed
    <3>1. CASE RunStarts \/ RunLoads
      BY <3>1 DEF RunStarts, RunLoads
    <3>2. CASE RunCopies
      BY <3>2 DEF RunCopies, SeenFields
    <3>3. CASE RunRereads
      BY <3>3 DEF RunRereads, SeenFields
    <3>4. CASE RunFetches
      BY <3>4 DEF RunFetches, SeenFields
    <3>5. CASE RunEnds
      BY <3>5 DEF RunEnds, Forget, SeenFields
    <3> QED
      BY <1>12, <3>1, <3>2, <3>3, <3>4, <3>5
  <2> QED
    BY <1>7, <2>1, <2>2
<1> QED
  BY <1>1, <1>2, <1>3, <1>4, <1>5, <1>6, <1>8, <1>9, <1>10, <1>11, <1>12
  DEF Next, Run_, Others

\* Once the webhooks are handled the replica has Chatwoot's labels, unless one
\* was taken for the bot's own, or read the row before an older one was stored.
THEOREM ReplicaKept == Spec => []ReplicaFollows
<1>1. Spec => [](Webhooks /\ Follows)
  BY InitFollows, NextFollows, AlwaysShaped, PTL DEF Spec
<1>2. Webhooks /\ Follows => ReplicaFollows
  BY DEF Webhooks, Follows, Latest, Storing, ReplicaFollows, Pending
<1> QED
  BY <1>1, <1>2, PTL
=============================================================================
