-------------------------------- MODULE TagRun --------------------------------
(***************************************************************************)
(* A run of the TagAssigner on one conversation, step by step              *)
(* (app/tagassigner/router.py), among the others who write the same labels *)
(* and attributes: agents in Chatwoot, whose edits come back as            *)
(* conversation_updated webhooks (app/webhooks/chatwoot.py), and           *)
(* InfoGatherer (app/tagassigner/attribute_resolver.py).  What happens     *)
(* between two awaits is one step.  What starts a run, and how often, is   *)
(* in TagQueue; here one starts whenever none is under way.                *)
(***************************************************************************)
EXTENDS LabelResolver, Inventory, Canonicalizer, SequencesExt

CONSTANTS
    Labels,         \* all labels
    Speech,         \* bound: what the lead may write, see Message
    Answers,        \* bound: what the LLM may answer, see Answer
    AgentLabels,    \* bound: the labels agents add and remove
    AgentValues,    \* bound: <<field, value>> agents enter, Unset to clear
    Begins,         \* bound: where the conversation may stand, see AtRest
    Assignees,      \* bound: whom the conversation may be assigned to
    Handlers,       \* bound: handlers of webhooks at work at the same time
    MaxWrites,      \* 3: len(_WRITEBACK_DELAYS)
    MaxRuns,        \* bound: runs
    MaxEvents       \* bound: messages, edits, faults, and InfoGatherer's write

\* gender: the gender word of the text, by inbound_gender_signal; asks, tells:
\* whether it asks for the price, or tells it (compute_fiyat_soruyor).
Message == [by : {"lead", "bot"}, words : Seq(STRING), gender : Seq(STRING),
            asks : BOOLEAN, tells : BOOLEAN]

Answer == [labels : SUBSET Labels, values : [Fields -> Seq(STRING)], echo : Seq(STRING)]

VARIABLES
    labels,     \* Chatwoot: the labels of the conversation
    shown,      \* Chatwoot: its custom attributes, a dictionary
    wire,       \* webhooks not yet looked at, in the order of what they announce
    row,        \* the conversations row
    thread,     \* the messages table
    sync,       \* the handlers of conversation_updated, each a task of its own
    filler,     \* InfoGatherer's writes at the end of its flow
    run,        \* the run
    selfWrite,  \* the run wrote in the last 30 seconds (record_self_write)
    assignee,   \* who the conversation is assigned to in Chatwoot
    seen,       \* history, see Seen
    runs, events

vars == <<labels, shown, wire, row, thread, sync, filler, run, selfWrite, assignee,
          seen, runs, events>>

Texts == Seq(STRING)

Flag == [field : Fields \cup {"none"}, current : Texts, proposed : Texts \cup {Withheld},
         reason : Reasons \cup {"none"}]

\* flag: info_check_fingerprint; suppressed: info_check_suppressed_fingerprint.
Row == [labels : SUBSET Labels, university : Ids \cup {"none"}, gender : Texts,
        room : Texts, setBy : [Fields -> Setters], flag : Flag, suppressed : Flag]

Run == [pc      : {"idle", "load", "ask", "update", "reread", "fetch", "flag", "write",
                   "push"},
        before  : SUBSET Labels,            \* current_labels
        history : Nat,                      \* messages of the thread it has loaded
        loaded  : BOOLEAN,
        answer  : Answer,
        copy    : Row,                      \* conv
        patches : [Fields -> Texts],        \* Unset: none
        blocked : SUBSET Flag,
        blind   : BOOLEAN,                  \* fetch_conversation failed
        after   : SUBSET Labels,            \* final_labels
        writes  : 0 .. MaxWrites - 1]

(***************************************************************************)
(* byAgent: attributes in Chatwoot last set by an agent; known: those the  *)
(* row said so of whenever the run read it, and Chatwoot showed a value of *)
(* when the run looked; changed: labels others changed since the run read  *)
(* them; dismissed: the flag agents took down last; skipped: a webhook was *)
(* taken for the bot's own; crossed: a handler read the row before an      *)
(* older webhook was stored; moved: the run took the flag down itself, or  *)
(* the flag was changed or put up with webhooks under way.                 *)
(***************************************************************************)
Seen == [byAgent : SUBSET Fields, known : SUBSET Fields,
         changed : SUBSET Labels, dismissed : Flag, skipped : BOOLEAN,
         crossed : BOOLEAN, moved : BOOLEAN]

\* Chatwoot's custom attributes: a field may be missing.
Attributes(d) == DOMAIN d \subseteq Fields /\ \A f \in DOMAIN d : d[f] \in Texts

\* A conversation at rest: its webhooks are handled, no run is under way.
AtRest(b) ==
    /\ b.labels \subseteq Labels /\ b.row.labels = b.labels
    /\ Attributes(b.shown) /\ b.row \in Row /\ b.thread \in Seq(Message)
    /\ b.row.setBy["gender"] # "tagAssigner"

\* The lists, and the labels the code names itself, are among all labels.
ASSUME LabelsAssumption ==
    Usable \cup Terminal \cup Computed \cup {"ai", "human_needed"} \subseteq Labels

ASSUME InputsAssumption ==
    /\ Speech \subseteq Message
    /\ Answers \subseteq Answer
    /\ AgentLabels \subseteq Labels
    /\ AgentValues \subseteq Fields \X Texts
    /\ \A b \in Begins : AtRest(b)
    /\ MaxWrites \in Nat \ {0} /\ MaxRuns \in Nat /\ MaxEvents \in Nat

Empty == [f \in {} |-> Unset]

NewRow == [labels |-> {}, university |-> "none", gender |-> Unset, room |-> Unset,
           setBy |-> [f \in Fields |-> "none"], flag |-> NoFlag, suppressed |-> NoFlag]

NoAnswer == [labels |-> {}, values |-> [f \in Fields |-> Unset], echo |-> Blank]

IdleRun == [pc |-> "idle", before |-> {}, history |-> 0, loaded |-> FALSE,
            answer |-> NoAnswer, copy |-> NewRow, patches |-> [f \in Fields |-> Unset],
            blocked |-> {}, blind |-> FALSE, after |-> {}, writes |-> 0]

IdleSync == [pc |-> "idle", labels |-> {}, shown |-> Empty, flag |-> NoFlag, room |-> Unset]

\* A handler of a webhook: what the webhook says, and what the row said.
SyncOK(s) ==
    /\ s.pc \in {"idle", "dismiss", "store", "gender"}
    /\ s.labels \subseteq Labels /\ Attributes(s.shown)
    /\ s.flag \in Flag /\ s.room \in Texts

TypeOK ==
    /\ labels \subseteq Labels
    /\ Attributes(shown)
    /\ \A i \in DOMAIN wire : wire[i].labels \subseteq Labels /\ Attributes(wire[i].shown)
    /\ row \in Row
    /\ thread \in Seq(Message)
    /\ DOMAIN sync = Handlers /\ \A h \in Handlers : SyncOK(sync[h])
    /\ filler \in [pc : {"unused", "push", "mark", "append", "done"},
                   university : Ids \cup {"none"}, gender : Texts, labels : SUBSET Labels]
    /\ run \in Run
    /\ selfWrite \in BOOLEAN /\ assignee \in Assignees
    /\ seen \in Seen
    /\ runs \in Nat /\ events \in Nat

Init ==
    /\ \E b \in Begins : labels = b.labels /\ shown = b.shown /\ row = b.row /\ thread = b.thread
    /\ wire = <<>> /\ sync = [h \in Handlers |-> IdleSync] /\ run = IdleRun
    /\ filler = [pc |-> "unused", university |-> "none", gender |-> Unset, labels |-> {}]
    /\ selfWrite = FALSE /\ assignee \in Assignees
    /\ seen = [byAgent |-> {}, known |-> {}, changed |-> {},
               dismissed |-> NoFlag, skipped |-> FALSE, crossed |-> FALSE, moved |-> FALSE]
    /\ runs = 0 /\ events = 0

----------------------------------------------------------------------------
\* What the row says, as Chatwoot shows it.
Display(r) ==
    [f \in Fields |-> CASE f = "university" -> ListValue(r.university)
                        [] f = "gender"     -> r.gender
                        [] f = "room"       -> r.room]

\* Chatwoot announces a change with all labels and attributes.
Announce ==
    wire' = IF labels' = labels /\ shown' = shown THEN wire
            ELSE Append(wire, [labels |-> labels', shown |-> shown'])

Put(values) ==
    [f \in DOMAIN shown \cup DOMAIN values |-> IF f \in DOMAIN values THEN values[f] ELSE shown[f]]

Event == events < MaxEvents /\ events' = events + 1

Fault(happens) == IF happens THEN Event ELSE events' = events

\* The lead or the bot writes.
Speaks ==
    /\ Event
    /\ \E m \in Speech : thread' = Append(thread, m)
    /\ UNCHANGED <<labels, shown, wire, row, sync, filler, run, selfWrite, assignee, seen,
                   runs>>

Pending == wire # <<>> \/ \E h \in Handlers : sync[h].pc # "idle"

\* An agent adds a label, or removes one: info-check to dismiss the flag.
AgentLabel ==
    /\ Event
    /\ \E l \in AgentLabels :
          /\ labels' = IF l \in labels THEN labels \ {l} ELSE labels \cup {l}
          /\ LET flagged == l = "info-check"
             IN  seen' = [seen EXCEPT
                    !.changed   = @ \cup {k \in {l} : run.pc # "idle"},
                    !.dismissed = IF ~flagged THEN @
                                  ELSE IF l \in labels THEN row.flag ELSE NoFlag,
                    !.moved     = \/ @
                                  \/ flagged /\ run.pc # "idle"
                                  \/ flagged /\ l \notin labels /\ Pending]
    /\ shown' = shown
    /\ Announce
    /\ UNCHANGED <<row, thread, sync, filler, run, selfWrite, assignee, runs>>

\* An agent enters an attribute, or clears it.
AgentEnters ==
    /\ Event
    /\ \E entry \in AgentValues :
          /\ Read(shown, entry[1]) # entry[2]
          /\ shown' = Put([f \in {entry[1]} |-> entry[2]])
          /\ seen' = [seen EXCEPT !.byAgent = @ \cup {entry[1]}]
    /\ labels' = labels
    /\ Announce
    /\ UNCHANGED <<row, thread, sync, filler, run, selfWrite, assignee, runs>>

----------------------------------------------------------------------------
\* _is_bot_authored: the assignee stands for the author.
BotAuthored == assignee = "bot" \/ (assignee = "nobody" /\ selfWrite)

SyncSkips ==
    /\ BotAuthored
    /\ \E i \in DOMAIN wire : wire' = RemoveAt(wire, i)
    /\ seen' = [seen EXCEPT !.skipped = TRUE]
    /\ UNCHANGED <<labels, shown, row, thread, sync, filler, run, selfWrite, assignee,
                   runs, events>>

\* The handler has read the row and not yet written what the webhook says.
Storing(h) == sync[h].pc \in {"dismiss", "store"}

\* _process_conversation_updated, a background task for each webhook, in any
\* order and without a lock: it reads the row; with nobody to go by, thirty
\* seconds after the run's last write.
SyncReceives(h) ==
    /\ sync[h].pc = "idle" /\ assignee # "bot"
    /\ selfWrite' = (selfWrite /\ assignee = "agent")
    /\ \E i \in DOMAIN wire :
          /\ wire' = RemoveAt(wire, i)
          /\ sync' = [sync EXCEPT ![h] =
                [pc     |-> IF "info-check" \in row.labels \ wire[i].labels
                            THEN "dismiss" ELSE "store",
                 labels |-> wire[i].labels, shown |-> wire[i].shown,
                 flag   |-> row.flag, room |-> row.room]]
          /\ seen' = [seen EXCEPT !.crossed = @ \/ i # 1 \/ \E g \in Handlers : Storing(g)]
    /\ UNCHANGED <<labels, shown, row, thread, filler, run, assignee, runs, events>>

\* Mutant: the flag is taken down, but not remembered.
SyncDismisses_Forgets(h) ==
    /\ sync[h].pc = "dismiss"
    /\ row' = [row EXCEPT !.flag = NoFlag]
    /\ sync' = [sync EXCEPT ![h].pc = "store"]
    /\ UNCHANGED <<labels, shown, wire, thread, filler, run, selfWrite, assignee, seen,
                   runs, events>>

\* set_info_check_suppressed_from_dismiss, with the flag of the row as it was read.
SyncDismisses(h) ==
    /\ sync[h].pc = "dismiss"
    /\ row' = [row EXCEPT !.suppressed = sync[h].flag, !.flag = NoFlag]
    /\ sync' = [sync EXCEPT ![h].pc = "store"]
    /\ UNCHANGED <<labels, shown, wire, thread, filler, run, selfWrite, assignee, seen,
                   runs, events>>

\* sync_conversation_labels_and_attributes: what the webhook shows is taken for
\* an agent's, the university whether it changed or not.
SyncStores(h) ==
    /\ sync[h].pc = "store"
    /\ LET told       == sync[h].shown
           university == {r.id : r \in {v \in Rows(ListValues) :
                             v.value # Blank /\ v.value = Read(told, "university")}}
           roomGiven  == "room" \in DOMAIN told
           human(f)   == \/ f = "university" /\ university # {}
                         \/ f = "room" /\ roomGiven /\ told.room # sync[h].room
       IN  /\ row' = [row EXCEPT
                !.labels     = sync[h].labels,
                !.university = IF university # {} THEN CHOOSE u \in university : TRUE ELSE @,
                !.room       = IF roomGiven THEN told.room ELSE @,
                !.setBy      = [f \in Fields |-> IF human(f) THEN "human" ELSE @[f]]]
           /\ sync' = IF "gender" \in DOMAIN told THEN [sync EXCEPT ![h].pc = "gender"]
                      ELSE [sync EXCEPT ![h] = IdleSync]
    /\ UNCHANGED <<labels, shown, wire, thread, filler, run, selfWrite, assignee, seen,
                   runs, events>>

\* set_conversation_gender_human, an unset one included.
SyncGender(h) ==
    /\ sync[h].pc = "gender"
    /\ row' = IF sync[h].shown.gender \in Genders \cup {Unset}
              THEN [row EXCEPT !.gender = sync[h].shown.gender, !.setBy.gender = "human"]
              ELSE row
    /\ sync' = [sync EXCEPT ![h] = IdleSync]
    /\ UNCHANGED <<labels, shown, wire, thread, filler, run, selfWrite, assignee, seen,
                   runs, events>>

----------------------------------------------------------------------------
\* InfoGatherer takes the university or the gender from what the lead wrote
\* last (set_conversation_university, set_conversation_gender), unless a hotel
\* is named in it.
BotStores ==
    /\ thread # <<>>
    /\ LET said == thread[Len(thread)]
           university == ScanEntities(said.words).university
       IN  /\ said.by = "lead"
           /\ \/ /\ row.university = "none" /\ university # "none"
                 /\ row' = [row EXCEPT !.university = university]
              \/ /\ row.gender = Unset /\ said.gender # Unset
                 /\ row' = [row EXCEPT !.gender = said.gender]
           /\ MatchHotel(said.words) = Blank
    /\ UNCHANGED <<labels, shown, wire, thread, sync, filler, run, selfWrite, assignee,
                   seen, runs, events>>

\* write_attributes_at_flow_completion: reads the row, ...
FillerReads ==
    /\ Event
    /\ filler.pc = "unused"
    /\ filler' = [filler EXCEPT !.pc = "push", !.university = row.university,
                                !.gender = row.gender]
    /\ UNCHANGED <<labels, shown, wire, row, thread, sync, run, selfWrite, assignee, seen,
                   runs>>

Filled == IF ListValue(filler.university) = Blank THEN {"gender"} ELSE {"university", "gender"}

\* ... tells Chatwoot ...
FillerPushes ==
    /\ filler.pc = "push"
    /\ \/ /\ shown' = Put([f \in Filled |-> IF f = "gender" THEN filler.gender
                                            ELSE ListValue(filler.university)])
          /\ seen' = [seen EXCEPT !.byAgent = @ \ Filled]
          /\ filler' = [filler EXCEPT !.pc = "mark"]
          /\ Fault(FALSE)
       \/ /\ Fault(TRUE)
          /\ filler' = [filler EXCEPT !.pc = "done"]
          /\ UNCHANGED <<shown, seen>>
    /\ labels' = labels
    /\ Announce
    /\ UNCHANGED <<row, thread, sync, run, selfWrite, assignee, runs>>

\* ... and marks them as its own, whoever set them meanwhile.
FillerMarks ==
    /\ filler.pc = "mark"
    /\ row' = [row EXCEPT !.setBy =
                  [f \in Fields |-> IF f \in Filled THEN "infoGatherer" ELSE @[f]]]
    /\ filler' = [filler EXCEPT !.pc = "done"]
    /\ UNCHANGED <<labels, shown, wire, thread, sync, run, selfWrite, assignee, seen,
                   runs, events>>

Differ(a, b) == (a \ b) \cup (b \ a)

\* _append_chatwoot_label: InfoGatherer escalates, or the callback finds no
\* property; the labels are read ...
AppendReads ==
    /\ Event
    /\ filler.pc = "unused"
    /\ \E label \in {"human_needed", "deal_awaiting"} \ labels :
          filler' = [filler EXCEPT !.pc = "append", !.labels = labels \cup {label}]
    /\ UNCHANGED <<labels, shown, wire, row, thread, sync, run, selfWrite, assignee, seen,
                   runs>>

\* ... and written back whole, without a lock and once only; not recorded as
\* the bot's own.  The attributes may follow.
AppendWrites ==
    /\ filler.pc = "append"
    /\ filler' = [filler EXCEPT !.pc = "unused", !.labels = {}]
    /\ \/ labels' = filler.labels /\ Fault(FALSE)
       \/ labels' = labels /\ Fault(TRUE)
    /\ seen' = [seen EXCEPT
                 !.changed = @ \cup {l \in Differ(labels, labels') : run.pc # "idle"},
                 !.moved   = @ \/ "info-check" \in Differ(labels, labels')]
    /\ shown' = shown
    /\ Announce
    /\ UNCHANGED <<row, thread, sync, run, selfWrite, assignee, runs>>

----------------------------------------------------------------------------
\* run_tagging reads the labels.
RunStarts ==
    /\ run.pc = "idle"
    /\ runs < MaxRuns /\ runs' = runs + 1
    /\ \E full \in BOOLEAN :
          run' = [IdleRun EXCEPT !.pc = IF full THEN "load" ELSE "ask",
                                 !.before = labels \ {"tag"}]
    /\ UNCHANGED <<labels, shown, wire, row, thread, sync, filler, selfWrite, assignee,
                   seen, events>>

\* read_full_history: the messages are loaded before the LLM is asked.
RunLoads ==
    /\ run.pc = "load"
    /\ run' = [run EXCEPT !.pc = "ask", !.history = Len(thread), !.loaded = TRUE]
    /\ UNCHANGED <<labels, shown, wire, row, thread, sync, filler, selfWrite, assignee,
                   seen, runs, events>>

\* call_llm answers, and apply_tagassigner_result reads the row.
RunCopies ==
    /\ run.pc = "ask"
    /\ \E answer \in Answers :
          run' = [run EXCEPT !.pc = "update", !.answer = answer, !.copy = row]
    /\ seen' = [seen EXCEPT !.known = {f \in Fields : row.setBy[f] = "human"}]
    /\ UNCHANGED <<labels, shown, wire, row, thread, sync, filler, selfWrite, assignee,
                   runs, events>>

\* The first n messages.
Said(n) == {thread[i] : i \in {j \in 1 .. n : thread[j].by = "lead"}}

\* extract_university_phrase_from_messages
Heard(n) == FlattenSeq([i \in 1 .. n |-> IF thread[i].by = "lead" THEN thread[i].words ELSE <<>>])

\* inbound_gender_signal: nothing, if the words contradict each other.
Signal(n) ==
    LET genders == {m.gender : m \in Said(n)} \ {Unset}
    IN  IF Cardinality(genders) = 1 THEN CHOOSE g \in genders : TRUE ELSE Unset

Accepted(verdicts) == {f \in Fields : verdicts[f].accepted # Unset}

\* apply_tagassigner_attribute_updates: what is accepted, and who has set it.
Updated(r, accepted, proposed, found) ==
    [r EXCEPT
       !.university = IF "university" \in accepted THEN found ELSE @,
       !.gender     = IF "gender" \in accepted THEN proposed["gender"] ELSE @,
       !.room       = IF "room" \in accepted THEN proposed["room"] ELSE @,
       !.setBy      = [f \in Fields |-> IF f \in accepted THEN "tagAssigner" ELSE @[f]]]

\* The history is loaded, unless it is, and the LLM's attributes are merged
\* (merge_attributes).
RunUpdates ==
    /\ run.pc = "update"
    /\ LET n         == IF run.loaded THEN run.history ELSE Len(thread)
           belt      == run.answer.values["university"]
           proposed  == [run.answer.values EXCEPT
                            !["university"] = Override(belt, Heard(n), run.answer.echo)]
           found     == ResolveListValue(proposed["university"])
           verdicts  == Verdicts(Display(run.copy), run.copy.setBy, proposed,
                                 ListValue(found), Signal(n))
           accepted  == Accepted(verdicts)
       IN  /\ row' = Updated(row, accepted, proposed, found)
           /\ run' = [run EXCEPT
                 !.pc      = IF accepted = {} THEN "fetch" ELSE "reread",
                 !.history = n,
                 !.patches = [f \in Fields |-> IF f \in accepted THEN proposed[f] ELSE Unset],
                 !.blocked = UNION {verdicts[f].blocked : f \in Fields}]
    /\ UNCHANGED <<labels, shown, wire, thread, sync, filler, selfWrite, assignee, seen,
                   runs, events>>

RunRereads ==
    /\ run.pc = "reread"
    /\ run' = [run EXCEPT !.pc = "fetch", !.copy = row]
    /\ seen' = [seen EXCEPT !.known = {f \in @ : row.setBy[f] = "human"}]
    /\ UNCHANGED <<labels, shown, wire, row, thread, sync, filler, selfWrite, assignee,
                   runs, events>>

\* fetch_conversation and reconcile_chatwoot_attributes.  If the fetch fails,
\* Chatwoot counts as empty.
RunFetches ==
    /\ run.pc = "fetch"
    /\ \E blind \in BOOLEAN :
          /\ Fault(blind)
          /\ LET desired == Display(run.copy)
                 stale   == Stale(desired, run.copy.setBy, IF blind THEN Empty ELSE shown)
             IN  run' = [run EXCEPT
                   !.pc      = "flag",
                   !.blind   = blind,
                   !.patches = [f \in Fields |-> IF @[f] # Unset THEN @[f]
                                                 ELSE IF f \in stale THEN desired[f] ELSE Unset]]
    /\ seen' = [seen EXCEPT !.known = {f \in @ : Read(shown, f) # Unset}]
    /\ UNCHANGED <<labels, shown, wire, row, thread, sync, filler, selfWrite, assignee,
                   runs>>

\* compute_fiyat_soruyor: the last message that asks has no answer yet.
PriceOpen(n) ==
    \E i \in 1 .. n :
        /\ thread[i].by = "lead" /\ thread[i].asks
        /\ \A j \in i + 1 .. n : IF thread[j].by = "lead" THEN ~thread[j].asks
                                 ELSE ~thread[j].tells

\* The labels the router computes (fiyat-soruyor, hizmet-veremiyoruz,
\* deal_awaiting, ai), over those resolved.
Compute(resolved, n, copy) ==
    (resolved \ {"fiyat-soruyor", "hizmet-veremiyoruz"})
    \cup {l \in {"fiyat-soruyor"} : PriceOpen(n)}
    \cup {l \in {"hizmet-veremiyoruz"} : NotServed(Heard(n), copy.university)}
    \cup DealAwaiting(copy.university, copy.gender)
    \cup {"ai"}

\* With the run ends what is remembered for it.
Forget(s) == IF run'.pc = "idle" THEN [s EXCEPT !.changed = {}, !.known = {}]
             ELSE s

Patched == {f \in Fields : run.patches[f] # Unset}

\* What is left of the run: to write the labels, to push the patches.
Rest(pc, after) == [IdleRun EXCEPT !.pc = pc, !.after = after, !.patches = run.patches,
                                   !.blind = run.blind]

AfterWrite == IF Patched = {} THEN IdleRun ELSE Rest("push", {})

\* resolve_labels, apply_info_check, update_info_check_state and the rest of
\* the label set; there may be nothing to write.
RunFlags ==
    /\ run.pc = "flag"
    /\ \E resolved \in Resolutions(run.before, Strip(run.answer.labels)), expired \in BOOLEAN :
          LET checked == InfoCheck(resolved, run.copy.flag, run.copy.suppressed, expired,
                                   run.blocked)
              after   == Compute(checked.labels, run.history, run.copy)
          IN  /\ row' = IF checked.writes = {} THEN row
                        ELSE [row EXCEPT !.flag = CHOOSE c \in checked.writes : TRUE]
              /\ run' = IF after = run.before THEN AfterWrite
                        ELSE Rest("write", after)
    /\ seen' = Forget([seen EXCEPT
                 !.moved = @ \/ (row' # row /\ Pending)])
    /\ UNCHANGED <<labels, shown, wire, thread, sync, filler, selfWrite, assignee,
                   runs, events>>

\* Mutant: one attempt too many.
NextAttempt_OneMore == IF run.writes < MaxWrites THEN [run EXCEPT !.writes = @ + 1] ELSE IdleRun

NextAttempt == IF run.writes + 1 < MaxWrites THEN [run EXCEPT !.writes = @ + 1] ELSE IdleRun

\* _write_labels_with_retry: an attempt succeeds, or its answer is lost, with
\* or without effect, and the next one follows.
RunWrites ==
    /\ run.pc = "write"
    /\ \/ labels' = run.after /\ run' = AfterWrite /\ Fault(FALSE)
       \/ /\ Fault(TRUE)
          /\ labels' \in {labels, run.after}
          /\ run' = NextAttempt
    /\ shown' = shown
    /\ Announce
    /\ selfWrite' = TRUE
    /\ seen' = Forget([seen EXCEPT
                 !.moved = \/ @
                           \/ "info-check" \in labels \ labels'
                           \/ "info-check" \in labels' \ labels /\ Pending])
    /\ UNCHANGED <<row, thread, sync, filler, assignee, runs>>

\* push_chatwoot_attribute_patches
RunPushes ==
    /\ run.pc = "push"
    /\ shown' = Put([f \in Patched |-> run.patches[f]])
    /\ run' = IdleRun
    /\ seen' = Forget([seen EXCEPT !.byAgent = @ \ Patched])
    /\ labels' = labels
    /\ Announce
    /\ selfWrite' = TRUE
    /\ UNCHANGED <<row, thread, sync, filler, assignee, runs, events>>

\* The LLM has no answer, Chatwoot refuses, or the process dies.
RunEnds ==
    /\ run.pc # "idle"
    /\ Fault(TRUE)
    /\ run' = IdleRun
    /\ seen' = Forget(seen)
    /\ UNCHANGED <<labels, shown, wire, row, thread, sync, filler, selfWrite, assignee,
                   runs>>

----------------------------------------------------------------------------
Run_ ==
    \/ RunStarts \/ RunLoads \/ RunCopies \/ RunUpdates \/ RunRereads
    \/ RunFetches \/ RunFlags \/ RunWrites \/ RunPushes \/ RunEnds

Others ==
    \/ Speaks \/ AgentLabel \/ AgentEnters
    \/ SyncSkips
    \/ \E h \in Handlers : SyncReceives(h) \/ SyncDismisses(h) \/ SyncStores(h) \/ SyncGender(h)
    \/ BotStores \/ FillerReads \/ FillerPushes \/ FillerMarks
    \/ AppendReads \/ AppendWrites

Next == Run_ \/ Others

Spec == Init /\ [][Next]_vars

----------------------------------------------------------------------------
\* The labels a run may take away.
Droppable == Usable \cup {"fiyat-soruyor", "tag"}

\* The labels are read before the LLM is asked and written back whole
\* (_write_labels_with_retry).  What the write does to the CRM's own labels, and
\* what it takes away of those that are not the LLM's to take, human_needed
\* among them, only undoes what somebody changed in between.
LateLabelsOnly ==
    [][run.pc = "write" /\ run' # run =>
          /\ Differ(labels, labels') \cap NeverTouch \subseteq seen.changed
          /\ (labels \ labels') \ Droppable \subseteq seen.changed]_vars

\* docs/024: "set_by='human' is sacred."  The run writes over an agent's entry
\* only if the row it read did not say so yet (merge_attributes,
\* reconcile_chatwoot_attributes), or if Chatwoot had no value when it looked, or
\* could not be read and counted as empty.
AgentEntryKept ==
    [][run.pc = "push" /\ run' # run =>
          \A f \in seen.byAgent :
             Read(shown', f) # Read(shown, f) => run.blind \/ f \notin seen.known]_vars

\* A gender the TagAssigner put into the row is one the lead's messages spoke
\* of at some time, whatever the LLM says (inbound_gender_signal).
GenderIsTheLeads ==
    row.setBy.gender = "tagAssigner" =>
        \E n \in 1 .. Len(thread) : row.gender = Signal(n)

\* The run never puts a campus into the row that contradicts the lead's own
\* words (docs/028.1): it puts in none if they tell an institution but not the
\* campus, and if they tell one that Chatwoot's list has, it is the one the list
\* shows for it; campuses may share an entry of the list.
CampusIsNamed ==
    [][run.pc = "update" /\ run' # run /\ row'.university # row.university =>
          LET heard == Heard(run'.history)
              canon == Canonicalize(heard)
          IN  \/ heard \in Sentinels
              \/ canon.confidence = "none"
              \/ /\ canon.confidence = "campus"
                 /\ ListValue(canon.university) \in {Blank, ListValue(row'.university)}]_vars

\* The flag an agent dismissed stays suppressed once the webhooks are handled,
\* unless one was taken for the bot's own, the run moved the flag meanwhile, or
\* a handler read the row before an older webhook was stored.
DismissalKept ==
    /\ seen.dismissed # NoFlag /\ ~seen.skipped /\ ~seen.moved /\ ~seen.crossed
    /\ ~Pending
    => row.suppressed = seen.dismissed

\* docs/018: "same mismatch does not re-add" a flag an agent dismissed.  Without
\* the last excuse it is not so (_process_conversation_updated): the next webhook
\* may read the row between the two writes of the handler before it, finds the
\* label gone a second time and stores that nothing was dismissed.
DismissalSticks ==
    /\ seen.dismissed # NoFlag /\ ~seen.skipped /\ ~seen.moved
    /\ ~Pending
    => row.suppressed = seen.dismissed

\* Once the webhooks are handled the replica has Chatwoot's labels, unless one
\* was taken for the bot's own, or read the row before an older one was stored
\* (sync_conversation_labels_and_attributes stores whole sets of labels).
ReplicaFollows == ~Pending /\ ~seen.skipped /\ ~seen.crossed => row.labels = labels
=============================================================================
