----------------------------- MODULE FirstInstall -----------------------------
(***************************************************************************)
(* The USB first-install of a board: the Deploy sentant hands a slot to    *)
(* the flasher plugin through a one-request cell; the plugin runs esptool  *)
(* with a reader thread and a wait thread that report over a channel; the  *)
(* outcome comes back over the bus to Deploy and to the Roster sentant.    *)
(*                                                                         *)
(* The engine loop is one thread: what a handler asks of the plugin is     *)
(* done within the handler's step.  esptool and the two threads of every   *)
(* session run beside it.  `id` numbers the start requests; the code does  *)
(* not, and it is used only by the properties.                             *)
(*                                                                         *)
(* A definition named Mut... is a plausible bug in the one it precedes.    *)
(* No specification here uses it: it shows what a property would notice.   *)
(***************************************************************************)
EXTENDS Naturals, Sequences, FiniteSets

CONSTANTS
  Slots,      \* the slot_ids an operator may ask for
  None,       \* the absent value
  MaxStarts,  \* bound: start requests
  MaxLines    \* bound: lines a session reports

ASSUME FirstInstallAssumption ==
  /\ MaxStarts \in Nat /\ MaxLines \in Nat
  /\ None \notin Slots /\ None \notin 1..MaxStarts

VARIABLES
  roster,    \* disk: for each slot, "placeholder" or "flashed_pending_pk"
  hive,      \* engine loop: "drain", "tick" or "poll"
  bus,       \* the event queue
  deploy,    \* Deploy sentant: "idle" or "flashing"
  cell,      \* FlasherSlot: the FlashParams (their slot and request) or None
  rx,        \* flasher: the request whose session it listens to, or None
  channel,   \* the messages in the channel of that session
  session,   \* for each request, its esptool and its two threads
  asked,     \* the slots of the start requests so far
  answers    \* history: the outcomes broadcast to the webapp

vars == <<roster, hive, bus, deploy, cell, rx, channel, session, asked, answers>>
threads == <<session, channel>>

Requests == 1..MaxStarts
Params == [slot_id : Slots, id : Requests]
NoSession == [slot_id |-> None, child |-> "none", reader |-> "none", lines |-> 0]

Event(type, plugin, params) ==
  [type |-> type, plugin |-> plugin, slot_id |-> params.slot_id, id |-> params.id]
ParamsOf(i) == [slot_id |-> session[i].slot_id, id |-> i]

Init ==
  /\ roster = [s \in Slots |-> "placeholder"]
  /\ hive = "drain"
  /\ bus = << >>
  /\ deploy = "idle"
  /\ cell = None
  /\ rx = None
  /\ channel = << >>
  /\ session = [i \in Requests |-> NoSession]
  /\ asked = << >>
  /\ answers = << >>

-----------------------------------------------------------------------------
(* The engine loop. *)

\* The operator's request comes in with the drain of the inbound channel.
RequestStart(s) ==
  /\ hive = "drain"
  /\ Len(asked) < MaxStarts
  /\ asked' = Append(asked, s)
  /\ bus' = Append(bus, Event("start", TRUE, [slot_id |-> s, id |-> Len(asked) + 1]))
  /\ UNCHANGED <<roster, hive, deploy, cell, rx, threads, answers>>

DrainDone ==
  /\ hive = "drain"
  /\ hive' = "tick"
  /\ UNCHANGED <<roster, bus, deploy, cell, rx, threads, asked, answers>>

TickDone ==
  /\ hive = "tick" /\ bus = << >>
  /\ hive' = "poll"
  /\ UNCHANGED <<roster, bus, deploy, cell, rx, threads, asked, answers>>

\* A message that ends the session is forwarded, but the session is kept.
MutPoll ==
  /\ hive = "poll"
  /\ hive' = "drain"
  /\ IF channel = << >> THEN UNCHANGED <<bus, channel>>
     ELSE /\ bus' = Append(bus, Head(channel))
          /\ channel' = Tail(channel)
  /\ UNCHANGED <<roster, deploy, cell, rx, session, asked, answers>>

\* One message of the session; one that ends it lets go of the channel.
Poll ==
  /\ hive = "poll"
  /\ hive' = "drain"
  /\ IF channel = << >> THEN UNCHANGED <<bus, channel, rx>>
     ELSE /\ bus' = Append(bus, Head(channel))
          /\ IF Head(channel).type = "progress"
             THEN channel' = Tail(channel) /\ UNCHANGED rx
             ELSE channel' = << >> /\ rx' = None
  /\ UNCHANGED <<roster, deploy, cell, session, asked, answers>>

Handling(type) ==
  /\ hive = "tick"
  /\ bus # << >> /\ Head(bus).type = type
  /\ UNCHANGED <<hive, asked>>
Request == [slot_id |-> Head(bus).slot_id, id |-> Head(bus).id]

-----------------------------------------------------------------------------
(* Deploy::handle_start, and the CMD_START it ends with. *)

\* The board or the slot cannot be resolved: an error event is broadcast.
RefuseStart ==
  /\ Handling("start")
  /\ bus' = Append(Tail(bus), Event("error", FALSE, Request))
  /\ answers' = Append(answers, Event("error", FALSE, Request))
  /\ UNCHANGED <<roster, deploy, cell, rx, threads>>

\* A session is on: ERR_BUSY, which the bus ignores.  The params stay in the cell.
StartWhenBusy ==
  /\ Handling("start")
  /\ rx # None
  /\ bus' = Tail(bus)
  /\ cell' = Request
  /\ deploy' = "flashing"
  /\ UNCHANGED <<roster, rx, threads, answers>>

\* esptool cannot be run: ERR_SPAWN, which the bus ignores too.
SpawnFails ==
  /\ Handling("start")
  /\ rx = None
  /\ bus' = Tail(bus)
  /\ cell' = None
  /\ deploy' = "flashing"
  /\ UNCHANGED <<roster, rx, threads, answers>>

\* The params left behind by a busy start are not replaced.
MutSpawn ==
  LET params == IF cell = None THEN Request ELSE cell
  IN /\ Handling("start")
     /\ rx = None
     /\ bus' = Tail(bus)
     /\ cell' = None
     /\ deploy' = "flashing"
     /\ rx' = Request.id
     /\ channel' = << >>
     /\ session' = [session EXCEPT ![Request.id] =
          [slot_id |-> params.slot_id, child |-> "running", reader |-> "reading", lines |-> 0]]
     /\ UNCHANGED <<roster, answers>>

Spawn ==
  /\ Handling("start")
  /\ rx = None
  /\ bus' = Tail(bus)
  /\ cell' = None
  /\ deploy' = "flashing"
  /\ rx' = Request.id
  /\ channel' = << >>
  /\ session' = [session EXCEPT ![Request.id] =
       [slot_id |-> Request.slot_id, child |-> "running", reader |-> "reading", lines |-> 0]]
  /\ UNCHANGED <<roster, answers>>

-----------------------------------------------------------------------------
(* The events that come back.  Deploy broadcasts those of the plugin again,  *)
(* and a broadcast is also delivered locally; only the plugin's are acted on.*)

Again(event) == [event EXCEPT !.plugin = FALSE]

HandleProgress ==
  /\ Handling("progress")
  /\ bus' = IF Head(bus).plugin THEN Append(Tail(bus), Again(Head(bus))) ELSE Tail(bus)
  /\ UNCHANGED <<roster, deploy, cell, rx, threads, answers>>

\* The guard on the source of the event is gone.
MutHandleError ==
  /\ Handling("error")
  /\ deploy' = "idle"
  /\ bus' = Append(Tail(bus), Again(Head(bus)))
  /\ answers' = Append(answers, Again(Head(bus)))
  /\ UNCHANGED <<roster, cell, rx, threads>>

HandleError ==
  /\ Handling("error")
  /\ IF Head(bus).plugin
     THEN /\ deploy' = "idle"
          /\ bus' = Append(Tail(bus), Again(Head(bus)))
          /\ answers' = Append(answers, Again(Head(bus)))
     ELSE /\ bus' = Tail(bus)
          /\ UNCHANGED <<deploy, answers>>
  /\ UNCHANGED <<roster, cell, rx, threads>>

\* The slot is left half way, at built.
MutHandleDone ==
  /\ Handling("done")
  /\ deploy' = "idle"
  /\ bus' = Tail(bus)
  /\ roster' = [roster EXCEPT ![Head(bus).slot_id] = "built"]
  /\ UNCHANGED <<cell, rx, threads, answers>>

\* The Roster sentant takes the slot through built to flashed_pending_pk and
\* saves it; a failed save leaves the file as it was.
HandleDone ==
  /\ Handling("done")
  /\ IF Head(bus).plugin
     THEN /\ deploy' = "idle"
          /\ bus' = Append(Tail(bus), Again(Head(bus)))
          /\ answers' = Append(answers, Again(Head(bus)))
          /\ roster' \in {roster, [roster EXCEPT ![Head(bus).slot_id] = "flashed_pending_pk"]}
     ELSE /\ bus' = Tail(bus)
          /\ UNCHANGED <<roster, deploy, answers>>
  /\ UNCHANGED <<cell, rx, threads>>

-----------------------------------------------------------------------------
(* esptool and the threads of its session. *)

\* A message for a channel the plugin has let go of is lost.
Report(i, type) ==
  channel' = IF rx = i THEN Append(channel, Event(type, TRUE, ParamsOf(i))) ELSE channel
idle == <<roster, hive, bus, deploy, cell, rx, asked, answers>>

ReadLine(i) ==
  /\ session[i].reader = "reading" /\ session[i].lines < MaxLines
  /\ Report(i, "progress")
  /\ session' = [session EXCEPT ![i].lines = @ + 1]
  /\ UNCHANGED idle

\* A line that is not UTF-8, or a pipe that breaks, ends the reader with an error.
ReadFails(i) ==
  /\ session[i].reader = "reading"
  /\ Report(i, "error")
  /\ session' = [session EXCEPT ![i].reader = "ended"]
  /\ UNCHANGED idle

ReadEnds(i) ==
  /\ session[i].reader = "reading" /\ session[i].child # "running"
  /\ session' = [session EXCEPT ![i].reader = "ended"]
  /\ UNCHANGED <<idle, channel>>

ChildExits(i) ==
  /\ session[i].child = "running"
  /\ \E code \in {"succeeded", "failed"} : session' = [session EXCEPT ![i].child = code]
  /\ UNCHANGED <<idle, channel>>

\* The exit code is not looked at.
MutOutcome(i) == "done"

Outcome(i) == IF session[i].child = "succeeded" THEN "done" ELSE "error"

\* The wait thread does not join the reader.
MutWaitReports(i) ==
  /\ session[i].child \in {"succeeded", "failed"}
  /\ Report(i, Outcome(i))
  /\ session' = [session EXCEPT ![i].child = IF @ = "succeeded" THEN "flashed" ELSE "gone"]
  /\ UNCHANGED idle

\* The wait thread reports last, once esptool has exited and the reader ended.
WaitReports(i) ==
  /\ session[i].child \in {"succeeded", "failed"} /\ session[i].reader = "ended"
  /\ Report(i, Outcome(i))
  /\ session' = [session EXCEPT ![i].child = IF @ = "succeeded" THEN "flashed" ELSE "gone"]
  /\ UNCHANGED idle

Threads(i) == ReadLine(i) \/ ReadFails(i) \/ ReadEnds(i) \/ ChildExits(i) \/ WaitReports(i)
Starting == RefuseStart \/ StartWhenBusy \/ SpawnFails \/ Spawn
Hive == DrainDone \/ TickDone \/ Poll \/ Starting \/ HandleProgress \/ HandleError \/ HandleDone

Next ==
  \/ \E s \in Slots : RequestStart(s)
  \/ Hive
  \/ \E i \in Requests : Threads(i)

Spec == Init /\ [][Next]_vars

\* The engine loop and the threads run, and esptool exits.
Fairness == WF_vars(Hive) /\ \A i \in Requests : WF_vars(Threads(i))
FairSpec == Spec /\ Fairness

-----------------------------------------------------------------------------
(* Properties. *)

Events == [type : {"start", "progress", "done", "error"}, plugin : BOOLEAN,
           slot_id : Slots, id : Requests]

TypeOK ==
  /\ roster \in [Slots -> {"placeholder", "flashed_pending_pk"}]
  /\ hive \in {"drain", "tick", "poll"}
  /\ bus \in Seq(Events) /\ channel \in Seq(Events) /\ answers \in Seq(Events)
  /\ deploy \in {"idle", "flashing"}
  /\ cell \in Params \cup {None}
  /\ rx \in Requests \cup {None}
  /\ session \in [Requests ->
       [slot_id : Slots \cup {None},
        child : {"none", "running", "succeeded", "failed", "flashed", "gone"},
        reader : {"none", "reading", "ended"}, lines : 0..MaxLines]]
  /\ asked \in Seq(Slots) /\ Len(asked) <= MaxStarts

\* A slot waits for its board only if an esptool that was run for it succeeded,
\* however starts overlap and sessions outlive the plugin's interest in them.
FlashedSlotsWereWritten ==
  \A s \in Slots :
    roster[s] = "flashed_pending_pk" =>
      \E i \in Requests : session[i].slot_id = s /\ session[i].child = "flashed"

\* The webapp gets one outcome of a start request at most, although a session
\* can fail twice and every outcome passes the bus twice; it is for the slot that
\* the request asked for, although all requests go through one cell.
OneAnswerPerStart ==
  \A i, j \in DOMAIN answers :
    /\ answers[i].id = answers[j].id => i = j
    /\ answers[i].slot_id = asked[answers[i].id]

\* While the plugin listens to a session, Deploy shows it: no outcome of an
\* earlier session makes it idle.
ListeningIsFlashing == rx # None => deploy = "flashing"

\* The end of a session comes after all it has to say: no line follows an outcome,
\* and nothing follows a success; only a reader that failed is followed, by the
\* outcome the wait thread reports.
NothingAfterOutcome ==
  \A i, j \in DOMAIN channel :
    i < j => \/ channel[i].type = "progress"
             \/ channel[i].type = "error" /\ channel[j].type # "progress"

\* The plugin does not stay busy: every start after it would be dropped.
SessionEnds == []<>(rx = None)

\* What flasher.rs:33 says of the error event: a spawn that fails gives one.
SpawnFailureIsReported ==
  [][SpawnFails => bus' # Tail(bus) \/ answers' # answers]_vars
=============================================================================
