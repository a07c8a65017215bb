-------------------------- MODULE EnsembleSupervisor --------------------------
(***************************************************************************)
(* The supervisor of one loaded ensemble of r2-ensemble.  Callers dispatch *)
(* events to its sentants; a handler that panics makes its caller record   *)
(* the crash, gate the sentants the strategy names and spawn a task that   *)
(* rebuilds them after a back-off.  Callers, tasks and the operator run on *)
(* different threads: the ledger, the status, every gate and every sentant *)
(* has a lock of its own, held for one step here, and anything may come    *)
(* between two steps.                                                      *)
(*                                                                         *)
(* Times are kept relative to now: a gate is the time until it expires, a  *)
(* ledger entry is the age of a crash.                                     *)
(*                                                                         *)
(* A definition named Mut... is a plausible bug in the one it precedes.    *)
(* No specification here uses it: it shows what a property would notice.   *)
(***************************************************************************)
EXTENDS Subsequences, Integers, FiniteSets

CONSTANTS
  NumSentants,   \* the sentants, in the order of the score
  Callers,       \* threads that dispatch to the ensemble
  Tasks,         \* bound: restart tasks at one time
  Strategies,    \* the restart strategies to choose from
  Cap,           \* max_restarts
  Period,        \* length of the sliding window
  Base,          \* base_ms of the exponential back-off
  MaxDelay,      \* max_ms of the exponential back-off
  MaxCrashes,    \* bound: handlers that panic
  MaxResets,     \* bound: resets by the operator
  None           \* a gate that is not set

ASSUME SupervisionAssumption ==
  /\ NumSentants \in Nat \ {0} /\ Cap \in Nat /\ Period \in Nat
  /\ Base \in Nat /\ MaxDelay \in Nat
  /\ MaxCrashes \in Nat /\ MaxResets \in Nat
  /\ Strategies \subseteq {"one_for_one", "one_for_all", "rest_for_one"}
  /\ None \notin Int

Sentants == 1..NumSentants
InOrder == [s \in Sentants |-> s]

VARIABLES
  strategy,  \* the strategy this ensemble was loaded with
  status,    \* EnsembleStatus
  ledger,    \* ages of the recorded crashes, oldest record first
  gate,      \* for each sentant, restarting_until
  broken,    \* the sentants whose handler panicked and that were not built anew
  caller,    \* the threads inside dispatch_to
  task,      \* the spawned restart tasks
  operator,  \* the thread inside reset: what it does next
  crashes,   \* handlers that panicked so far
  resets,    \* resets so far
  granted,   \* history: ages of the crashes of this window answered with a restart
  failed,    \* history: a crash went over the cap since the last reset
  gaveUp     \* history: a task could not rebuild a sentant since the last reset

bounds == <<crashes, resets>>
history == <<granted, failed, gaveUp>>
vars == <<strategy, status, ledger, gate, broken, caller, task, operator, bounds, history>>

\* Crashes older than the window are not told apart.
Older(age) == IF age > Period THEN age ELSE age + 1
Ages == 0..(Period + 1)
Sooner(t) == IF t = 0 THEN 0 ELSE t - 1

IdleCaller == [pc |-> "idle", target |-> 1, age |-> 0, delay |-> 0, todo |-> << >>]
NoTask == [pc |-> "none", left |-> 0, todo |-> << >>]
NoReset == [pc |-> "idle", todo |-> << >>]

Init ==
  /\ strategy \in Strategies
  /\ status = "healthy"
  /\ ledger = << >>
  /\ gate = [s \in Sentants |-> None]
  /\ broken = {}
  /\ caller = [c \in Callers |-> IdleCaller]
  /\ task = [t \in Tasks |-> NoTask]
  /\ operator = NoReset
  /\ crashes = 0 /\ resets = 0
  /\ granted = << >> /\ failed = FALSE /\ gaveUp = FALSE

-----------------------------------------------------------------------------
(* supervision.rs: the back-off and the ledger. *)

Least(a, b) == IF a < b THEN a ELSE b
\* base_ms << n.
Shifted[n \in 0..31] == IF n = 0 THEN Base ELSE 2 * Shifted[n - 1]

\* The cap on the back-off is forgotten.
MutDelayFor(n) == Shifted[Least(n, 31)]
DelayFor(n) == Least(Shifted[Least(n, 31)], MaxDelay)

\* What is left of a ledger after the entries older than Period at the time
\* `age` ago have been taken off its front; an entry that is out of order keeps
\* those behind it.
Evicted(entries, age) ==
  LET live == {i \in DOMAIN entries : entries[i] - age <= Period}
      first == CHOOSE i \in live : \A j \in live : i <= j
  IN IF live = {} THEN << >> ELSE SubSeq(entries, first, Len(entries))

\* The ledger is looked at before the crash is recorded.
MutWouldExceed(entries) == Len(entries) > Cap
WouldExceed(entries) == Len(entries) >= Cap

-----------------------------------------------------------------------------
(* A caller in dispatch_to. *)

AtC(c, pc) == caller[c].pc = pc
GotoC(c, pc) == caller' = [caller EXCEPT ![c].pc = pc]
Gated(s) == gate[s] # None /\ gate[s] > 0

Leave(c) == caller' = [caller EXCEPT ![c] = IdleCaller]

\* A failed ensemble is skipped.
Admit(c, s) ==
  /\ AtC(c, "idle")
  /\ status # "failed"
  /\ caller' = [caller EXCEPT ![c] = [IdleCaller EXCEPT !.pc = "gate", !.target = s]]
  /\ UNCHANGED <<strategy, status, ledger, gate, broken, task, operator, bounds, history>>

\* A gated sentant gives Backpressure.  The lock on the gate is let go before
\* the handler runs.
PassGate(c) ==
  /\ AtC(c, "gate")
  /\ IF Gated(caller[c].target) THEN Leave(c) ELSE GotoC(c, "handle")
  /\ UNCHANGED <<strategy, status, ledger, gate, broken, task, operator, bounds, history>>

\* The handler runs with the sentant locked.
HandlerReturns(c) ==
  /\ AtC(c, "handle")
  /\ Leave(c)
  /\ UNCHANGED <<strategy, status, ledger, gate, broken, task, operator, bounds, history>>

HandlerPanics(c) ==
  /\ AtC(c, "handle")
  /\ crashes < MaxCrashes
  /\ crashes' = crashes + 1
  /\ broken' = broken \cup {caller[c].target}
  /\ GotoC(c, "record")
  /\ UNCHANGED <<strategy, status, ledger, gate, task, operator, resets, history>>

\* handle_crash: the crash is recorded and the cap looked at under one lock.
Record(c) ==
  LET entries == Append(Evicted(ledger, caller[c].age), caller[c].age)
  IN /\ AtC(c, "record")
     /\ ledger' = entries
     /\ IF WouldExceed(entries)
        THEN /\ GotoC(c, "fail")
             /\ failed' = TRUE
             /\ UNCHANGED granted
        ELSE /\ GotoC(c, "back_off")
             /\ granted' = IF caller[c].age > Period THEN granted
                            ELSE Append(granted, caller[c].age)
             /\ UNCHANGED failed
     /\ UNCHANGED <<strategy, status, gate, broken, task, operator, bounds, gaveUp>>

Fail(c) ==
  /\ AtC(c, "fail")
  /\ status' = "failed"
  /\ Leave(c)
  /\ UNCHANGED <<strategy, ledger, gate, broken, task, operator, bounds, history>>

\* The delay is that of the crashes live by now, whoever recorded them.
BackOff(c) ==
  LET entries == Evicted(ledger, caller[c].age)
      n == IF entries = << >> THEN 0 ELSE Len(entries) - 1
  IN /\ AtC(c, "back_off")
     /\ ledger' = entries
     /\ caller' = [caller EXCEPT ![c].pc = "degrade", ![c].delay = DelayFor(n)]
     /\ UNCHANGED <<strategy, status, gate, broken, task, operator, bounds, history>>

\* The rest is taken to start after the sentant that crashed.
MutAffected(s) ==
  CASE strategy = "one_for_one"  -> <<s>>
    [] strategy = "one_for_all"  -> InOrder
    [] strategy = "rest_for_one" -> SubSeq(InOrder, Least(s + 1, NumSentants), NumSentants)

\* Every policy is Permanent: build_instance gives no other.
Affected(s) ==
  CASE strategy = "one_for_one"  -> <<s>>
    [] strategy = "one_for_all"  -> InOrder
    [] strategy = "rest_for_one" -> SubSeq(InOrder, s, NumSentants)

Degrade(c) ==
  /\ AtC(c, "degrade")
  /\ status' = "degraded"
  /\ caller' = [caller EXCEPT ![c].pc = "set_gates",
                              ![c].todo = Affected(caller[c].target)]
  /\ UNCHANGED <<strategy, ledger, gate, broken, task, operator, bounds, history>>

\* The gates expire one delay after the crash, and are set one at a time: the
\* caller holds how many are set in the length of its todo.
GateExpiry(c) ==
  IF caller[c].delay > caller[c].age THEN caller[c].delay - caller[c].age ELSE 0

SetGate(c) ==
  /\ AtC(c, "set_gates")
  /\ gate' = [gate EXCEPT ![Head(caller[c].todo)] = GateExpiry(c)]
  /\ caller' = [caller EXCEPT ![c].todo = Tail(@),
                  ![c].pc = IF Len(caller[c].todo) = 1 THEN "spawn" ELSE "set_gates"]
  /\ UNCHANGED <<strategy, status, ledger, broken, task, operator, bounds, history>>

Spawn(c) ==
  /\ AtC(c, "spawn")
  /\ \E t \in Tasks :
       /\ task[t].pc = "none"
       /\ \A u \in Tasks : task[u].pc = "none" => t <= u
       /\ task' = [task EXCEPT ![t] = [pc |-> "sleep", left |-> caller[c].delay,
                                       todo |-> Affected(caller[c].target)]]
  /\ Leave(c)
  /\ UNCHANGED <<strategy, status, ledger, gate, broken, operator, bounds, history>>

-----------------------------------------------------------------------------
(* A restart task. *)

AtT(t, pc) == task[t].pc = pc
End(t) == task' = [task EXCEPT ![t] = NoTask]

\* The sleep is over, or the sentant before this one is done.
Building(t) == AtT(t, "build") \/ (AtT(t, "sleep") /\ task[t].left = 0)

\* The new sentant replaces the old one and is initialised, its lock held; an
\* init that panics is ignored.
Swap(t) ==
  /\ Building(t)
  /\ broken' = broken \ {Head(task[t].todo)}
  /\ task' = [task EXCEPT ![t].pc = "clear"]
  /\ UNCHANGED <<strategy, status, ledger, gate, caller, operator, bounds, history>>

\* No factory builds it: the task gives up, the gates stay as they are.
BuildFails(t) ==
  /\ Building(t)
  /\ status' = "failed"
  /\ gaveUp' = TRUE
  /\ End(t)
  /\ UNCHANGED <<strategy, ledger, gate, broken, caller, operator, bounds, granted, failed>>

\* Only the first of the sentants is gone through.
MutClearGate(t) ==
  /\ AtT(t, "clear")
  /\ gate' = [gate EXCEPT ![Head(task[t].todo)] = None]
  /\ task' = [task EXCEPT ![t].todo = << >>, ![t].pc = "check"]
  /\ UNCHANGED <<strategy, status, ledger, broken, caller, operator, bounds, history>>

ClearGate(t) ==
  /\ AtT(t, "clear")
  /\ gate' = [gate EXCEPT ![Head(task[t].todo)] = None]
  /\ task' = [task EXCEPT ![t].todo = Tail(@),
                ![t].pc = IF Len(task[t].todo) = 1 THEN "check" ELSE "build"]
  /\ UNCHANGED <<strategy, status, ledger, broken, caller, operator, bounds, history>>

\* A gate that has expired counts: only a task or a reset takes it away.
MutCheck(t) ==
  /\ AtT(t, "check")
  /\ IF (\A s \in Sentants : gate[s] = None) /\ status = "healthy"
     THEN task' = [task EXCEPT ![t].pc = "restore"]
     ELSE End(t)
  /\ UNCHANGED <<strategy, status, ledger, gate, broken, caller, operator, bounds, history>>

Check(t) ==
  /\ AtT(t, "check")
  /\ IF (\A s \in Sentants : gate[s] = None) /\ status # "failed"
     THEN task' = [task EXCEPT ![t].pc = "restore"]
     ELSE End(t)
  /\ UNCHANGED <<strategy, status, ledger, gate, broken, caller, operator, bounds, history>>

Restore(t) ==
  /\ AtT(t, "restore")
  /\ status' = "healthy"
  /\ End(t)
  /\ UNCHANGED <<strategy, ledger, gate, broken, caller, operator, bounds, history>>

-----------------------------------------------------------------------------
(* The operator resets the ensemble, which is not checked to have failed.  A *)
(* sentant no factory builds any more is left as it is; its gate is cleared  *)
(* all the same.                                                             *)

ClearLedger ==
  /\ operator.pc = "idle"
  /\ resets < MaxResets
  /\ resets' = resets + 1
  /\ ledger' = << >>
  /\ operator' = [pc |-> "build", todo |-> InOrder]
  /\ granted' = << >> /\ failed' = FALSE /\ gaveUp' = FALSE
  /\ UNCHANGED <<strategy, status, gate, broken, caller, task, crashes>>

ResetSwap ==
  /\ operator.pc = "build"
  /\ operator' = [operator EXCEPT !.pc = "clear"]
  /\ \/ broken' = broken \ {Head(operator.todo)} /\ UNCHANGED gaveUp
     \/ gaveUp' = TRUE /\ UNCHANGED broken
  /\ UNCHANGED <<strategy, status, ledger, gate, caller, task, bounds, granted, failed>>

ResetGate ==
  /\ operator.pc = "clear"
  /\ gate' = [gate EXCEPT ![Head(operator.todo)] = None]
  /\ operator' = [pc |-> IF Len(operator.todo) = 1 THEN "restore" ELSE "build",
                  todo |-> Tail(operator.todo)]
  /\ UNCHANGED <<strategy, status, ledger, broken, caller, task, bounds, history>>

ResetRestore ==
  /\ operator.pc = "restore"
  /\ status' = "healthy"
  /\ operator' = NoReset
  /\ UNCHANGED <<strategy, ledger, gate, broken, caller, task, bounds, history>>

-----------------------------------------------------------------------------
Tick ==
  /\ ledger' = [i \in DOMAIN ledger |-> Older(ledger[i])]
  /\ granted' = ElementsAt([i \in DOMAIN granted |-> granted[i] + 1],
                           {i \in DOMAIN granted : granted[i] < Period})
  /\ gate' = [s \in Sentants |-> IF gate[s] = None THEN None ELSE Sooner(gate[s])]
  /\ task' = [t \in Tasks |-> [task[t] EXCEPT !.left = Sooner(@)]]
  /\ caller' = [c \in Callers |->
                 IF caller[c].pc \in {"record", "fail", "back_off", "degrade", "set_gates"}
                 THEN [caller[c] EXCEPT !.age = Older(@)] ELSE caller[c]]
  /\ UNCHANGED <<strategy, status, broken, operator, bounds, failed, gaveUp>>

Dispatch(c) ==
  \/ PassGate(c) \/ HandlerReturns(c)
  \/ Record(c) \/ Fail(c) \/ BackOff(c) \/ Degrade(c) \/ SetGate(c) \/ Spawn(c)
Restarting(t) == Swap(t) \/ ClearGate(t) \/ Check(t) \/ Restore(t)
Resetting == ResetSwap \/ ResetGate \/ ResetRestore

Next ==
  \/ \E c \in Callers : (\E s \in Sentants : Admit(c, s)) \/ Dispatch(c) \/ HandlerPanics(c)
  \/ \E t \in Tasks : Restarting(t) \/ BuildFails(t)
  \/ ClearLedger \/ Resetting
  \/ Tick

Spec == Init /\ [][Next]_vars

-----------------------------------------------------------------------------
(* Properties. *)

TypeOK ==
  /\ strategy \in Strategies
  /\ status \in {"healthy", "degraded", "failed"}
  /\ ledger \in Seq(Ages) /\ granted \in Seq(Ages)
  /\ gate \in [Sentants -> 0..MaxDelay \cup {None}]
  /\ broken \subseteq Sentants
  /\ caller \in [Callers ->
       [pc : {"idle", "gate", "handle", "record", "fail", "back_off", "degrade",
              "set_gates", "spawn"},
        target : Sentants, age : Ages, delay : 0..MaxDelay, todo : Seq(Sentants)]]
  /\ task \in [Tasks ->
       [pc : {"none", "sleep", "build", "clear", "check", "restore"},
        left : 0..MaxDelay, todo : Seq(Sentants)]]
  /\ operator \in [pc : {"idle", "build", "clear", "restore"}, todo : Seq(Sentants)]
  /\ crashes \in 0..MaxCrashes /\ resets \in 0..MaxResets
  /\ failed \in BOOLEAN /\ gaveUp \in BOOLEAN

Among(s, todo) == \E i \in DOMAIN todo : todo[i] = s
\* Somebody is on the way to rebuild s: a task, a caller about to spawn one, or
\* the operator.
WillRebuild(s) ==
  \/ \E t \in Tasks :
       \/ task[t].pc \in {"sleep", "build"} /\ Among(s, task[t].todo)
       \/ task[t].pc = "clear" /\ Among(s, Tail(task[t].todo))
  \/ \E c \in Callers :
       caller[c].pc \in {"set_gates", "spawn"} /\ Among(s, Affected(caller[c].target))
  \/ operator.pc = "build" /\ Among(s, operator.todo)
  \/ operator.pc = "clear" /\ Among(s, Tail(operator.todo))
WillClear(s) ==
  \/ \E t \in Tasks : task[t].pc = "clear" /\ Head(task[t].todo) = s
  \/ operator.pc = "clear" /\ Head(operator.todo) = s

\* No sentant stays behind a gate with nobody on the way to lift it, unless a
\* task gave up, whatever restarts overlap.
GatesAreLifted ==
  \A s \in Sentants : gate[s] # None => WillRebuild(s) \/ WillClear(s) \/ gaveUp

\* A sentant whose handler panicked is rebuilt, unless the ensemble failed or a
\* task gave up: no overlapping restart takes the crash for its own and drops it.
PanickedAreRebuilt ==
  \A s \in broken :
    \/ WillRebuild(s) \/ failed \/ gaveUp
    \/ \E c \in Callers : caller[c].target = s /\ caller[c].pc \in {"record", "back_off", "degrade"}

\* However crashes and reorderings of their times overlap, fewer than Cap
\* crashes in one window are answered with a restart.
IntensityRespected ==
  granted # << >> => Len(granted) < Cap

\* Once no restart and no reset is under way the ensemble is not left degraded, unless a task
\* gave up: whichever of the overlapping restarts ends last sees no gate.
Settled ==
  /\ \A t \in Tasks : task[t].pc = "none"
  /\ \A c \in Callers : caller[c].pc \in {"idle", "gate", "handle"}
  /\ operator.pc = "idle"
SettledIsNotDegraded == Settled => status # "degraded" \/ gaveUp

\* What README.md:117 and the comment tests/supervision.rs:89 say: the ensemble
\* fails once more crashes than max_restarts are live in the window.
EscalatesOnlyOverCap ==
  [][\A c \in Callers : Record(c) /\ caller'[c].pc = "fail" => Len(ledger') > Cap]_vars

\* What supervision.rs:177 says of Failed: operator action is required.
FailedIsSticky ==
  [][status = "failed" /\ status' # "failed" => ResetRestore]_vars
=============================================================================
