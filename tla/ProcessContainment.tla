------------------------- MODULE ProcessContainment -------------------------
(***************************************************************************)
(* The processes of one execution (backend/app/pipeline/sensor_process.py, *)
(* bluescrub/isolation/launch.py, bluescrub/isolation/runner.py).          *)
(*                                                                         *)
(* The executor launches handlers, and a handler may launch an analyzer,   *)
(* each the leader of a new session.  A launch leaves a receipt: first an  *)
(* intent, then the identity that the new process publishes itself before  *)
(* it does any work.  The executor's final reap works from its list of     *)
(* children and from the receipts; a supervisor that stops the executor    *)
(* works from the receipts alone.                                          *)
(*                                                                         *)
(* A scan of /proc first lists identifiers and then reads each; processes  *)
(* fork and exit in between.  A reused identifier is a conflict to every   *)
(* reader, which ends like any other failure of a drain.                   *)
(***************************************************************************)
EXTENDS Naturals, FiniteSets

CONSTANTS Executor,     \* the root process of the execution
          Handler,      \* launches with a receipt; each names its session's leader
          Launcher,     \* who launches each: Executor or another handler
          Child,        \* other processes, forked by one of the above
          Supervisor,   \* the drain of stop_executor
          Reaper,       \* the drain of reap_run_processes
          None,
          MaxEvasions   \* bound: scans of a drain, in a row, that a process slips through

ASSUME LauncherAssumption == Launcher \in [Handler -> Handler \cup {Executor}]
ASSUME BoundAssumption == MaxEvasions \in Nat
ASSUME DistinctAssumption ==
    /\ Executor \notin Handler \cup Child
    /\ Handler \cap Child = {}
    /\ None \notin {Executor} \cup Handler
    /\ Supervisor # Reaper
    /\ {Supervisor, Reaper} \cap Handler = {}

Process == {Executor} \cup Handler \cup Child
Session == {Executor} \cup Handler
Drainer == {Supervisor, Reaper} \cup Handler   \* a handler: the drain by its launcher

VARIABLES proc,     \* "none", "running", "stopped" or "dead"
          session,  \* of a forked process
          stage,    \* of a handler: in its bootstrap, or at work
          record,   \* its receipt: "none", "launching" or "published"
          cancel,   \* control/cancel.requested
          launch,   \* the launching thread of each handler
          tracked,  \* _children
          reap,     \* reap_run_processes in the executor
          stop,     \* stop_executor in its own process
          drain     \* the drains under way

processes == <<proc, session, stage>>
vars == <<processes, record, cancel, launch, tracked, reap, stop, drain>>

(* listed: what the scan under way has listed; made: those that have forked  *)
(* or launched since; stable: found stopped by the pass before; empty: the  *)
(* pass before found nothing; evaded: how many scans in a row were evaded.  *)
NoDrain == [pc |-> "off", listed |-> {}, made |-> {}, evaded |-> 0,
            stable |-> {}, empty |-> FALSE]

Init ==
    /\ proc = [p \in Process |-> IF p = Executor THEN "running" ELSE "none"]
    /\ session = [c \in Child |-> None]
    /\ stage = [h \in Handler |-> "bootstrap"]
    /\ record = [h \in Handler |-> "none"]
    /\ cancel = FALSE
    /\ launch = [h \in Handler |-> "idle"]
    /\ tracked = {}
    /\ reap = [pc |-> "off", todo |-> {}, at |-> None]
    /\ stop = [pc |-> "off", groups |-> {}]
    /\ drain = [d \in Drainer |-> NoDrain]

-----------------------------------------------------------------------------
(* Processes *)

Alive(p) == proc[p] \in {"running", "stopped"}
SessionOf(p) == IF p \in Child THEN session[p] ELSE p
Members(S) == {p \in Process : Alive(p) /\ SessionOf(p) \in S}

(* Runs code of the program, not only the bootstrap of a launch *)
Works(p) == proc[p] = "running" /\ (p \in Handler => stage[p] = "work")

Makes(p) ==
    drain' = [d \in Drainer |-> IF p \in drain[d].listed
                                THEN [drain[d] EXCEPT !.made = @ \cup {p}]
                                ELSE drain[d]]

Fork(p, c) ==
    /\ Works(p)
    /\ proc[c] = "none"
    /\ proc' = [proc EXCEPT ![c] = "running"]
    /\ session' = [session EXCEPT ![c] = SessionOf(p)]
    /\ Makes(p)
    /\ UNCHANGED <<stage, record, cancel, launch, tracked, reap, stop>>

(* A process ends by itself, by a signal, or by a crash; one that is        *)
(* stopped is only killed, by a drain.                                      *)
Exit(p) ==
    /\ proc[p] = "running"
    /\ proc' = [proc EXCEPT ![p] = "dead"]
    /\ UNCHANGED <<session, stage, record, cancel, launch, tracked, reap, stop, drain>>

(* request_cancel_file, by the heartbeat or by a supervisor *)
Cancel ==
    /\ ~cancel
    /\ cancel' = TRUE
    /\ UNCHANGED <<processes, record, launch, tracked, reap, stop, drain>>

-----------------------------------------------------------------------------
(* One scan of a drain: the sessions are listed, then read; what was        *)
(* running is stopped, what was stopped twice is killed.                    *)

List(d, S) ==
    drain' = [drain EXCEPT ![d].pc = "read", ![d].listed = Members(S)]

Items(d) == {p \in drain[d].listed : Alive(p)}
AllStopped(d) == \A p \in Items(d) : proc[p] = "stopped"

\* Mutant: one empty scan is enough.
Proved_Once(d) == Items(d) = {}

(* Two scans in a row found nothing. *)
Proved(d) == Items(d) = {} /\ drain[d].empty

Signal(d) ==
    proc' = [p \in Process |->
                IF p \notin Items(d) THEN proc[p]
                ELSE IF AllStopped(d) /\ drain[d].stable = Items(d) THEN "dead"
                ELSE "stopped"]

(* A process that made another after it was listed, and is dead before it   *)
(* is read, slips through the scan: neither it nor the other is seen.       *)
Slips(d) == \E p \in drain[d].made : ~Alive(p)
Bounded(d) == Slips(d) => drain[d].evaded < MaxEvasions

(* A pass of drain_processes that does not end it *)
Pass(d) ==
    /\ drain[d].pc = "read"
    /\ Bounded(d)
    /\ ~Proved(d)
    /\ Signal(d)
    /\ drain' = [drain EXCEPT ![d] =
                    [pc |-> "list", listed |-> {}, made |-> {}, empty |-> Items(d) = {},
                     evaded |-> IF Slips(d) THEN @.evaded + 1 ELSE 0,
                     stable |-> IF Items(d) = {} THEN @.stable
                                ELSE IF AllStopped(d) /\ @.stable # Items(d) THEN Items(d)
                                ELSE {}]]
    /\ UNCHANGED <<session, stage>>

Starts(d) == drain' = [drain EXCEPT ![d] = [NoDrain EXCEPT !.pc = "list"]]

(* The drain returns, or gives up at its deadline *)
Returns(d) ==
    /\ drain[d].pc = "read"
    /\ Bounded(d)
    /\ Proved(d)
    /\ drain' = [drain EXCEPT ![d] = NoDrain]
    /\ UNCHANGED processes

GivesUp(d) ==
    /\ drain[d].pc = "list"
    /\ drain' = [drain EXCEPT ![d] = NoDrain]
    /\ UNCHANGED processes

-----------------------------------------------------------------------------
(* Launch: run_tracked_process in a thread of the executor, run_analyzer in *)
(* a handler                                                                *)

Top(h) == Launcher[h] = Executor

(* _children_lock is held from the intent to the registration *)
LockFree == \A h \in Handler : Top(h) => launch[h] \notin {"intent", "spawned"}

LaunchCheck(h) ==
    /\ launch[h] = "idle"
    /\ Top(h) /\ Works(Executor) /\ ~cancel
    /\ launch' = [launch EXCEPT ![h] = "checked"]
    /\ UNCHANGED <<processes, record, cancel, tracked, reap, stop, drain>>

(* The second checkpoint is under the lock; an analyzer has neither. *)
LaunchIntent(h) ==
    /\ Works(Launcher[h])
    /\ IF Top(h)
       THEN launch[h] = "checked" /\ LockFree /\ ~cancel
       ELSE launch[h] = "idle"
    /\ record[h] = "none"
    /\ record' = [record EXCEPT ![h] = "launching"]
    /\ launch' = [launch EXCEPT ![h] = "intent"]
    /\ UNCHANGED <<processes, cancel, tracked, reap, stop, drain>>

(* Popen, which may fail *)
LaunchSpawn(h) ==
    /\ launch[h] = "intent"
    /\ Works(Launcher[h])
    /\ \/ /\ proc' = [proc EXCEPT ![h] = "running"]
          /\ Makes(Launcher[h])
          /\ launch' = [launch EXCEPT ![h] = "spawned"]
       \/ /\ launch' = [launch EXCEPT ![h] = "failed"]
          /\ UNCHANGED <<proc, drain>>
    /\ UNCHANGED <<session, stage, record, cancel, tracked, reap, stop>>

(* launch.py main: the identity is published, then the request to cancel is *)
(* looked for, then the handler is executed                                 *)
Publish(h) ==
    /\ proc[h] = "running" /\ stage[h] = "bootstrap"
    /\ record[h] = "launching"
    /\ record' = [record EXCEPT ![h] = "published"]
    /\ UNCHANGED <<processes, cancel, launch, tracked, reap, stop, drain>>

\* Mutant: whoever has published itself goes on.
Execute_Canceled(h) ==
    /\ proc[h] = "running" /\ stage[h] = "bootstrap"
    /\ record[h] = "published"
    /\ stage' = [stage EXCEPT ![h] = "work"]
    /\ UNCHANGED <<proc, session, record, cancel, launch, tracked, reap, stop, drain>>

Execute(h) ==
    /\ proc[h] = "running" /\ stage[h] = "bootstrap"
    /\ record[h] = "published"
    /\ ~cancel
    /\ stage' = [stage EXCEPT ![h] = "work"]
    /\ UNCHANGED <<proc, session, record, cancel, launch, tracked, reap, stop, drain>>

\* Mutant: whoever launched it, the child is the executor's to reap.
LaunchSeen_AllTracked(h) ==
    /\ launch[h] = "spawned"
    /\ Works(Launcher[h])
    /\ record[h] = "published"
    /\ launch' = [launch EXCEPT ![h] = "waiting"]
    /\ tracked' = tracked \cup {h}
    /\ UNCHANGED <<processes, record, cancel, reap, stop, drain>>

(* The launcher reads its child's identity and registers it. *)
LaunchSeen(h) ==
    /\ launch[h] = "spawned"
    /\ Works(Launcher[h])
    /\ record[h] = "published"
    /\ launch' = [launch EXCEPT ![h] = "waiting"]
    /\ tracked' = IF Top(h) THEN tracked \cup {h} ELSE tracked
    /\ UNCHANGED <<processes, record, cancel, reap, stop, drain>>

(* No identity in time, or the bootstrap is dead: the receipt stays. *)
LaunchLost(h) ==
    /\ launch[h] = "spawned"
    /\ Works(Launcher[h])
    /\ record[h] = "launching"
    /\ launch' = [launch EXCEPT ![h] = "failed"]
    /\ UNCHANGED <<processes, record, cancel, tracked, reap, stop, drain>>

\* Mutant: the receipt goes first.
LaunchEnds_Unlinked(h) ==
    /\ launch[h] = "waiting"
    /\ Works(Launcher[h])
    /\ Top(h) => reap.at # h
    /\ Starts(h)
    /\ launch' = [launch EXCEPT ![h] = "reaping"]
    /\ record' = [record EXCEPT ![h] = "none"]
    /\ UNCHANGED <<processes, cancel, tracked, reap, stop>>

(* The leader ends, its time is up, or a checkpoint raises: the group is    *)
(* reaped, by one thread at a time (TrackedChild.lock), and once.           *)
LaunchEnds(h) ==
    /\ launch[h] = "waiting"
    /\ Works(Launcher[h])
    /\ Top(h) => reap.at # h
    /\ Starts(h)
    /\ launch' = [launch EXCEPT ![h] = "reaping"]
    /\ UNCHANGED <<processes, record, cancel, tracked, reap, stop>>

LaunchDrains(h) ==
    /\ launch[h] = "reaping"
    /\ Works(Launcher[h])
    /\ \/ drain[h].pc = "list" /\ List(h, {h}) /\ UNCHANGED processes
       \/ Pass(h)
    /\ UNCHANGED <<record, cancel, launch, tracked, reap, stop>>

LaunchReaped(h) ==
    /\ launch[h] = "reaping"
    /\ Works(Launcher[h])
    /\ \/ /\ Returns(h)
          /\ record' = [record EXCEPT ![h] = "none"]
          /\ tracked' = tracked \ {h}
          /\ launch' = [launch EXCEPT ![h] = "done"]
       \/ /\ GivesUp(h)
          /\ launch' = [launch EXCEPT ![h] = "failed"]
          /\ UNCHANGED <<record, tracked>>
    /\ UNCHANGED <<cancel, reap, stop>>

-----------------------------------------------------------------------------
(* reap_run_processes, in the executor *)

Reaping(pc) == reap.pc = pc /\ Works(Executor)

ReapBegin ==
    /\ Reaping("off")
    /\ cancel' = TRUE
    /\ reap' = [reap EXCEPT !.pc = "begun"]
    /\ UNCHANGED <<processes, record, launch, tracked, stop, drain>>

(* Under the lock *)
ReapChildren ==
    /\ Reaping("begun")
    /\ LockFree
    /\ reap' = [reap EXCEPT !.pc = "children", !.todo = tracked]
    /\ UNCHANGED <<processes, record, cancel, launch, tracked, stop, drain>>

(* A child that its own launcher has reaped meanwhile needs no more. *)
ReapChild(h) ==
    /\ Reaping("children") /\ reap.at = None
    /\ h \in reap.todo
    /\ launch[h] # "reaping"
    /\ IF h \in tracked
       THEN reap' = [reap EXCEPT !.at = h] /\ Starts(Reaper)
       ELSE reap' = [reap EXCEPT !.todo = @ \ {h}] /\ UNCHANGED drain
    /\ UNCHANGED <<processes, record, cancel, launch, tracked, stop>>

\* Mutant: only the children are reaped.
ReapRecords_None ==
    /\ Reaping("children") /\ reap.todo = {}
    /\ reap' = [reap EXCEPT !.pc = "records"]
    /\ UNCHANGED <<processes, record, cancel, launch, tracked, stop, drain>>

ReapRecords ==
    /\ Reaping("children") /\ reap.todo = {}
    /\ reap' = [reap EXCEPT !.pc = "records", !.todo = {h \in Handler : record[h] # "none"}]
    /\ UNCHANGED <<processes, record, cancel, launch, tracked, stop, drain>>

(* A receipt that has gone is skipped; an intent makes the reap incomplete. *)
ReapRecord(h) ==
    /\ Reaping("records") /\ reap.at = None
    /\ h \in reap.todo
    /\ \/ /\ record[h] = "none"
          /\ reap' = [reap EXCEPT !.todo = @ \ {h}]
          /\ UNCHANGED drain
       \/ /\ record[h] = "launching"
          /\ reap' = [pc |-> "off", todo |-> {}, at |-> None]
          /\ UNCHANGED drain
       \/ /\ record[h] = "published"
          /\ reap' = [reap EXCEPT !.at = h]
          /\ Starts(Reaper)
    /\ UNCHANGED <<processes, record, cancel, launch, tracked, stop>>

ReapDrains ==
    /\ Works(Executor) /\ reap.at # None
    /\ \/ drain[Reaper].pc = "list" /\ List(Reaper, {reap.at}) /\ UNCHANGED processes
       \/ Pass(Reaper)
    /\ UNCHANGED <<record, cancel, launch, tracked, reap, stop>>

Reaped ==
    /\ Works(Executor) /\ reap.at # None
    /\ \/ /\ Returns(Reaper)
          /\ record' = [record EXCEPT ![reap.at] = "none"]
          /\ tracked' = tracked \ {reap.at}
          /\ launch' = [launch EXCEPT ![reap.at] =
                            IF reap.pc = "children" /\ @ = "waiting" THEN "done" ELSE @]
          /\ reap' = [reap EXCEPT !.todo = @ \ {reap.at}, !.at = None]
       \/ /\ GivesUp(Reaper)
          /\ reap' = [pc |-> "off", todo |-> {}, at |-> None]
          /\ UNCHANGED <<record, tracked, launch>>
    /\ UNCHANGED <<cancel, stop>>

ReapDone ==
    /\ Reaping("records") /\ reap.todo = {}
    /\ reap' = [reap EXCEPT !.pc = "done"]
    /\ UNCHANGED <<processes, record, cancel, launch, tracked, stop, drain>>

-----------------------------------------------------------------------------
(* stop_executor, in a process of its own *)

(* The exact root is stopped before anything is looked for. *)
StopBegin ==
    /\ stop.pc = "off"
    /\ stop' = [pc |-> "stopping", groups |-> {}]
    /\ proc' = [proc EXCEPT ![Executor] = IF @ = "running" THEN "stopped" ELSE @]
    /\ Starts(Supervisor)
    /\ UNCHANGED <<session, stage, record, cancel, launch, tracked, reap>>

Boundaries == {h \in Handler : record[h] = "published"}

(* snapshot: every pass reads the receipts again, and keeps what it found *)
Rescan ==
    /\ \A h \in Handler : record[h] # "launching"
    /\ stop' = [stop EXCEPT !.groups = @ \cup {Executor} \cup Boundaries]

StopDrains ==
    /\ stop.pc = "stopping"
    /\ \/ /\ drain[Supervisor].pc = "list"
          /\ Rescan
          /\ List(Supervisor, stop'.groups)
          /\ UNCHANGED processes
       \/ Pass(Supervisor) /\ UNCHANGED stop
    /\ UNCHANGED <<record, cancel, launch, tracked, reap>>

(* "matching" or "absent" *)
StopProves ==
    /\ stop.pc = "stopping"
    /\ Returns(Supervisor)
    /\ stop' = [stop EXCEPT !.pc = "proved"]
    /\ UNCHANGED <<record, cancel, launch, tracked, reap>>

(* "unavailable" or "conflict": a pending intent, the deadline, or an       *)
(* identity that cannot be confirmed.  A later attempt starts again.        *)
StopFails ==
    /\ stop.pc = "stopping"
    /\ GivesUp(Supervisor)
    /\ stop' = [pc |-> "off", groups |-> {}]
    /\ UNCHANGED <<record, cancel, launch, tracked, reap>>

Next ==
    \/ \E p \in Process : Exit(p) \/ \E c \in Child : Fork(p, c)
    \/ Cancel
    \/ \E h \in Handler :
          \/ LaunchCheck(h) \/ LaunchIntent(h) \/ LaunchSpawn(h) \/ Publish(h) \/ Execute(h)
          \/ LaunchSeen(h) \/ LaunchLost(h) \/ LaunchEnds(h) \/ LaunchDrains(h) \/ LaunchReaped(h)
          \/ ReapChild(h) \/ ReapRecord(h)
    \/ ReapBegin \/ ReapChildren \/ ReapRecords \/ ReapDrains \/ Reaped \/ ReapDone
    \/ StopBegin \/ StopDrains \/ StopProves \/ StopFails

Spec == Init /\ [][Next]_vars

-----------------------------------------------------------------------------
(* What containment promises *)

(* Every variable holds values of its type; a forked process belongs to the *)
(* session of a launched one, and only a launched process has a session.    *)
TypeOK ==
    /\ proc \in [Process -> {"none", "running", "stopped", "dead"}]
    /\ session \in [Child -> Session \cup {None}]
    /\ stage \in [Handler -> {"bootstrap", "work"}]
    /\ record \in [Handler -> {"none", "launching", "published"}]
    /\ cancel \in BOOLEAN
    /\ launch \in [Handler -> {"idle", "checked", "intent", "spawned", "waiting", "reaping",
                               "failed", "done"}]
    /\ tracked \subseteq {h \in Handler : Top(h)}
    /\ reap \in [pc : {"off", "begun", "children", "records", "done"}, todo : SUBSET Handler,
                 at : Handler \cup {None}]
    /\ stop \in [pc : {"off", "stopping", "proved"}, groups : SUBSET Session]
    /\ drain \in [Drainer -> [pc : {"off", "list", "read"}, listed : SUBSET Process,
                              made : SUBSET Process, evaded : 0 .. MaxEvasions,
                              stable : SUBSET Process, empty : BOOLEAN]]
    /\ \A c \in Child : session[c] = None <=> proc[c] = "none"

(* A bootstrap does no work. *)
Active(p) == Alive(p) /\ (p \in Handler => stage[p] = "work")

(* A process that works for a launch can be found by whoever comes later:   *)
(* as long as one of its session lives, its receipt with the published      *)
(* identity is there, whatever the launcher, the reaper and a supervisor    *)
(* do at the same time or leave unfinished.                                 *)
Receipted ==
    \A p \in Process :
        Active(p) /\ SessionOf(p) \in Handler => record[SessionOf(p)] = "published"

(* "Prove receipt-bearing session quiescence" (reap_run_processes): once    *)
(* the reap has returned, no process of a handler works, and none comes to  *)
(* work later, from a launch that was under way in another thread, in a     *)
(* handler, or in a bootstrap that was lost.                                *)
ReapProof ==
    reap.pc = "done" =>
        \A p \in Process : Alive(p) /\ SessionOf(p) \in Handler => p \in Handler /\ stage[p] = "bootstrap"

(* "Empty ancestry is never sufficient" (stop_executor): on a verdict of    *)
(* "matching" or "absent" nothing of the execution is alive, and nothing    *)
(* comes alive later.                                                       *)
StopProof == stop.pc = "proved" => \A p \in Process : ~Alive(p)

(* The sessions that a drain is to empty *)
Drained(d) == IF d = Supervisor THEN stop.groups
              ELSE {IF d = Reaper THEN reap.at ELSE d}

(* "Prove no live members remain" (drain_processes): when a drain returns,  *)
(* without an exception, no process of its sessions is alive, also none     *)
(* that a process has made which it never saw ("session membership survives *)
(* double-fork", session_members).                                          *)
DrainProves ==
    [][\A d \in Drainer :
          drain[d].pc = "read" /\ drain'[d].pc = "off" =>
              \A p \in Process : SessionOf(p) \in Drained(d) => ~Alive(p)]_vars

Live(s) == \E p \in Process : Active(p) /\ SessionOf(p) = s
Life == [s \in Session |-> IF Live(s) THEN "live"
                           ELSE IF s \in Handler /\ stage[s] = "bootstrap" THEN "new"
                           ELSE "over"]

(* The launches, the reap and the stop implement ContainmentPromise: each   *)
(* session comes to work once and is over once, neither verdict is given    *)
(* while a session that it speaks of works, and none begins after it.       *)
Promise == INSTANCE ContainmentPromise WITH
    life <- Life,
    reaped <- reap.pc = "done",
    stopped <- stop.pc = "proved"

ContainmentPromised == Promise!Spec
==============================================================================
