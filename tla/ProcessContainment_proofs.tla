---------------------- MODULE ProcessContainment_proofs ----------------------
(***************************************************************************)
(* Theorems about ProcessContainment, for any handlers, whoever launches   *)
(* them, and any other processes.                                          *)
(*                                                                         *)
(* A drain proves its sessions quiet by finding nothing twice in a row.    *)
(* DrainInv says why that is enough if no process slips through two scans  *)
(* in succession (MaxEvasions <= 1): what lives and is not listed was made *)
(* by something that was listed, and while nothing lives nothing is made.  *)
(* The receipts then stay as long as they are needed, and what the reap    *)
(* and the supervisor prove follows from the receipts, as does the         *)
(* refinement of ContainmentPromise.                                       *)
(***************************************************************************)
EXTENDS ProcessContainment, TLAPS

(* Popen was called for h. *)
Launched(h) == launch[h] \notin {"idle", "checked", "intent"}

(* What a drain is to empty: a session, or all the execution *)
InScope(d, p) ==
    IF d = Supervisor THEN TRUE
    ELSE SessionOf(p) = IF d = Reaper THEN reap.at ELSE d

Quiet(d) == \A p \in Process : InScope(d, p) => ~Alive(p)

(* p may do the work of a handler. *)
Contained(p) == Active(p) /\ SessionOf(p) \in Handler

ProcType ==
    /\ proc \in [Process -> {"none", "running", "stopped", "dead"}]
    /\ session \in [Child -> Session \cup {None}]
    /\ stage \in [Handler -> {"bootstrap", "work"}]
    /\ \A c \in Child : session[c] = None <=> proc[c] = "none"

LaunchType ==
    /\ record \in [Handler -> {"none", "launching", "published"}]
    /\ cancel \in BOOLEAN
    /\ launch \in [Handler -> {"idle", "checked", "intent", "spawned", "waiting", "reaping",
                               "failed", "done"}]
    /\ tracked \subseteq {h \in Handler : Top(h)}

StopReapType ==
    /\ reap \in [pc : {"off", "begun", "children", "records", "done"}, todo : SUBSET Handler,
                 at : Handler \cup {None}]
    /\ stop \in [pc : {"off", "stopping", "proved"}, groups : SUBSET Session]

Scan == [pc : {"off", "list", "read"}, listed : SUBSET Process,
         made : SUBSET Process, evaded : 0 .. MaxEvasions,
         stable : SUBSET Process, empty : BOOLEAN]

DrainType == drain \in [Drainer -> Scan]

LEMMA TypeParts == TypeOK <=> ProcType /\ LaunchType /\ StopReapType /\ DrainType
  BY DEF TypeOK, ProcType, LaunchType, StopReapType, DrainType, Scan

(* These steps of the reap leave what it is at. *)
LEMMA ReapAtSame ==
    ASSUME TypeOK, ReapBegin \/ ReapChildren \/ ReapRecords \/ ReapDone
    PROVE  reap'.at = reap.at
<1>. StopReapType
  BY TypeParts
<1>1. CASE ReapBegin
  BY <1>1 DEF ReapBegin, StopReapType
<1>2. CASE ReapChildren
  BY <1>2 DEF ReapChildren, StopReapType
<1>3. CASE ReapRecords
  BY <1>3 DEF ReapRecords, StopReapType
<1>4. CASE ReapDone
  BY <1>4 DEF ReapDone, StopReapType
<1>. QED  BY <1>1, <1>2, <1>3, <1>4

LEMMA TypePartsNext == TypeOK' <=> ProcType' /\ LaunchType' /\ StopReapType' /\ DrainType'
  BY TypeParts, PTL

-----------------------------------------------------------------------------
(* Types *)

LEMMA Sets ==
    /\ Handler \subseteq Process /\ Child \subseteq Process /\ Executor \in Process
    /\ Handler \subseteq Session /\ Executor \in Session /\ None \notin Session
    /\ Handler \subseteq Drainer /\ Supervisor \in Drainer /\ Reaper \in Drainer
    /\ Supervisor \notin Handler /\ Reaper \notin Handler /\ Supervisor # Reaper
    /\ Handler \cap Child = {} /\ Executor \notin Handler /\ Executor \notin Child
    /\ \A h \in Handler : Launcher[h] \in Handler \cup {Executor}
  BY LauncherAssumption, DistinctAssumption DEF Process, Session, Drainer

LEMMA SessionIn ==
    ASSUME ProcType, NEW p \in Process, proc[p] # "none"
    PROVE  SessionOf(p) \in Session
  BY Sets DEF ProcType, SessionOf, Process, Session

LEMMA NoDrainType == NoDrain \in Scan /\ [NoDrain EXCEPT !.pc = "list"] \in Scan
<1>1. 0 \in 0 .. MaxEvasions
  BY BoundAssumption
<1>2. NoDrain \in Scan
  BY <1>1 DEF NoDrain, Scan
<1>. QED  BY <1>2 DEF Scan

LEMMA MakesType ==
    ASSUME DrainType, NEW p \in Process, Makes(p)
    PROVE  DrainType'
<1>1. \A d \in Drainer : [drain[d] EXCEPT !.made = @ \cup {p}] \in Scan
  BY DEF DrainType, Scan
<1>2. \A d \in Drainer : drain'[d] \in Scan
  BY <1>1 DEF DrainType, Makes
<1>. QED  BY <1>2 DEF DrainType, Makes

LEMMA StartsType ==
    ASSUME DrainType, NEW d \in Drainer, Starts(d)
    PROVE  DrainType'
  BY NoDrainType DEF DrainType, Starts

LEMMA ListIs ==
    ASSUME DrainType, NEW d \in Drainer, NEW S, List(d, S)
    PROVE  drain' = [drain EXCEPT ![d] = [drain[d] EXCEPT !.pc = "read", !.listed = Members(S)]]
  BY DEF List, DrainType

LEMMA ListType ==
    ASSUME DrainType, NEW d \in Drainer, NEW S, List(d, S)
    PROVE  DrainType'
<1>1. Members(S) \subseteq Process
  BY DEF Members
<1>2. drain' = [drain EXCEPT ![d] = [drain[d] EXCEPT !.pc = "read", !.listed = Members(S)]]
  BY ListIs
<1>3. [drain[d] EXCEPT !.pc = "read", !.listed = Members(S)] \in Scan
  BY <1>1 DEF DrainType, Scan
<1>. QED  BY <1>2, <1>3 DEF DrainType

LEMMA OffType ==
    ASSUME DrainType, NEW d \in Drainer, drain' = [drain EXCEPT ![d] = NoDrain]
    PROVE  DrainType'
  BY NoDrainType DEF DrainType

LEMMA PassType ==
    ASSUME DrainType, ProcType, NEW d \in Drainer, Pass(d)
    PROVE  DrainType' /\ ProcType'
<1>1. Items(d) \subseteq Process
  BY DEF Items, DrainType, Scan
<1>2. drain[d].evaded \in 0 .. MaxEvasions /\ drain[d].stable \subseteq Process
  BY DEF DrainType, Scan
<1>3. (IF Slips(d) THEN drain[d].evaded + 1 ELSE 0) \in 0 .. MaxEvasions
  BY <1>2, BoundAssumption DEF Pass, Bounded
<1>4. (IF Items(d) = {} THEN drain[d].stable
       ELSE IF AllStopped(d) /\ drain[d].stable # Items(d) THEN Items(d) ELSE {}) \subseteq Process
  BY <1>1, <1>2
<1>5. DrainType'
  BY <1>3, <1>4 DEF Pass, DrainType, Scan
<1>6. \A p \in Items(d) : proc[p] # "none"
  BY DEF Items, Alive
<1>7. proc' \in [Process -> {"none", "running", "stopped", "dead"}]
  BY DEF Pass, Signal, ProcType
<1>8. \A c \in Child : proc'[c] = "none" <=> proc[c] = "none"
  BY <1>6, Sets DEF Pass, Signal
<1>. QED  BY <1>5, <1>7, <1>8 DEF ProcType, Pass

LEMMA ProcSame == ASSUME ProcType, UNCHANGED processes PROVE ProcType'
  BY DEF ProcType, processes

LEMMA ForkType ==
    ASSUME TypeOK, NEW p \in Process, NEW c \in Child, Fork(p, c)
    PROVE  TypeOK'
<1>1. ProcType /\ LaunchType /\ StopReapType /\ DrainType
  BY TypeParts
<1>2. SessionOf(p) \in Session
  BY <1>1, SessionIn DEF Fork, Works
<1>3. ProcType'
  BY <1>1, <1>2, Sets DEF ProcType, Fork
<1>4. DrainType'
  BY <1>1, MakesType DEF Fork
<1>5. LaunchType' /\ StopReapType'
  BY <1>1 DEF Fork, LaunchType, StopReapType
<1>. QED  BY <1>3, <1>4, <1>5, TypePartsNext

LEMMA ExitType ==
    ASSUME TypeOK, NEW p \in Process, Exit(p)
    PROVE  TypeOK'
<1>1. ProcType /\ LaunchType /\ StopReapType /\ DrainType
  BY TypeParts
<1>2. ProcType'
  BY <1>1, Sets DEF ProcType, Exit, Alive
<1>3. LaunchType' /\ StopReapType' /\ DrainType'
  BY <1>1 DEF Exit, LaunchType, StopReapType, DrainType
<1>. QED  BY <1>2, <1>3, TypePartsNext

LEMMA LaunchTypeStep ==
    ASSUME TypeOK, NEW h \in Handler,
           \/ LaunchCheck(h) \/ LaunchIntent(h) \/ LaunchSpawn(h) \/ Publish(h) \/ Execute(h)
           \/ LaunchSeen(h) \/ LaunchLost(h) \/ LaunchEnds(h) \/ LaunchDrains(h) \/ LaunchReaped(h)
    PROVE  TypeOK'
<1>1. ProcType /\ LaunchType /\ StopReapType /\ DrainType
  BY TypeParts
<1>2. h \in Process /\ h \in Drainer /\ h \notin Child /\ Launcher[h] \in Process
  BY Sets
<1>3. CASE LaunchCheck(h) \/ LaunchIntent(h) \/ Publish(h) \/ LaunchSeen(h) \/ LaunchLost(h)
  <2>1. ProcType'
    BY <1>1, <1>3, ProcSame DEF LaunchCheck, LaunchIntent, Publish, LaunchSeen, LaunchLost
  <2>2. LaunchType'
    BY <1>1, <1>3 DEF LaunchCheck, LaunchIntent, Publish, LaunchSeen, LaunchLost, LaunchType
  <2>3. StopReapType' /\ DrainType'
    BY <1>1, <1>3 DEF LaunchCheck, LaunchIntent, Publish, LaunchSeen, LaunchLost, StopReapType, DrainType
  <2>. QED  BY <2>1, <2>2, <2>3, TypePartsNext
<1>4. CASE LaunchSpawn(h)
  <2>1. proc' = [proc EXCEPT ![h] = "running"] \/ proc' = proc
    BY <1>4 DEF LaunchSpawn
  <2>2. ProcType'
    <3>1. session' = session /\ stage' = stage
      BY <1>4 DEF LaunchSpawn
    <3>2. proc' \in [Process -> {"none", "running", "stopped", "dead"}]
      BY <1>1, <2>1 DEF ProcType
    <3>3. \A c \in Child : proc'[c] = proc[c]
      BY <1>1, <1>2, <2>1, Sets DEF ProcType
    <3>. QED  BY <1>1, <3>1, <3>2, <3>3 DEF ProcType
  <2>3. LaunchType'
    BY <1>1, <1>4 DEF LaunchSpawn, LaunchType
  <2>4. StopReapType'
    BY <1>1, <1>4 DEF LaunchSpawn, StopReapType
  <2>5. DrainType'
    BY <1>1, <1>2, <1>4, MakesType DEF LaunchSpawn, DrainType
  <2>. QED  BY <2>2, <2>3, <2>4, <2>5, TypePartsNext
<1>5. CASE Execute(h)
  <2>1. ProcType' /\ LaunchType' /\ StopReapType' /\ DrainType'
    BY <1>1, <1>5 DEF Execute, ProcType, LaunchType, StopReapType, DrainType
  <2>. QED  BY <2>1, TypePartsNext
<1>6. CASE LaunchEnds(h)
  <2>1. ProcType' /\ LaunchType' /\ StopReapType'
    BY <1>1, <1>6, ProcSame DEF LaunchEnds, LaunchType, StopReapType
  <2>2. DrainType'
    BY <1>1, <1>2, <1>6, StartsType DEF LaunchEnds
  <2>. QED  BY <2>1, <2>2, TypePartsNext
<1>7. CASE LaunchDrains(h)
  <2>1. LaunchType' /\ StopReapType'
    BY <1>1, <1>7 DEF LaunchDrains, LaunchType, StopReapType
  <2>2. ProcType' /\ DrainType'
    BY <1>1, <1>2, <1>7, ListType, PassType, ProcSame DEF LaunchDrains
  <2>. QED  BY <2>1, <2>2, TypePartsNext
<1>8. CASE LaunchReaped(h)
  <2>1. LaunchType' /\ StopReapType'
    BY <1>1, <1>8 DEF LaunchReaped, LaunchType, StopReapType
  <2>2. ProcType' /\ DrainType'
    BY <1>1, <1>2, <1>8, OffType, ProcSame DEF LaunchReaped, Returns, GivesUp
  <2>. QED  BY <2>1, <2>2, TypePartsNext
<1>. QED  BY <1>3, <1>4, <1>5, <1>6, <1>7, <1>8

LEMMA ReapTypeStep ==
    ASSUME TypeOK,
           \/ \E h \in Handler : ReapChild(h) \/ ReapRecord(h)
           \/ ReapBegin \/ ReapChildren \/ ReapRecords \/ ReapDrains \/ Reaped \/ ReapDone
    PROVE  TypeOK'
<1>1. ProcType /\ LaunchType /\ StopReapType /\ DrainType
  BY TypeParts
<1>2. CASE \E h \in Handler : ReapChild(h) \/ ReapRecord(h)
  <2>1. PICK h \in Handler : ReapChild(h) \/ ReapRecord(h)
    BY <1>2
  <2>2. ProcType' /\ LaunchType'
    BY <1>1, <2>1, ProcSame DEF ReapChild, ReapRecord, LaunchType
  <2>3. StopReapType'
    BY <1>1, <2>1 DEF ReapChild, ReapRecord, StopReapType
  <2>4. DrainType'
    BY <1>1, <2>1, Sets, StartsType DEF ReapChild, ReapRecord, DrainType
  <2>. QED  BY <2>2, <2>3, <2>4, TypePartsNext
<1>3. CASE ReapBegin \/ ReapChildren \/ ReapRecords \/ ReapDone
  <2>1. ProcType' /\ DrainType'
    BY <1>1, <1>3, ProcSame DEF ReapBegin, ReapChildren, ReapRecords, ReapDone, DrainType
  <2>2. LaunchType'
    BY <1>1, <1>3 DEF ReapBegin, ReapChildren, ReapRecords, ReapDone, LaunchType
  <2>3. CASE ReapBegin \/ ReapDone
    BY <1>1, <2>1, <2>2, <2>3, TypePartsNext DEF ReapBegin, ReapDone, StopReapType
  <2>4. CASE ReapChildren
    BY <1>1, <2>1, <2>2, <2>4, TypePartsNext DEF ReapChildren, LaunchType, StopReapType
  <2>5. CASE ReapRecords
    BY <1>1, <2>1, <2>2, <2>5, TypePartsNext DEF ReapRecords, StopReapType
  <2>. QED  BY <1>3, <2>3, <2>4, <2>5
<1>4. CASE ReapDrains
  <2>1. LaunchType' /\ StopReapType'
    BY <1>1, <1>4 DEF ReapDrains, LaunchType, StopReapType
  <2>2. ProcType' /\ DrainType'
    BY <1>1, <1>4, Sets, ListType, PassType, ProcSame DEF ReapDrains
  <2>. QED  BY <2>1, <2>2, TypePartsNext
<1>5. CASE Reaped
  <2>1. reap.at \in Handler
    BY <1>1, <1>5 DEF Reaped, StopReapType
  <2>2. LaunchType'
    <3>1. record' = [record EXCEPT ![reap.at] = "none"] \/ record' = record
      BY <1>5 DEF Reaped
    <3>2. launch' = [launch EXCEPT ![reap.at] = "done"] \/ launch' = launch
      BY <1>1, <1>5, <2>1 DEF Reaped, LaunchType
    <3>3. tracked' \subseteq tracked /\ cancel' = cancel
      BY <1>5 DEF Reaped
    <3>. QED  BY <1>1, <2>1, <3>1, <3>2, <3>3 DEF LaunchType
  <2>3. StopReapType'
    <3>1. \/ reap' = [pc |-> "off", todo |-> {}, at |-> None]
          \/ reap' = [reap EXCEPT !.todo = @ \ {reap.at}, !.at = None]
      BY <1>5 DEF Reaped
    <3>2. stop' = stop
      BY <1>5 DEF Reaped
    <3>3. [pc |-> "off", todo |-> {}, at |-> None] \in
             [pc : {"off", "begun", "children", "records", "done"}, todo : SUBSET Handler,
              at : Handler \cup {None}]
      OBVIOUS
    <3>4. [reap EXCEPT !.todo = @ \ {reap.at}, !.at = None] \in
             [pc : {"off", "begun", "children", "records", "done"}, todo : SUBSET Handler,
              at : Handler \cup {None}]
      <4>. HIDE <1>5
      <4>. QED  BY <1>1 DEF StopReapType
    <3>. QED  BY <1>1, <3>1, <3>2, <3>3, <3>4 DEF StopReapType
  <2>4. ProcType' /\ DrainType'
    BY <1>1, <1>5, Sets, OffType, ProcSame DEF Reaped, Returns, GivesUp
  <2>. QED  BY <2>2, <2>3, <2>4, TypePartsNext
<1>. QED  BY <1>2, <1>3, <1>4, <1>5

LEMMA StopTypeStep ==
    ASSUME TypeOK, StopBegin \/ StopDrains \/ StopProves \/ StopFails
    PROVE  TypeOK'
<1>1. ProcType /\ LaunchType /\ StopReapType /\ DrainType
  BY TypeParts
<1>2. LaunchType'
  BY <1>1 DEF StopBegin, StopDrains, StopProves, StopFails, LaunchType
<1>3. StopReapType'
  <2>1. {Executor} \cup Boundaries \subseteq Session
    BY Sets DEF Boundaries
  <2>. QED
    BY <1>1, <2>1 DEF StopBegin, StopDrains, StopProves, StopFails, Rescan, StopReapType
<1>4. CASE StopBegin
  <2>1. ProcType'
    BY <1>1, <1>4, Sets DEF StopBegin, ProcType
  <2>2. DrainType'
    BY <1>1, <1>4, Sets, StartsType DEF StopBegin
  <2>. QED  BY <1>2, <1>3, <2>1, <2>2, TypePartsNext
<1>5. CASE StopDrains
  <2>1. ProcType' /\ DrainType'
    BY <1>1, <1>5, Sets, ListType, PassType, ProcSame DEF StopDrains
  <2>. QED  BY <1>2, <1>3, <2>1, TypePartsNext
<1>6. CASE StopProves \/ StopFails
  <2>1. ProcType' /\ DrainType'
    BY <1>1, <1>6, Sets, OffType, ProcSame DEF StopProves, StopFails, Returns, GivesUp
  <2>. QED  BY <1>2, <1>3, <2>1, TypePartsNext
<1>. QED  BY <1>4, <1>5, <1>6

LEMMA TypeStep == ASSUME TypeOK, [Next]_vars PROVE TypeOK'
<1>1. CASE Cancel \/ UNCHANGED vars
  <2>1. ProcType /\ LaunchType /\ StopReapType /\ DrainType
    BY TypeParts
  <2>2. ProcType'
    BY <1>1, <2>1, ProcSame DEF Cancel, vars
  <2>3. LaunchType' /\ StopReapType' /\ DrainType'
    BY <1>1, <2>1 DEF Cancel, vars, LaunchType, StopReapType, DrainType
  <2>. QED  BY <2>2, <2>3, TypePartsNext
<1>. QED  BY <1>1, ForkType, ExitType, LaunchTypeStep, ReapTypeStep, StopTypeStep DEF Next

LEMMA TypeInit == ASSUME Init PROVE TypeOK
<1>1. ProcType
  BY Sets DEF Init, ProcType, Process
<1>2. LaunchType /\ StopReapType
  BY DEF Init, LaunchType, StopReapType
<1>3. DrainType
  BY NoDrainType DEF Init, DrainType
<1>. QED  BY <1>1, <1>2, <1>3, TypeParts

(* TypeOK: every variable of the model of a launch, a reap and a stop holds *)
(* values of its type, and only a process that was made has a session,      *)
(* however often processes slip through the scans.                          *)
THEOREM TypeInvariant == Spec => []TypeOK
<1>. QED  BY TypeInit, TypeStep, PTL DEF Spec

-----------------------------------------------------------------------------
(* The inductive invariant *)

(* A launch comes from an intent, whose receipt is there until the session  *)
(* was proved quiet.                                                        *)
RecordInv ==
    \A h \in Handler :
        /\ proc[h] # "none" => Launched(h)
        /\ Alive(h) => record[h] # "none"
        /\ record[h] = "published" => Launched(h)
        /\ stage[h] = "work" => Launched(h)
        /\ launch[h] = "intent" => record[h] = "launching"

(* Each drain belongs to the thread that runs it, and drains the session of *)
(* a launch that Popen has left behind.                                     *)
TargetInv ==
    /\ \A h \in tracked : Launched(h)
    /\ reap.at # None => Launched(reap.at)
    /\ drain[Supervisor].pc # "off" => stop.pc = "stopping"
    /\ drain[Reaper].pc # "off" => reap.at # None
    /\ \A h \in Handler : drain[h].pc # "off" => launch[h] = "reaping"

(* While a scan is read, what lives in its scope was listed, or something   *)
(* that was listed has made another.  After a pass that found nothing and   *)
(* that nothing slipped through, nothing lives there.                       *)
DrainInvOf(d) ==
    /\ drain[d].pc # "read" => drain[d].listed = {} /\ drain[d].made = {}
    /\ drain[d].made \subseteq drain[d].listed
    /\ drain[d].pc = "read" =>
          \/ drain[d].made # {}
          \/ \A p \in Process : Alive(p) /\ InScope(d, p) => p \in drain[d].listed
    /\ drain[d].pc # "off" /\ drain[d].empty /\ drain[d].evaded = 0 => Quiet(d)

DrainInv == \A d \in Drainer : DrainInvOf(d)

ReceiptInv == TypeOK /\ RecordInv /\ TargetInv /\ DrainInv /\ Receipted

-----------------------------------------------------------------------------
(* What a step may do to the processes *)

Shrinks ==
    /\ session' = session
    /\ \A p \in Process : (Alive(p)' => Alive(p)) /\ (proc'[p] = "none" <=> proc[p] = "none")

LEMMA SameShrinks == ASSUME UNCHANGED processes PROVE Shrinks
  BY DEF processes, Shrinks, Alive

LEMMA PassShrinks ==
    ASSUME TypeOK, NEW d \in Drainer, Pass(d)
    PROVE  Shrinks
<1>1. \A p \in Process :
         proc'[p] = IF p \notin Items(d) THEN proc[p]
                    ELSE IF AllStopped(d) /\ drain[d].stable = Items(d) THEN "dead"
                    ELSE "stopped"
  BY DEF Pass, Signal
<1>2. \A p \in Items(d) : Alive(p)
  BY DEF Items
<1>. QED  BY <1>1, <1>2 DEF Shrinks, Alive, Pass

LEMMA ProcStep ==
    ASSUME TypeOK, [Next]_vars
    PROVE  \/ \E p \in Process, c \in Child : Fork(p, c)
           \/ \E h \in Handler : LaunchSpawn(h)
           \/ Shrinks
<1>1. ASSUME NEW p \in Process, Exit(p) PROVE Shrinks
  BY <1>1, Sets DEF Exit, Shrinks, Alive, TypeOK
<1>2. ASSUME NEW h \in Handler,
             \/ LaunchCheck(h) \/ LaunchIntent(h) \/ Publish(h)
             \/ LaunchSeen(h) \/ LaunchLost(h) \/ LaunchEnds(h) \/ ReapChild(h) \/ ReapRecord(h)
      PROVE  Shrinks
  BY <1>2, SameShrinks
  DEF LaunchCheck, LaunchIntent, Publish, LaunchSeen, LaunchLost, LaunchEnds, ReapChild, ReapRecord
<1>3. ASSUME NEW h \in Handler, Execute(h) PROVE Shrinks
  BY <1>3 DEF Execute, Shrinks, Alive
<1>4. ASSUME NEW h \in Handler, LaunchDrains(h) \/ LaunchReaped(h) PROVE Shrinks
  BY <1>4, Sets, SameShrinks, PassShrinks DEF LaunchDrains, LaunchReaped, Returns, GivesUp
<1>5. CASE Cancel \/ ReapBegin \/ ReapChildren \/ ReapRecords \/ ReapDone
  BY <1>5, SameShrinks DEF Cancel, ReapBegin, ReapChildren, ReapRecords, ReapDone
<1>6. CASE ReapDrains \/ Reaped
  BY <1>6, Sets, SameShrinks, PassShrinks DEF ReapDrains, Reaped, Returns, GivesUp
<1>7. CASE StopDrains \/ StopProves \/ StopFails
  BY <1>7, Sets, SameShrinks, PassShrinks DEF StopDrains, StopProves, StopFails, Returns, GivesUp
<1>8. CASE StopBegin
  BY <1>8, Sets DEF StopBegin, Shrinks, Alive, TypeOK
<1>9. CASE UNCHANGED vars
  BY <1>9, SameShrinks DEF vars
<1>. QED  BY <1>1, <1>2, <1>3, <1>4, <1>5, <1>6, <1>7, <1>8, <1>9 DEF Next

LEMMA SpawnStep ==
    ASSUME TypeOK, NEW h \in Handler, LaunchSpawn(h)
    PROVE  /\ session' = session
           /\ \A p \in Process \ {h} : proc'[p] = proc[p]
           /\ proc'[h] # proc[h] => Makes(Launcher[h]) /\ proc'[h] = "running"
  BY DEF LaunchSpawn, TypeOK

LEMMA ForkStep ==
    ASSUME TypeOK, NEW q \in Process, NEW c \in Child, Fork(q, c)
    PROVE  /\ \A p \in Process \ {c} : proc'[p] = proc[p]
           /\ proc'[c] = "running" /\ proc[c] = "none"
           /\ session'[c] = SessionOf(q)
           /\ \A b \in Child \ {c} : session'[b] = session[b]
  BY Sets DEF Fork, TypeOK

(* A process stays in its session. *)
LEMMA SessionKept ==
    ASSUME TypeOK, [Next]_vars, NEW p \in Process, proc[p] # "none"
    PROVE  SessionOf(p)' = SessionOf(p) /\ proc'[p] # "none"
<1>1. CASE Shrinks
  BY <1>1 DEF Shrinks, SessionOf
<1>2. ASSUME NEW h \in Handler, LaunchSpawn(h)
      PROVE  SessionOf(p)' = SessionOf(p) /\ proc'[p] # "none"
  BY <1>2, SpawnStep DEF SessionOf
<1>3. ASSUME NEW q \in Process, NEW c \in Child, Fork(q, c)
      PROVE  SessionOf(p)' = SessionOf(p) /\ proc'[p] # "none"
  <2>1. p # c
    BY <1>3, ForkStep
  <2>. QED  BY <1>3, <2>1, ForkStep DEF SessionOf
<1>. QED  BY <1>1, <1>2, <1>3, ProcStep

(* What comes alive was forked, or spawned by a launch. *)
LEMMA Births ==
    ASSUME TypeOK, [Next]_vars, NEW p \in Process, Alive(p)', ~Alive(p)
    PROVE  \/ p \in Child /\ \E q \in Process :
                  Works(q) /\ Makes(q) /\ SessionOf(p)' = SessionOf(q) /\ UNCHANGED <<stage, reap>>
           \/ p \in Handler /\ LaunchSpawn(p) /\ Makes(Launcher[p])
<1>1. CASE Shrinks
  BY <1>1 DEF Shrinks
<1>2. ASSUME NEW h \in Handler, LaunchSpawn(h)
      PROVE  p \in Handler /\ LaunchSpawn(p) /\ Makes(Launcher[p])
  <2>1. p = h
    BY <1>2, SpawnStep DEF Alive
  <2>. QED  BY <1>2, <2>1, SpawnStep DEF Alive
<1>3. CASE \E q \in Process, c \in Child : Fork(q, c)
  <2>1. PICK q \in Process, c \in Child : Fork(q, c)
    BY <1>3
  <2>2. p = c
    BY <2>1, ForkStep DEF Alive
  <2>3. Works(q) /\ Makes(q) /\ UNCHANGED <<stage, reap>>
    BY <2>1 DEF Fork
  <2>4. session'[c] = SessionOf(q)
    BY <2>1, ForkStep
  <2>5. SessionOf(p)' = session'[c]
    BY <2>2 DEF SessionOf
  <2>. QED  BY <2>2, <2>3, <2>4, <2>5
<1>. QED  BY <1>1, <1>2, <1>3, ProcStep

-----------------------------------------------------------------------------
(* What a step may do to the launches, the receipts and the drains *)

LEMMA LaunchedKept ==
    ASSUME TypeOK, [Next]_vars, NEW h \in Handler, Launched(h)
    PROVE  Launched(h)'
<1>1. ASSUME NEW g \in Handler,
             \/ LaunchCheck(g) \/ LaunchIntent(g) \/ LaunchSpawn(g) \/ LaunchSeen(g)
             \/ LaunchLost(g) \/ LaunchEnds(g) \/ LaunchReaped(g)
      PROVE  Launched(h)'
  BY <1>1
  DEF LaunchCheck, LaunchIntent, LaunchSpawn, LaunchSeen, LaunchLost, LaunchEnds, LaunchReaped,
      Launched, TypeOK
<1>2. CASE Reaped
  BY <1>2 DEF Reaped, Launched, TypeOK
<1>3. ASSUME NEW g \in Handler,
             Publish(g) \/ Execute(g) \/ LaunchDrains(g) \/ ReapChild(g) \/ ReapRecord(g)
      PROVE  launch' = launch
  BY <1>3 DEF Publish, Execute, LaunchDrains, ReapChild, ReapRecord
<1>4. ASSUME NEW p \in Process, Exit(p) \/ \E c \in Child : Fork(p, c) PROVE launch' = launch
  BY <1>4 DEF Exit, Fork
<1>5. CASE Cancel \/ ReapBegin \/ ReapChildren \/ ReapRecords \/ ReapDrains \/ ReapDone
  BY <1>5 DEF Cancel, ReapBegin, ReapChildren, ReapRecords, ReapDrains, ReapDone, Launched
<1>6. CASE StopBegin \/ StopDrains \/ StopProves \/ StopFails \/ UNCHANGED vars
  BY <1>6 DEF StopBegin, StopDrains, StopProves, StopFails, vars, Launched
<1>. QED  BY <1>1, <1>2, <1>3, <1>4, <1>5, <1>6 DEF Next, Launched

(* A receipt is written by the launch, published by the launched process,   *)
(* and cleared by a drain that returns.                                     *)
Clears(h) ==
    /\ record'[h] = "none"
    /\ \/ Returns(h) /\ launch[h] = "reaping"
       \/ Returns(Reaper) /\ reap.at = h

LEMMA RecordStep ==
    ASSUME TypeOK, [Next]_vars, NEW h \in Handler
    PROVE  \/ record'[h] = record[h]
           \/ LaunchIntent(h) /\ record'[h] = "launching" /\ record[h] = "none"
           \/ Publish(h) /\ record'[h] = "published" /\ record[h] = "launching"
           \/ Clears(h)
<1>1. ASSUME NEW g \in Handler, LaunchIntent(g)
      PROVE  \/ record'[h] = record[h]
             \/ LaunchIntent(h) /\ record'[h] = "launching" /\ record[h] = "none"
  BY <1>1 DEF LaunchIntent, TypeOK
<1>2. ASSUME NEW g \in Handler, Publish(g)
      PROVE  \/ record'[h] = record[h]
             \/ Publish(h) /\ record'[h] = "published" /\ record[h] = "launching"
  BY <1>2 DEF Publish, TypeOK
<1>3. ASSUME NEW g \in Handler, LaunchReaped(g)
      PROVE  record'[h] = record[h] \/ Clears(h)
  <2>1. LaunchType
    BY TypeParts
  <2>2. \/ record' = record
        \/ Returns(g) /\ launch[g] = "reaping" /\ record' = [record EXCEPT ![g] = "none"]
    BY <1>3 DEF LaunchReaped
  <2>. QED  BY <2>1, <2>2 DEF LaunchType, Clears
<1>4. CASE Reaped
  BY <1>4 DEF Reaped, Clears, TypeOK
<1>5. ASSUME NEW g \in Handler,
             \/ LaunchCheck(g) \/ LaunchSpawn(g) \/ Execute(g) \/ LaunchSeen(g) \/ LaunchLost(g)
             \/ LaunchEnds(g) \/ LaunchDrains(g) \/ ReapChild(g) \/ ReapRecord(g)
      PROVE  record' = record
  BY <1>5
  DEF LaunchCheck, LaunchSpawn, Execute, LaunchSeen, LaunchLost, LaunchEnds, LaunchDrains,
      ReapChild, ReapRecord
<1>6. ASSUME NEW p \in Process, Exit(p) \/ \E c \in Child : Fork(p, c) PROVE record' = record
  BY <1>6 DEF Exit, Fork
<1>7. CASE Cancel \/ ReapBegin \/ ReapChildren \/ ReapRecords \/ ReapDrains \/ ReapDone
  BY <1>7 DEF Cancel, ReapBegin, ReapChildren, ReapRecords, ReapDrains, ReapDone
<1>8. CASE StopBegin \/ StopDrains \/ StopProves \/ StopFails \/ UNCHANGED vars
  BY <1>8 DEF StopBegin, StopDrains, StopProves, StopFails, vars
<1>. QED  BY <1>1, <1>2, <1>3, <1>4, <1>5, <1>6, <1>7, <1>8 DEF Next

(* A handler starts to work only while no cancel is requested. *)
LEMMA StageStep ==
    ASSUME TypeOK, [Next]_vars, NEW h \in Handler, stage'[h] # stage[h]
    PROVE  Execute(h)
<1>1. ASSUME NEW g \in Handler, Execute(g) PROVE Execute(h)
  BY <1>1 DEF Execute, TypeOK
<1>2. ASSUME NEW g \in Handler,
             \/ LaunchCheck(g) \/ LaunchIntent(g) \/ LaunchSpawn(g) \/ Publish(g) \/ LaunchSeen(g)
             \/ LaunchLost(g) \/ LaunchEnds(g) \/ ReapChild(g) \/ ReapRecord(g)
      PROVE  stage' = stage
  BY <1>2
  DEF LaunchCheck, LaunchIntent, LaunchSpawn, Publish, LaunchSeen, LaunchLost, LaunchEnds,
      ReapChild, ReapRecord, processes
<1>3. ASSUME NEW g \in Handler, LaunchDrains(g) \/ LaunchReaped(g) PROVE stage' = stage
  BY <1>3 DEF LaunchDrains, LaunchReaped, Pass, Returns, GivesUp, processes
<1>4. ASSUME NEW p \in Process, Exit(p) \/ \E c \in Child : Fork(p, c) PROVE stage' = stage
  BY <1>4 DEF Exit, Fork
<1>5. CASE Cancel \/ ReapBegin \/ ReapChildren \/ ReapRecords \/ ReapDone
  BY <1>5 DEF Cancel, ReapBegin, ReapChildren, ReapRecords, ReapDone, processes
<1>6. CASE ReapDrains \/ Reaped
  BY <1>6 DEF ReapDrains, Reaped, Pass, Returns, GivesUp, processes
<1>7. CASE StopBegin \/ StopDrains \/ StopProves \/ StopFails
  BY <1>7 DEF StopBegin, StopDrains, StopProves, StopFails, Pass, Returns, GivesUp, processes
<1>8. CASE UNCHANGED vars
  BY <1>8 DEF vars, processes
<1>. QED  BY <1>1, <1>2, <1>3, <1>4, <1>5, <1>6, <1>7, <1>8 DEF Next

(* A drain that a step does not own keeps what it has listed and found. *)
Kept(d) ==
    /\ drain'[d].pc = drain[d].pc /\ drain'[d].listed = drain[d].listed
    /\ drain'[d].evaded = drain[d].evaded /\ drain'[d].empty = drain[d].empty
    /\ drain[d].made \subseteq drain'[d].made
    /\ drain'[d].made \subseteq drain[d].made \cup drain[d].listed
    /\ d = Reaper /\ drain[d].pc # "off" => reap'.at = reap.at

(* What the owner of a drain does with it *)
Resets(d) == drain'[d].pc # "read" /\ drain'[d].listed = {} /\ drain'[d].made = {} /\ ~drain'[d].empty

Scans(d) ==
    /\ d = Reaper => reap' = reap
    /\ \/ Pass(d)
       \/ \E S \in SUBSET Session :
             /\ drain[d].pc = "list" /\ List(d, S) /\ UNCHANGED <<processes, record>>
             /\ IF d = Supervisor THEN Rescan /\ S = stop'.groups
                ELSE S = {IF d = Reaper THEN reap.at ELSE d}

LEMMA OthersKept ==
    ASSUME TypeOK, NEW e \in Drainer, NEW x, drain' = [drain EXCEPT ![e] = x],
           e # Reaper => reap' = reap
    PROVE  \A d \in Drainer \ {e} : Kept(d)
  BY DEF Kept, TypeOK

LEMMA MakesKept ==
    ASSUME TypeOK, NEW p \in Process, Makes(p), reap' = reap
    PROVE  \A d \in Drainer : Kept(d)
<1>. SUFFICES ASSUME NEW d \in Drainer PROVE Kept(d)
  OBVIOUS
<1>1. drain'[d] = IF p \in drain[d].listed THEN [drain[d] EXCEPT !.made = @ \cup {p}] ELSE drain[d]
  BY DEF Makes
<1>2. drain[d] \in Scan
  BY TypeParts DEF DrainType
<1>. QED  BY <1>1, <1>2 DEF Kept, Scan

LEMMA ResetsFacts ==
    ASSUME TypeOK, NEW d \in Drainer,
           Starts(d) \/ drain' = [drain EXCEPT ![d] = NoDrain]
    PROVE  Resets(d)
  BY DEF Resets, Starts, NoDrain, TypeOK

LEMMA LaunchDrainStep ==
    ASSUME TypeOK, NEW h \in Handler, LaunchEnds(h) \/ LaunchDrains(h) \/ LaunchReaped(h), 
           NEW d \in Drainer
    PROVE  Kept(d) \/ Resets(d) \/ Scans(d)
<1>1. h \in Drainer /\ h # Reaper /\ h # Supervisor /\ h \in Session
  BY Sets
<1>2. reap' = reap
  BY DEF LaunchEnds, LaunchDrains, LaunchReaped
<1>3. \E x : drain' = [drain EXCEPT ![h] = x]
  <2>1. CASE LaunchEnds(h)
    BY <2>1 DEF LaunchEnds, Starts
  <2>2. CASE LaunchDrains(h)
    <3>1. CASE List(h, {h})
      BY <1>1, <3>1, TypeParts, ListIs
    <3>2. CASE Pass(h)
      BY <3>2 DEF Pass
    <3>. QED  BY <2>2, <3>1, <3>2 DEF LaunchDrains
  <2>3. CASE LaunchReaped(h)
    BY <2>3 DEF LaunchReaped, Returns, GivesUp
  <2>. QED  BY <2>1, <2>2, <2>3
<1>4. CASE d # h
  <2>1. PICK x : drain' = [drain EXCEPT ![h] = x]
    BY <1>3
  <2>. QED  BY <1>1, <1>2, <1>4, <2>1, OthersKept
<1>5. CASE d = h
  <2>1. CASE LaunchEnds(h) \/ LaunchReaped(h)
    BY <1>1, <1>5, <2>1, ResetsFacts DEF LaunchEnds, LaunchReaped, Returns, GivesUp
  <2>2. CASE LaunchDrains(h)
    <3>1. {h} \in SUBSET Session
      BY <1>1
    <3>. QED  BY <1>1, <1>2, <1>5, <2>2, <3>1 DEF LaunchDrains, Scans
  <2>. QED  BY <2>1, <2>2
<1>. QED  BY <1>4, <1>5

LEMMA ReapDrainStep ==
    ASSUME TypeOK, ReapDrains \/ Reaped \/ \E h \in Handler : ReapChild(h) \/ ReapRecord(h),
           TargetInv, NEW d \in Drainer
    PROVE  Kept(d) \/ Resets(d) \/ Scans(d)
<1>1. Reaper \in Drainer /\ Reaper # Supervisor /\ reap.at \in Handler \cup {None}
  BY Sets DEF TypeOK
<1>2. CASE d = Reaper
  <2>1. CASE ReapDrains
    <3>1. reap.at \in Handler /\ {reap.at} \in SUBSET Session
      BY <1>1, <2>1, Sets DEF ReapDrains
    <3>. QED  BY <1>1, <1>2, <2>1, <3>1 DEF ReapDrains, Scans
  <2>2. CASE Reaped
    BY <1>2, <2>2, ResetsFacts DEF Reaped, Returns, GivesUp
  <2>3. CASE \E h \in Handler : ReapChild(h) \/ ReapRecord(h)
    <3>1. CASE drain' = drain
      BY <1>2, <2>3, <3>1 DEF Kept, ReapChild, ReapRecord, TargetInv
    <3>2. CASE Starts(Reaper)
      BY <1>2, <3>2, ResetsFacts
    <3>. QED  BY <2>3, <3>1, <3>2 DEF ReapChild, ReapRecord
  <2>. QED  BY <2>1, <2>2, <2>3
<1>3. CASE d # Reaper
  <2>1. drain'[d] = drain[d]
    <3>1. CASE ReapDrains
      <4>1. CASE Pass(Reaper)
        BY <1>1, <1>3, <4>1 DEF Pass, TypeOK
      <4>2. CASE List(Reaper, {reap.at})
        BY <1>1, <1>3, <4>2, ListIs, TypeParts DEF DrainType
      <4>. QED  BY <3>1, <4>1, <4>2 DEF ReapDrains
    <3>2. CASE Reaped
      BY <1>1, <1>3, <3>2 DEF Reaped, Returns, GivesUp, TypeOK
    <3>3. CASE \E h \in Handler : ReapChild(h) \/ ReapRecord(h)
      BY <1>1, <1>3, <3>3 DEF ReapChild, ReapRecord, Starts, TypeOK
    <3>. QED  BY <3>1, <3>2, <3>3
  <2>. QED  BY <1>3, <2>1 DEF Kept
<1>. QED  BY <1>2, <1>3

LEMMA StopDrainStep ==
    ASSUME TypeOK, StopBegin \/ StopDrains \/ StopProves \/ StopFails, NEW d \in Drainer
    PROVE  Kept(d) \/ Resets(d) \/ Scans(d)
<1>1. Supervisor \in Drainer /\ Reaper # Supervisor
  BY Sets
<1>2. reap' = reap
  BY DEF StopBegin, StopDrains, StopProves, StopFails
<1>3. CASE d = Supervisor
  <2>1. CASE StopBegin \/ StopProves \/ StopFails
    BY <1>3, <2>1, ResetsFacts DEF StopBegin, StopProves, StopFails, Returns, GivesUp
  <2>2. CASE StopDrains
    <3>1. stop'.groups \in SUBSET Session
      <4>1. StopReapType'
        BY <2>2, StopTypeStep, TypePartsNext
      <4>. QED  BY <4>1 DEF StopReapType
    <3>. QED  BY <1>1, <1>2, <1>3, <2>2, <3>1 DEF StopDrains, Scans
  <2>. QED  BY <2>1, <2>2
<1>4. CASE d # Supervisor
  <2>1. drain'[d] = drain[d]
    <3>1. CASE StopDrains
      <4>1. CASE Pass(Supervisor)
        BY <1>1, <1>4, <4>1 DEF Pass, TypeOK
      <4>2. CASE List(Supervisor, stop'.groups)
        BY <1>1, <1>4, <4>2, ListIs, TypeParts DEF DrainType
      <4>. QED  BY <3>1, <4>1, <4>2 DEF StopDrains
    <3>2. CASE StopBegin \/ StopProves \/ StopFails
      BY <1>1, <1>4, <3>2 DEF StopBegin, StopProves, StopFails, Starts, Returns, GivesUp, TypeOK
    <3>. QED  BY <3>1, <3>2
  <2>. QED  BY <1>2, <2>1 DEF Kept
<1>. QED  BY <1>3, <1>4

LEMMA DrainStep ==
    ASSUME TypeOK, TargetInv, [Next]_vars, NEW d \in Drainer
    PROVE  Kept(d) \/ Resets(d) \/ Scans(d)
<1>1. ASSUME NEW p \in Process, NEW c \in Child, Fork(p, c) PROVE Kept(d)
  BY <1>1, MakesKept DEF Fork
<1>2. ASSUME NEW h \in Handler, LaunchSpawn(h) PROVE Kept(d)
  <2>1. CASE Makes(Launcher[h])
    BY <1>2, <2>1, Sets, MakesKept DEF LaunchSpawn
  <2>2. CASE drain' = drain
    BY <1>2, <2>2 DEF LaunchSpawn, Kept
  <2>. QED  BY <1>2, <2>1, <2>2 DEF LaunchSpawn
<1>3. ASSUME NEW p \in Process, Exit(p) PROVE Kept(d)
  BY <1>3 DEF Exit, Kept
<1>4. ASSUME NEW h \in Handler,
             \/ LaunchCheck(h) \/ LaunchIntent(h) \/ Publish(h) \/ Execute(h)
             \/ LaunchSeen(h) \/ LaunchLost(h)
      PROVE  Kept(d)
  BY <1>4 DEF LaunchCheck, LaunchIntent, Publish, Execute, LaunchSeen, LaunchLost, Kept
<1>5. CASE Cancel \/ ReapBegin \/ ReapChildren \/ ReapRecords \/ ReapDone
  <2>1. drain' = drain
    BY <1>5 DEF Cancel, ReapBegin, ReapChildren, ReapRecords, ReapDone
  <2>2. reap'.at = reap.at
    BY <1>5, ReapAtSame DEF Cancel
  <2>. QED  BY <2>1, <2>2 DEF Kept
<1>6. CASE UNCHANGED vars
  BY <1>6 DEF vars, Kept
<1>. QED
  BY <1>1, <1>2, <1>3, <1>4, <1>5, <1>6, LaunchDrainStep, ReapDrainStep, StopDrainStep DEF Next

-----------------------------------------------------------------------------
(* What a drain proves *)

(* If nothing slips through a scan that finds nothing, nothing lives. *)
LEMMA ScanFindsNothing ==
    ASSUME TypeOK, NEW d \in Drainer, DrainInvOf(d),
           drain[d].pc = "read", Items(d) = {}, ~Slips(d)
    PROVE  Quiet(d)
<1>1. drain[d].made \subseteq Items(d)
  BY DEF DrainInvOf, Slips, Items
<1>2. \A p \in Process : Alive(p) /\ InScope(d, p) => p \in Items(d)
  BY <1>1 DEF DrainInvOf, Items
<1>. QED  BY <1>2 DEF Quiet

LEMMA ReturnsQuiet ==
    ASSUME TypeOK, NEW d \in Drainer, DrainInvOf(d), MaxEvasions <= 1, Returns(d)
    PROVE  Quiet(d)
<1>1. drain[d].pc = "read" /\ Items(d) = {} /\ drain[d].empty /\ Bounded(d)
  BY DEF Returns, Proved
<1>2. CASE Slips(d)
  <2>1. drain[d].evaded \in Nat /\ drain[d].evaded < MaxEvasions
    BY <1>1, <1>2, BoundAssumption DEF Bounded, TypeOK
  <2>2. drain[d].evaded = 0
    BY <2>1, BoundAssumption
  <2>. QED  BY <1>1, <2>2 DEF DrainInvOf
<1>3. CASE ~Slips(d)
  BY <1>1, <1>3, ScanFindsNothing
<1>. QED  BY <1>2, <1>3

LEMMA ScopeKept ==
    ASSUME TypeOK, [Next]_vars, NEW d \in Drainer, d = Reaper => reap'.at = reap.at,
           NEW p \in Process, Alive(p)
    PROVE  InScope(d, p)' <=> InScope(d, p)
<1>1. SessionOf(p)' = SessionOf(p)
  BY SessionKept DEF Alive
<1>. QED  BY <1>1 DEF InScope

LEMMA QuietKept ==
    ASSUME TypeOK, [Next]_vars, NEW d \in Drainer, d = Reaper => reap'.at = reap.at,
           Shrinks, Quiet(d)
    PROVE  Quiet(d)'
<1>. SUFFICES ASSUME NEW p \in Process, Alive(p)', InScope(d, p)' PROVE FALSE
  BY DEF Quiet
<1>1. Alive(p)
  BY DEF Shrinks
<1>. QED  BY <1>1, ScopeKept DEF Quiet

(* What comes alive in the scope of a drain was made by something in it. *)
LEMMA Maker ==
    ASSUME TypeOK, RecordInv, TargetInv, [Next]_vars, NEW d \in Drainer, Kept(d),
           drain[d].pc # "off",
           NEW p \in Process, Alive(p)', InScope(d, p)', ~(Alive(p) /\ InScope(d, p))
    PROVE  \E q \in Process : Alive(q) /\ InScope(d, q) /\ Makes(q)
<1>1. d = Reaper => reap'.at = reap.at
  BY DEF Kept
<1>2. ~Alive(p)
  BY <1>1, ScopeKept
<1>3. CASE \E q \in Process : Works(q) /\ Makes(q) /\ SessionOf(p)' = SessionOf(q)
  <2>1. PICK q \in Process : Works(q) /\ Makes(q) /\ SessionOf(p)' = SessionOf(q)
    BY <1>3
  <2>2. Alive(q)
    BY <2>1 DEF Works, Alive
  <2>3. InScope(d, q)
    BY <1>1, <2>1 DEF InScope
  <2>. QED  BY <2>1, <2>2, <2>3
<1>4. CASE p \in Handler /\ LaunchSpawn(p) /\ Makes(Launcher[p])
  <2>1. ~Launched(p) /\ launch[p] = "intent"
    BY <1>4 DEF LaunchSpawn, Launched
  <2>2. SessionOf(p)' = p
    BY <1>4, Sets DEF SessionOf
  <2>3. d = Supervisor
    <3>1. CASE d = Reaper
      BY <1>1, <2>1, <2>2, <3>1, Sets DEF InScope, TargetInv
    <3>2. CASE d \in Handler
      BY <2>1, <2>2, <3>2, Sets DEF InScope, TargetInv
    <3>. QED  BY <3>1, <3>2 DEF Drainer
  <2>4. Launcher[p] \in Process /\ Alive(Launcher[p])
    BY <1>4, Sets DEF LaunchSpawn, Works, Alive
  <2>5. InScope(d, Launcher[p])
    BY <2>3 DEF InScope
  <2>. QED  BY <1>4, <2>4, <2>5
<1>. QED  BY <1>2, <1>3, <1>4, Births

(* What a drain lists is all that lives in its scope.  The supervisor knows *)
(* every session by its receipt.                                            *)
LEMMA ListCovers ==
    ASSUME TypeOK, RecordInv, Receipted, NEW d \in Drainer, NEW S \in SUBSET Session,
           IF d = Supervisor THEN Rescan /\ S = stop'.groups
           ELSE S = {IF d = Reaper THEN reap.at ELSE d},
           NEW p \in Process, Alive(p), InScope(d, p)
    PROVE  p \in Members(S)
<1>1. CASE d # Supervisor
  BY <1>1 DEF InScope, Members
<1>2. CASE d = Supervisor
  <2>1. SessionOf(p) \in {Executor} \cup Handler
    BY TypeParts, SessionIn DEF Session, Alive
  <2>2. {Executor} \cup Boundaries \subseteq S
    BY <1>2 DEF Rescan, TypeOK
  <2>3. ASSUME SessionOf(p) \in Handler PROVE SessionOf(p) \in Boundaries
    <3>1. CASE p \in Handler /\ stage[p] # "work"
      <4>1. SessionOf(p) = p
        BY <3>1, Sets DEF SessionOf
      <4>2. record[p] # "none" /\ record[p] # "launching"
        BY <1>2, <3>1 DEF RecordInv, Rescan
      <4>3. record[p] = "published"
        BY <3>1, <4>2 DEF TypeOK
      <4>. QED  BY <3>1, <4>1, <4>3 DEF Boundaries
    <3>2. CASE p \in Handler => stage[p] = "work"
      BY <2>3, <3>2 DEF Receipted, Active, Boundaries
    <3>. QED  BY <3>1, <3>2
  <2>. QED  BY <2>1, <2>2, <2>3 DEF Members
<1>. QED  BY <1>1, <1>2

LEMMA DrainInvStep ==
    ASSUME ReceiptInv, [Next]_vars, NEW d \in Drainer
    PROVE  DrainInvOf(d)'
<1>. USE DEF ReceiptInv
<1>1. DrainInvOf(d) /\ drain[d] \in Scan
  BY TypeParts DEF DrainInv, DrainType
<1>2. CASE Resets(d)
  BY <1>2 DEF Resets, DrainInvOf
<1>3. CASE Kept(d)
  <2>1. drain'[d].pc # "read" => drain'[d].listed = {} /\ drain'[d].made = {}
    BY <1>1, <1>3 DEF Kept, DrainInvOf
  <2>2. drain'[d].made \subseteq drain'[d].listed
    BY <1>1, <1>3 DEF Kept, DrainInvOf
  <2>3. ASSUME drain'[d].pc = "read", drain'[d].made = {},
               NEW p \in Process, Alive(p)', InScope(d, p)'
        PROVE  p \in drain'[d].listed
    <3>1. drain[d].pc = "read" /\ drain[d].made = {}
      BY <1>3, <2>3 DEF Kept
    <3>2. CASE Alive(p) /\ InScope(d, p)
      BY <1>1, <1>3, <3>1, <3>2 DEF Kept, DrainInvOf
    <3>3. CASE ~(Alive(p) /\ InScope(d, p))
      <4>1. PICK q \in Process : Alive(q) /\ InScope(d, q) /\ Makes(q)
        BY <1>3, <2>3, <3>1, <3>3, Maker
      <4>2. q \in drain[d].listed
        BY <1>1, <3>1, <4>1 DEF DrainInvOf
      <4>3. drain'[d] = [drain[d] EXCEPT !.made = @ \cup {q}]
        BY <4>1, <4>2 DEF Makes
      <4>4. q \in drain'[d].made
        BY <1>1, <4>3 DEF Scan
      <4>. QED  BY <2>3, <4>4
    <3>. QED  BY <3>2, <3>3
  <2>4. ASSUME drain'[d].pc # "off", drain'[d].empty, drain'[d].evaded = 0,
               NEW p \in Process, Alive(p)', InScope(d, p)'
        PROVE  FALSE
    <3>1. Quiet(d) /\ drain[d].pc # "off"
      BY <1>1, <1>3, <2>4 DEF Kept, DrainInvOf
    <3>2. CASE Alive(p) /\ InScope(d, p)
      BY <3>1, <3>2 DEF Quiet
    <3>3. CASE ~(Alive(p) /\ InScope(d, p))
      <4>1. PICK q \in Process : Alive(q) /\ InScope(d, q) /\ Makes(q)
        BY <1>3, <2>4, <3>1, <3>3, Maker
      <4>. QED  BY <3>1, <4>1 DEF Quiet
    <3>. QED  BY <3>2, <3>3
  <2>. QED  BY <2>1, <2>2, <2>3, <2>4 DEF DrainInvOf, Quiet
<1>4. CASE Scans(d) /\ Pass(d)
  <2>1. Shrinks /\ (d = Reaper => reap'.at = reap.at)
    BY <1>4, PassShrinks DEF Scans
  <2>2. /\ drain'[d].pc = "list" /\ drain'[d].listed = {} /\ drain'[d].made = {}
        /\ drain'[d].empty <=> Items(d) = {}
        /\ drain'[d].evaded = IF Slips(d) THEN drain[d].evaded + 1 ELSE 0
    BY <1>4 DEF Pass, TypeOK
  <2>3. ASSUME drain'[d].empty, drain'[d].evaded = 0 PROVE Quiet(d)'
    <3>1. Items(d) = {}
      BY <2>2, <2>3
    <3>2. ~Slips(d)
      BY <1>1, <2>2, <2>3 DEF Scan
    <3>3. Quiet(d)
      BY <1>1, <1>4, <3>1, <3>2, ScanFindsNothing DEF Pass
    <3>. QED  BY <2>1, <3>3, QuietKept
  <2>. QED  BY <2>2, <2>3 DEF DrainInvOf
<1>5. CASE Scans(d) /\ ~Pass(d)
  <2>1. PICK S \in SUBSET Session :
           /\ drain[d].pc = "list" /\ List(d, S) /\ UNCHANGED <<processes, record>>
           /\ IF d = Supervisor THEN Rescan /\ S = stop'.groups
              ELSE S = {IF d = Reaper THEN reap.at ELSE d}
    BY <1>5 DEF Scans
  <2>2. Shrinks /\ (d = Reaper => reap'.at = reap.at)
    BY <1>5, <2>1, SameShrinks DEF Scans
  <2>3. drain'[d] = [drain[d] EXCEPT !.pc = "read", !.listed = Members(S)]
    <3>1. DrainType
      BY TypeParts
    <3>2. drain' = [drain EXCEPT ![d] = [drain[d] EXCEPT !.pc = "read", !.listed = Members(S)]]
      BY <2>1, <3>1, ListIs
    <3>. QED  BY <3>1, <3>2 DEF DrainType
  <2>4. /\ drain'[d].pc = "read" /\ drain'[d].listed = Members(S)
        /\ drain'[d].made = {} /\ drain'[d].empty = drain[d].empty
        /\ drain'[d].evaded = drain[d].evaded
    BY <1>1, <2>1, <2>3 DEF Scan, DrainInvOf
  <2>5. ASSUME NEW p \in Process, Alive(p)', InScope(d, p)' PROVE p \in Members(S)
    <3>1. Alive(p) /\ InScope(d, p)
      BY <2>2, <2>5, ScopeKept DEF Shrinks
    <3>. QED  BY <2>1, <3>1, ListCovers
  <2>6. drain'[d].empty /\ drain'[d].evaded = 0 => Quiet(d)'
    BY <1>1, <2>1, <2>2, <2>4, QuietKept DEF DrainInvOf
  <2>. QED  BY <2>4, <2>5, <2>6 DEF DrainInvOf
<1>. QED  BY <1>2, <1>3, <1>4, <1>5, DrainStep

-----------------------------------------------------------------------------
(* The receipts stay as long as they are needed. *)

LEMMA ClearsQuiet ==
    ASSUME ReceiptInv, MaxEvasions <= 1, NEW h \in Handler, Clears(h)
    PROVE  \A p \in Process : SessionOf(p) = h => ~Alive(p)
<1>1. CASE Returns(h)
  <2>1. Quiet(h)
    BY <1>1, Sets, ReturnsQuiet DEF ReceiptInv, DrainInv
  <2>. QED  BY <2>1, Sets DEF Quiet, InScope
<1>2. CASE Returns(Reaper) /\ reap.at = h
  <2>1. Quiet(Reaper)
    BY <1>2, Sets, ReturnsQuiet DEF ReceiptInv, DrainInv
  <2>. QED  BY <1>2, <2>1, Sets DEF Quiet, InScope
<1>. QED  BY <1>1, <1>2 DEF Clears

LEMMA ClearsKeeps ==
    ASSUME NEW h \in Handler, Clears(h)
    PROVE  UNCHANGED processes
  BY DEF Clears, Returns

(* Nothing is spawned for a launch that Popen has left behind. *)
LEMMA SpawnNotLaunched ==
    ASSUME NEW h \in Handler, LaunchSpawn(h)
    PROVE  ~Launched(h)
  BY DEF LaunchSpawn, Launched

LEMMA SpawnLaunched ==
    ASSUME TypeOK, NEW h \in Handler, LaunchSpawn(h)
    PROVE  Launched(h)'
  BY DEF LaunchSpawn, Launched, TypeOK

LEMMA IntentStep ==
    ASSUME TypeOK, [Next]_vars, NEW h \in Handler, launch'[h] = "intent"
    PROVE  launch[h] = "intent" \/ LaunchIntent(h)
<1>1. ASSUME NEW g \in Handler,
             \/ LaunchCheck(g) \/ LaunchIntent(g) \/ LaunchSpawn(g) \/ LaunchSeen(g)
             \/ LaunchLost(g) \/ LaunchEnds(g) \/ LaunchReaped(g)
      PROVE  launch[h] = "intent" \/ LaunchIntent(h)
  BY <1>1
  DEF LaunchCheck, LaunchIntent, LaunchSpawn, LaunchSeen, LaunchLost, LaunchEnds, LaunchReaped,
      TypeOK
<1>2. CASE Reaped
  BY <1>2 DEF Reaped, TypeOK
<1>3. ASSUME NEW g \in Handler,
             Publish(g) \/ Execute(g) \/ LaunchDrains(g) \/ ReapChild(g) \/ ReapRecord(g)
      PROVE  launch' = launch
  BY <1>3 DEF Publish, Execute, LaunchDrains, ReapChild, ReapRecord
<1>4. ASSUME NEW p \in Process, Exit(p) \/ \E c \in Child : Fork(p, c) PROVE launch' = launch
  BY <1>4 DEF Exit, Fork
<1>5. CASE Cancel \/ ReapBegin \/ ReapChildren \/ ReapRecords \/ ReapDrains \/ ReapDone
  BY <1>5 DEF Cancel, ReapBegin, ReapChildren, ReapRecords, ReapDrains, ReapDone
<1>6. CASE StopBegin \/ StopDrains \/ StopProves \/ StopFails \/ UNCHANGED vars
  BY <1>6 DEF StopBegin, StopDrains, StopProves, StopFails, vars
<1>. QED  BY <1>1, <1>2, <1>3, <1>4, <1>5, <1>6 DEF Next

LEMMA RecordInvStep ==
    ASSUME ReceiptInv, MaxEvasions <= 1, [Next]_vars
    PROVE  RecordInv'
<1>. USE DEF ReceiptInv
<1>. SUFFICES ASSUME NEW h \in Handler
              PROVE  /\ proc'[h] # "none" => Launched(h)'
                     /\ Alive(h)' => record'[h] # "none"
                     /\ record'[h] = "published" => Launched(h)'
                     /\ stage'[h] = "work" => Launched(h)'
                     /\ launch'[h] = "intent" => record'[h] = "launching"
  BY DEF RecordInv
<1>1. /\ proc[h] # "none" => Launched(h)
      /\ Alive(h) => record[h] # "none"
      /\ record[h] = "published" => Launched(h)
      /\ stage[h] = "work" => Launched(h)
      /\ launch[h] = "intent" => record[h] = "launching"
  BY DEF RecordInv
<1>2. h \in Process /\ h \notin Child
  BY Sets
<1>3. ASSUME proc'[h] # "none" PROVE Launched(h)'
  <2>1. CASE proc[h] # "none"
    BY <1>1, <2>1, LaunchedKept
  <2>2. CASE proc[h] = "none"
    <3>1. CASE Shrinks
      BY <1>2, <1>3, <2>2, <3>1 DEF Shrinks
    <3>2. ASSUME NEW q \in Process, NEW c \in Child, Fork(q, c) PROVE FALSE
      BY <1>2, <1>3, <2>2, <3>2, ForkStep
    <3>3. ASSUME NEW g \in Handler, LaunchSpawn(g) PROVE Launched(h)'
      <4>1. g = h
        BY <1>2, <1>3, <2>2, <3>3, SpawnStep
      <4>. QED  BY <3>3, <4>1, SpawnLaunched
    <3>. QED  BY <3>1, <3>2, <3>3, ProcStep
  <2>. QED  BY <2>1, <2>2
<1>4. ASSUME Alive(h)' PROVE record'[h] # "none"
  <2>1. CASE Alive(h)
    <3>1. ~Clears(h)
      BY <1>2, <2>1, ClearsQuiet DEF SessionOf
    <3>. QED  BY <1>1, <2>1, <3>1, RecordStep
  <2>2. CASE ~Alive(h)
    <3>1. LaunchSpawn(h)
      BY <1>2, <1>4, <2>2, Births
    <3>. QED  BY <1>1, <3>1 DEF LaunchSpawn
  <2>. QED  BY <2>1, <2>2
<1>5. ASSUME record'[h] = "published" PROVE Launched(h)'
  <2>1. CASE record[h] = "published"
    BY <1>1, <2>1, LaunchedKept
  <2>2. CASE Publish(h)
    BY <1>1, <2>2, LaunchedKept DEF Publish
  <2>. QED  BY <1>5, <2>1, <2>2, RecordStep DEF Clears
<1>6. ASSUME stage'[h] = "work" PROVE Launched(h)'
  <2>1. CASE stage[h] = "work"
    BY <1>1, <2>1, LaunchedKept
  <2>2. CASE stage[h] # "work"
    <3>1. Execute(h)
      BY <1>6, <2>2, StageStep
    <3>. QED  BY <1>1, <3>1, LaunchedKept DEF Execute
  <2>. QED  BY <2>1, <2>2
<1>7. ASSUME launch'[h] = "intent" PROVE record'[h] = "launching"
  <2>1. ~Launched(h)
    BY <1>7, LaunchedKept DEF Launched
  <2>2. CASE LaunchIntent(h)
    BY <2>2 DEF LaunchIntent, TypeOK
  <2>3. CASE launch[h] = "intent"
    <3>1. ~Publish(h)
      BY <1>1, <2>1 DEF Publish
    <3>2. ~Clears(h)
      BY <2>1, Sets DEF Clears, Launched, TargetInv, Returns
    <3>. QED  BY <1>1, <2>3, <3>1, <3>2, RecordStep
  <2>. QED  BY <1>7, <2>2, <2>3, IntentStep
<1>. QED  BY <1>3, <1>4, <1>5, <1>6, <1>7

LEMMA ReceiptedIs ==
    Receipted <=> \A p \in Process : Contained(p) => record[SessionOf(p)] = "published"
  BY DEF Receipted, Contained

(* A process that becomes active joins a session with an active one, or     *)
(* executes a handler whose identity is published.                          *)
LEMMA ActiveStep ==
    ASSUME TypeOK, RecordInv, [Next]_vars, NEW p \in Process, Active(p)'
    PROVE  \/ \E q \in Process : Active(q) /\ SessionOf(p)' = SessionOf(q)
           \/ p \in Handler /\ Execute(p)
<1>1. CASE Active(p)
  BY <1>1, SessionKept DEF Active, Alive
<1>2. CASE Alive(p) /\ ~Active(p)
  <2>1. p \in Handler /\ stage'[p] # stage[p]
    BY <1>2 DEF Active
  <2>. QED  BY <2>1, StageStep
<1>3. CASE ~Alive(p)
  <2>1. CASE p \in Handler /\ LaunchSpawn(p)
    <3>1. stage[p] # "work"
      BY <2>1, SpawnNotLaunched DEF RecordInv
    <3>2. stage'[p] = stage[p]
      BY <2>1 DEF LaunchSpawn
    <3>. QED  BY <2>1, <3>1, <3>2 DEF Active
  <2>2. CASE \E q \in Process : Works(q) /\ SessionOf(p)' = SessionOf(q)
    BY <2>2 DEF Active, Works, Alive
  <2>. QED  BY <1>3, <2>1, <2>2, Births DEF Active
<1>. QED  BY <1>1, <1>2, <1>3

LEMMA ContainedStep ==
    ASSUME TypeOK, RecordInv, [Next]_vars, NEW p \in Process, Contained(p)'
    PROVE  \/ \E q \in Process : Contained(q) /\ SessionOf(p)' = SessionOf(q)
           \/ p \in Handler /\ Execute(p)
<1>1. CASE \E q \in Process : Active(q) /\ SessionOf(p)' = SessionOf(q)
  BY <1>1 DEF Contained
<1>. QED  BY <1>1, ActiveStep DEF Contained

LEMMA ReceiptedStep ==
    ASSUME ReceiptInv, MaxEvasions <= 1, [Next]_vars
    PROVE  Receipted'
<1>. USE DEF ReceiptInv
<1>. SUFFICES ASSUME NEW p \in Process, Contained(p)'
              PROVE  record'[SessionOf(p)'] = "published"
  BY DEF Receipted, Contained
<1>1. CASE \E q \in Process : Contained(q) /\ SessionOf(p)' = SessionOf(q)
  <2>1. PICK q \in Process : Contained(q) /\ SessionOf(p)' = SessionOf(q)
    BY <1>1
  <2>. DEFINE h == SessionOf(q)
  <2>2. h \in Handler /\ Alive(q) /\ record[h] = "published"
    BY <2>1, ReceiptedIs DEF Contained, Active
  <2>3. ~Clears(h)
    BY <2>1, <2>2, ClearsQuiet
  <2>4. record'[h] = "published"
    <3>. HIDE DEF h
    <3>. QED  BY <2>2, <2>3, RecordStep
  <2>. QED  BY <2>1, <2>4
<1>2. CASE p \in Handler /\ Execute(p)
  <2>1. SessionOf(p)' = p
    BY <1>2, Sets DEF SessionOf
  <2>. QED  BY <1>2, <2>1 DEF Execute
<1>. QED  BY <1>1, <1>2, ContainedStep

LEMMA LaunchTargetStep ==
    ASSUME TypeOK, RecordInv, TargetInv, NEW h \in Handler,
           \/ LaunchCheck(h) \/ LaunchIntent(h) \/ LaunchSpawn(h) \/ Publish(h) \/ Execute(h)
           \/ LaunchSeen(h) \/ LaunchLost(h) \/ LaunchEnds(h) \/ LaunchDrains(h) \/ LaunchReaped(h)
    PROVE  /\ reap' = reap /\ stop' = stop
           /\ \A g \in tracked' : g \in tracked \/ Launched(g)
           /\ \A d \in Drainer \ {h} : drain'[d].pc = drain[d].pc
           /\ \A g \in Handler \ {h} : launch'[g] = launch[g]
           /\ drain'[h].pc # "off" => launch'[h] = "reaping"
<1>1. h \in Drainer /\ (drain[h].pc # "off" => launch[h] = "reaping")
  BY Sets DEF TargetInv
<1>2. CASE LaunchCheck(h) \/ LaunchIntent(h) \/ Publish(h) \/ Execute(h) \/ LaunchLost(h)
  BY <1>1, <1>2 DEF LaunchCheck, LaunchIntent, Publish, Execute, LaunchLost, TypeOK
<1>3. CASE LaunchSeen(h)
  BY <1>1, <1>3 DEF LaunchSeen, Launched, TypeOK
<1>4. CASE LaunchSpawn(h)
  <2>1. \A d \in Drainer : drain'[d].pc = drain[d].pc
    <3>1. CASE Makes(Launcher[h])
      <4>1. \A d \in Drainer : Kept(d)
        BY <1>4, <3>1, Sets, MakesKept DEF LaunchSpawn
      <4>. QED  BY <4>1 DEF Kept
    <3>. QED  BY <1>4, <3>1 DEF LaunchSpawn
  <2>. QED  BY <1>1, <1>4, <2>1, Sets DEF LaunchSpawn, TypeOK
<1>5. CASE LaunchEnds(h)
  BY <1>5 DEF LaunchEnds, Starts, TypeOK
<1>6. CASE LaunchDrains(h)
  <2>1. \A d \in Drainer \ {h} : drain'[d].pc = drain[d].pc
    <3>1. CASE List(h, {h})
      <4>1. DrainType
        BY TypeParts
      <4>2. drain' = [drain EXCEPT ![h] = [drain[h] EXCEPT !.pc = "read", !.listed = Members({h})]]
        BY <3>1, <4>1, Sets, ListIs
      <4>. QED  BY <4>1, <4>2 DEF DrainType
    <3>2. CASE Pass(h)
      BY <3>2 DEF Pass, TypeOK
    <3>. QED  BY <1>6, <3>1, <3>2 DEF LaunchDrains
  <2>. QED  BY <1>6, <2>1 DEF LaunchDrains
<1>7. CASE LaunchReaped(h)
  <2>1. drain' = [drain EXCEPT ![h] = NoDrain]
    BY <1>7 DEF LaunchReaped, Returns, GivesUp
  <2>. QED  BY <1>7, <2>1, Sets DEF LaunchReaped, NoDrain, TypeOK
<1>. QED  BY <1>2, <1>3, <1>4, <1>5, <1>6, <1>7

LEMMA ReapTargetStep ==
    ASSUME TypeOK, RecordInv, TargetInv,
           \/ \E h \in Handler : ReapChild(h) \/ ReapRecord(h)
           \/ ReapBegin \/ ReapChildren \/ ReapRecords \/ ReapDrains \/ Reaped \/ ReapDone
    PROVE  /\ stop' = stop /\ tracked' \subseteq tracked
           /\ \A d \in Drainer \ {Reaper} : drain'[d].pc = drain[d].pc
           /\ \A h \in Handler : launch[h] = "reaping" => launch'[h] = "reaping"
           /\ reap'.at # None => Launched(reap'.at)
           /\ drain'[Reaper].pc # "off" => reap'.at # None
<1>1. Reaper \in Drainer /\ reap.at \in Handler \cup {None} /\ None \notin Handler
  BY Sets, DistinctAssumption DEF TypeOK
<1>2. /\ reap.at # None => Launched(reap.at)
      /\ drain[Reaper].pc # "off" => reap.at # None
  BY DEF TargetInv
<1>3. CASE ReapBegin \/ ReapChildren \/ ReapRecords \/ ReapDone
  <2>1. reap'.at = reap.at
    BY <1>3, ReapAtSame
  <2>2. UNCHANGED <<stop, tracked, drain, launch>>
    BY <1>3 DEF ReapBegin, ReapChildren, ReapRecords, ReapDone
  <2>. QED  BY <1>2, <2>1, <2>2 DEF Launched
<1>4. CASE ReapDrains
  <2>1. \A d \in Drainer \ {Reaper} : drain'[d].pc = drain[d].pc
    <3>1. CASE List(Reaper, {reap.at})
      <4>1. DrainType
        BY TypeParts
      <4>2. drain' = [drain EXCEPT ![Reaper] =
                         [drain[Reaper] EXCEPT !.pc = "read", !.listed = Members({reap.at})]]
        BY <1>1, <3>1, <4>1, ListIs
      <4>. QED  BY <4>1, <4>2 DEF DrainType
    <3>2. CASE Pass(Reaper)
      BY <3>2 DEF Pass, TypeOK
    <3>. QED  BY <1>4, <3>1, <3>2 DEF ReapDrains
  <2>. QED  BY <1>2, <1>4, <2>1 DEF ReapDrains
<1>5. CASE Reaped
  <2>1. drain' = [drain EXCEPT ![Reaper] = NoDrain]
    BY <1>5 DEF Reaped, Returns, GivesUp
  <2>2. /\ \A d \in Drainer \ {Reaper} : drain'[d].pc = drain[d].pc
        /\ drain'[Reaper].pc = "off"
    BY <1>1, <2>1 DEF NoDrain, TypeOK
  <2>3. reap'.at = None
    <3>1. \/ reap' = [pc |-> "off", todo |-> {}, at |-> None]
          \/ reap' = [reap EXCEPT !.todo = @ \ {reap.at}, !.at = None]
      BY <1>5 DEF Reaped
    <3>2. CASE reap' = [pc |-> "off", todo |-> {}, at |-> None]
      BY <3>2
    <3>3. CASE reap' = [reap EXCEPT !.todo = @ \ {reap.at}, !.at = None]
      BY <3>3, TypeParts DEF StopReapType
    <3>. QED  BY <3>1, <3>2, <3>3
  <2>4. \A h \in Handler : launch[h] = "reaping" => launch'[h] = "reaping"
    BY <1>5 DEF Reaped, TypeOK
  <2>5. stop' = stop /\ tracked' \subseteq tracked
    BY <1>5 DEF Reaped
  <2>. QED  BY <2>2, <2>3, <2>4, <2>5
<1>6. ASSUME NEW h \in Handler, ReapChild(h) \/ ReapRecord(h)
      PROVE  /\ \A d \in Drainer \ {Reaper} : drain'[d].pc = drain[d].pc
             /\ reap'.at # None => Launched(reap'.at)
             /\ drain'[Reaper].pc # "off" => reap'.at # None
             /\ UNCHANGED <<launch, tracked, stop>>
  <2>1. UNCHANGED <<launch, tracked, stop>> /\ reap.at = None
    BY <1>6 DEF ReapChild, ReapRecord
  <2>2. CASE drain' = drain
    <3>1. drain[Reaper].pc = "off"
      BY <1>2, <2>1
    <3>2. reap'.at = None
      BY <1>6, <2>2, <3>1, <1>1 DEF ReapChild, ReapRecord, Starts, NoDrain, TypeOK
    <3>. QED  BY <2>1, <2>2, <3>1, <3>2
  <2>3. CASE Starts(Reaper)
    <3>1. \A d \in Drainer \ {Reaper} : drain'[d].pc = drain[d].pc
      BY <2>3 DEF Starts, TypeOK
    <3>2. drain'[Reaper].pc = "list"
      BY <1>1, <2>3 DEF Starts, NoDrain, TypeOK
    <3>3. drain[Reaper].pc = "off"
      BY <1>2, <2>1
    <3>4. drain' # drain
      BY <3>2, <3>3
    <3>5. reap'.at = h /\ Launched(h)
      BY <1>6, <3>4 DEF ReapChild, ReapRecord, TargetInv, RecordInv, TypeOK
    <3>. QED  BY <1>1, <2>1, <3>1, <3>5
  <2>. QED  BY <1>6, <2>2, <2>3 DEF ReapChild, ReapRecord
<1>. QED  BY <1>3, <1>4, <1>5, <1>6

LEMMA StopTargetStep ==
    ASSUME TypeOK, TargetInv, StopBegin \/ StopDrains \/ StopProves \/ StopFails
    PROVE  /\ UNCHANGED <<launch, tracked, reap>>
           /\ \A d \in Drainer \ {Supervisor} : drain'[d].pc = drain[d].pc
           /\ drain'[Supervisor].pc # "off" => stop'.pc = "stopping"
<1>1. UNCHANGED <<launch, tracked, reap>> /\ Supervisor \in Drainer
  BY Sets DEF StopBegin, StopDrains, StopProves, StopFails
<1>2. CASE StopBegin
  BY <1>1, <1>2 DEF StopBegin, Starts, TypeOK
<1>3. CASE StopDrains
  <2>1. stop'.pc = "stopping"
    BY <1>3 DEF StopDrains, Rescan, TypeOK
  <2>2. CASE List(Supervisor, stop'.groups)
    <3>1. DrainType
      BY TypeParts
    <3>2. drain' = [drain EXCEPT ![Supervisor] =
                       [drain[Supervisor] EXCEPT !.pc = "read", !.listed = Members(stop'.groups)]]
      BY <1>1, <2>2, <3>1, ListIs
    <3>. QED  BY <1>1, <2>1, <3>1, <3>2 DEF DrainType
  <2>3. CASE Pass(Supervisor)
    BY <1>1, <2>1, <2>3 DEF Pass, TypeOK
  <2>. QED  BY <1>3, <2>2, <2>3 DEF StopDrains
<1>4. CASE StopProves \/ StopFails
  BY <1>1, <1>4 DEF StopProves, StopFails, Returns, GivesUp, NoDrain, TypeOK
<1>. QED  BY <1>2, <1>3, <1>4

LEMMA TargetInvStep ==
    ASSUME TypeOK, RecordInv, TargetInv, [Next]_vars
    PROVE  TargetInv'
<1>1. Supervisor \in Drainer /\ Reaper \in Drainer /\ Handler \subseteq Drainer
  BY Sets
<1>2. Supervisor # Reaper /\ Supervisor \notin Handler /\ Reaper \notin Handler /\ None \notin Handler
  BY Sets, DistinctAssumption
<1>3. \A h \in Handler : Launched(h) => Launched(h)'
  BY LaunchedKept
<1>4. tracked \subseteq Handler /\ tracked' \subseteq Handler /\ reap'.at \in Handler \cup {None}
  <2>1. TypeOK'
    BY TypeStep
  <2>. QED  BY <2>1 DEF TypeOK
<1>5. ASSUME UNCHANGED <<launch, tracked, reap, stop>>,
             \A d \in Drainer : drain'[d].pc = drain[d].pc
      PROVE  TargetInv'
  BY <1>1, <1>5 DEF TargetInv, Launched
<1>6. ASSUME NEW h \in Handler,
             \/ LaunchCheck(h) \/ LaunchIntent(h) \/ LaunchSpawn(h) \/ Publish(h) \/ Execute(h)
             \/ LaunchSeen(h) \/ LaunchLost(h) \/ LaunchEnds(h) \/ LaunchDrains(h) \/ LaunchReaped(h)
      PROVE  TargetInv'
  <2>1. /\ reap' = reap /\ stop' = stop
        /\ \A g \in tracked' : g \in tracked \/ Launched(g)
        /\ \A d \in Drainer \ {h} : drain'[d].pc = drain[d].pc
        /\ \A g \in Handler \ {h} : launch'[g] = launch[g]
        /\ drain'[h].pc # "off" => launch'[h] = "reaping"
    BY <1>6, LaunchTargetStep
  <2>2. \A g \in tracked' : Launched(g)'
    BY <1>3, <1>4, <2>1 DEF TargetInv
  <2>3. reap'.at # None => launch'[reap'.at] \notin {"idle", "checked", "intent"}
    BY <1>3, <1>4, <2>1 DEF TargetInv, Launched
  <2>4. \A g \in Handler : drain'[g].pc # "off" => launch'[g] = "reaping"
    BY <1>1, <2>1 DEF TargetInv
  <2>5. /\ drain'[Supervisor].pc # "off" => stop'.pc = "stopping"
        /\ drain'[Reaper].pc # "off" => reap'.at # None
    BY <1>1, <1>2, <2>1 DEF TargetInv
  <2>. QED  BY <2>2, <2>3, <2>4, <2>5 DEF TargetInv, Launched
<1>7. CASE \/ \E h \in Handler : ReapChild(h) \/ ReapRecord(h)
           \/ ReapBegin \/ ReapChildren \/ ReapRecords \/ ReapDrains \/ Reaped \/ ReapDone
  <2>1. /\ stop' = stop /\ tracked' \subseteq tracked
        /\ \A d \in Drainer \ {Reaper} : drain'[d].pc = drain[d].pc
        /\ \A h \in Handler : launch[h] = "reaping" => launch'[h] = "reaping"
        /\ reap'.at # None => Launched(reap'.at)
        /\ drain'[Reaper].pc # "off" => reap'.at # None
    BY <1>7, ReapTargetStep
  <2>2. \A g \in tracked' : Launched(g)'
    BY <1>3, <1>4, <2>1 DEF TargetInv
  <2>3. reap'.at # None => launch'[reap'.at] \notin {"idle", "checked", "intent"}
    BY <1>3, <1>4, <2>1 DEF Launched
  <2>4. \A g \in Handler : drain'[g].pc # "off" => launch'[g] = "reaping"
    BY <1>1, <1>2, <2>1 DEF TargetInv
  <2>5. drain'[Supervisor].pc # "off" => stop'.pc = "stopping"
    BY <1>1, <1>2, <2>1 DEF TargetInv
  <2>. QED  BY <2>1, <2>2, <2>3, <2>4, <2>5 DEF TargetInv, Launched
<1>8. CASE StopBegin \/ StopDrains \/ StopProves \/ StopFails
  <2>1. /\ UNCHANGED <<launch, tracked, reap>>
        /\ \A d \in Drainer \ {Supervisor} : drain'[d].pc = drain[d].pc
        /\ drain'[Supervisor].pc # "off" => stop'.pc = "stopping"
    BY <1>8, StopTargetStep
  <2>. QED  BY <1>1, <1>2, <2>1 DEF TargetInv, Launched
<1>9. ASSUME NEW p \in Process, NEW c \in Child, Fork(p, c) PROVE TargetInv'
  <2>1. \A d \in Drainer : Kept(d)
    BY <1>9, MakesKept DEF Fork
  <2>. QED  BY <1>5, <1>9, <2>1 DEF Fork, Kept
<1>10. ASSUME NEW p \in Process, Exit(p) PROVE TargetInv'
  BY <1>5, <1>10 DEF Exit
<1>11. CASE Cancel \/ UNCHANGED vars
  BY <1>5, <1>11 DEF Cancel, vars
<1>. QED  BY <1>6, <1>7, <1>8, <1>9, <1>10, <1>11 DEF Next

-----------------------------------------------------------------------------
(* The theorems *)

LEMMA ReceiptInit == ASSUME Init PROVE ReceiptInv
<1>1. TypeOK
  BY TypeInit
<1>2. RecordInv
  BY Sets DEF Init, RecordInv, Alive
<1>3. TargetInv
  BY Sets DEF Init, TargetInv, NoDrain
<1>4. DrainInv
  BY DEF Init, DrainInv, DrainInvOf, NoDrain
<1>5. Receipted
  BY Sets DEF Init, Receipted, Active, Alive, SessionOf
<1>. QED  BY <1>1, <1>2, <1>3, <1>4, <1>5 DEF ReceiptInv

LEMMA ReceiptStep ==
    ASSUME ReceiptInv, MaxEvasions <= 1, [Next]_vars
    PROVE  ReceiptInv'
<1>1. TypeOK' /\ TargetInv'
  BY TypeStep, TargetInvStep DEF ReceiptInv
<1>2. RecordInv' /\ Receipted'
  BY RecordInvStep, ReceiptedStep
<1>3. DrainInv'
  BY DrainInvStep DEF DrainInv
<1>. QED  BY <1>1, <1>2, <1>3 DEF ReceiptInv

LEMMA ReceiptInvariant == ASSUME MaxEvasions <= 1 PROVE Spec => []ReceiptInv
<1>. QED  BY ReceiptInit, ReceiptStep, PTL DEF Spec

(* A drain that has been reading is over only by its return. *)
LEMMA DrainOver ==
    ASSUME TypeOK, [Next]_vars, NEW d \in Drainer, drain[d].pc = "read", drain'[d].pc = "off"
    PROVE  Returns(d)
<1>1. drain \in [Drainer -> Scan] /\ drain' # drain
  BY TypeParts DEF DrainType
<1>2. ASSUME NEW e \in Drainer, Starts(e) PROVE FALSE
  BY <1>1, <1>2 DEF Starts, NoDrain
<1>3. ASSUME NEW e \in Drainer, Returns(e) \/ GivesUp(e) PROVE Returns(d)
  <2>1. drain' = [drain EXCEPT ![e] = NoDrain]
    BY <1>3 DEF Returns, GivesUp
  <2>2. d = e
    BY <1>1, <2>1
  <2>. QED  BY <1>3, <2>2 DEF GivesUp
<1>4. ASSUME NEW e \in Drainer, Pass(e) PROVE FALSE
  BY <1>1, <1>4 DEF Pass
<1>5. ASSUME NEW e \in Drainer, NEW S \in SUBSET Session, List(e, S) PROVE FALSE
  <2>1. drain' = [drain EXCEPT ![e] = [drain[e] EXCEPT !.pc = "read", !.listed = Members(S)]]
    BY <1>1, <1>5, TypeParts, ListIs DEF DrainType
  <2>. QED  BY <1>1, <2>1 DEF Scan
<1>6. ASSUME NEW q, Makes(q) PROVE FALSE
  BY <1>1, <1>6 DEF Makes, Scan
<1>7. ASSUME NEW h \in Handler, LaunchEnds(h) \/ LaunchDrains(h) \/ LaunchReaped(h)
      PROVE  Returns(d)
  <2>1. h \in Drainer /\ {h} \in SUBSET Session
    BY Sets
  <2>. QED  BY <1>2, <1>3, <1>4, <1>5, <1>7, <2>1 DEF LaunchEnds, LaunchDrains, LaunchReaped
<1>8. ASSUME NEW h \in Handler, ReapChild(h) \/ ReapRecord(h) PROVE FALSE
  BY <1>1, <1>2, <1>8, Sets DEF ReapChild, ReapRecord
<1>9. CASE ReapDrains \/ Reaped
  <2>1. Reaper \in Drainer /\ (reap.at # None => {reap.at} \in SUBSET Session)
    BY Sets, TypeParts DEF StopReapType, Session
  <2>. QED  BY <1>3, <1>4, <1>5, <1>9, <2>1 DEF ReapDrains, Reaped
<1>10. CASE StopBegin \/ StopDrains \/ StopProves \/ StopFails
  <2>1. Supervisor \in Drainer
    BY Sets
  <2>2. CASE StopDrains
    <3>1. Rescan => stop'.groups \in SUBSET Session
      BY TypeParts DEF Rescan, StopReapType, Boundaries, Session
    <3>. QED  BY <1>4, <1>5, <2>1, <2>2, <3>1 DEF StopDrains
  <2>. QED  BY <1>2, <1>3, <1>10, <2>1, <2>2 DEF StopBegin, StopProves, StopFails
<1>11. ASSUME NEW h \in Handler, LaunchSpawn(h) PROVE FALSE
  BY <1>1, <1>6, <1>11 DEF LaunchSpawn
<1>12. ASSUME NEW q \in Process, NEW c \in Child, Fork(q, c) PROVE FALSE
  BY <1>6, <1>12 DEF Fork
<1>13. ASSUME NEW h \in Handler,
              \/ LaunchCheck(h) \/ LaunchIntent(h) \/ Publish(h) \/ Execute(h)
              \/ LaunchSeen(h) \/ LaunchLost(h)
       PROVE  FALSE
  BY <1>1, <1>13 DEF LaunchCheck, LaunchIntent, Publish, Execute, LaunchSeen, LaunchLost
<1>14. CASE \/ Cancel \/ ReapBegin \/ ReapChildren \/ ReapRecords \/ ReapDone
            \/ \E q \in Process : Exit(q)
            \/ UNCHANGED vars
  BY <1>1, <1>14 DEF Cancel, ReapBegin, ReapChildren, ReapRecords, ReapDone, Exit, vars
<1>. QED
  BY <1>7, <1>8, <1>9, <1>10, <1>11, <1>12, <1>13, <1>14 DEF Next

(* DrainProves: when a drain returns, be it of a launch, of the reap or of  *)
(* the supervisor, no process of its sessions is alive (drain_processes),   *)
(* if no process slips through two of its scans in a row.                   *)
THEOREM DrainsProve == ASSUME MaxEvasions <= 1 PROVE Spec => DrainProves
<1>1. ASSUME ReceiptInv, [Next]_vars, NEW d \in Drainer,
             drain[d].pc = "read", drain'[d].pc = "off",
             NEW p \in Process, SessionOf(p) \in Drained(d)
      PROVE  ~Alive(p)
  <2>1. Quiet(d)
    BY <1>1, DrainOver, ReturnsQuiet DEF ReceiptInv, DrainInv
  <2>2. InScope(d, p)
    BY <1>1 DEF InScope, Drained
  <2>. QED  BY <2>1, <2>2 DEF Quiet
<1>2. ReceiptInv /\ [Next]_vars =>
          [\A d \in Drainer :
              drain[d].pc = "read" /\ drain'[d].pc = "off" =>
                  \A p \in Process : SessionOf(p) \in Drained(d) => ~Alive(p)]_vars
  BY <1>1
<1>. QED  BY <1>2, ReceiptInvariant, PTL DEF Spec, DrainProves

(* Receipted: as long as a process of a handler's session may work, the     *)
(* receipt with the published identity is there for whoever comes later     *)
(* (launch_process, and the drains of run_tracked_process, run_analyzer and *)
(* reap_run_processes), if no process slips through two scans of a drain in *)
(* a row.                                                                   *)
THEOREM ReceiptStays == ASSUME MaxEvasions <= 1 PROVE Spec => []Receipted
<1>1. ReceiptInv => Receipted
  BY DEF ReceiptInv
<1>. QED  BY <1>1, ReceiptInvariant, PTL

(* The reap has still to look at every session in which a handler may work. *)
ReapInv ==
    /\ reap.pc # "off" => cancel
    /\ reap.pc \in {"records", "done"} => \A p \in Process : Contained(p) => SessionOf(p) \in reap.todo
    /\ reap.pc = "done" => reap.todo = {}

(* After a cancel no session comes to work. *)
LEMMA ContainedSessions ==
    ASSUME TypeOK, RecordInv, [Next]_vars, cancel, NEW p \in Process, Contained(p)'
    PROVE  \E q \in Process : Contained(q) /\ SessionOf(p)' = SessionOf(q)
  BY ContainedStep DEF Execute

LEMMA SameActive ==
    ASSUME UNCHANGED processes, NEW p \in Process
    PROVE  /\ Active(p)' <=> Active(p)
           /\ Contained(p)' <=> Contained(p)
           /\ SessionOf(p)' = SessionOf(p)
  BY DEF processes, Contained, Active, Alive, SessionOf

LEMMA ReapRecordStep ==
    ASSUME ReceiptInv, ReapInv, NEW h \in Handler, ReapRecord(h)
    PROVE  ReapInv'
<1>1. TypeOK /\ reap.pc = "records" /\ UNCHANGED processes /\ cancel' = cancel
  BY DEF ReceiptInv, ReapRecord, Reaping
<1>2. CASE reap' = [pc |-> "off", todo |-> {}, at |-> None]
  BY <1>2 DEF ReapInv
<1>3. CASE reap' = [reap EXCEPT !.at = h]
  <2>1. reap'.pc = reap.pc /\ reap'.todo = reap.todo
    BY <1>1, <1>3 DEF TypeOK
  <2>. QED  BY <1>1, <2>1, SameActive DEF ReapInv
<1>4. CASE record[h] = "none" /\ reap' = [reap EXCEPT !.todo = @ \ {h}]
  <2>1. reap'.pc = reap.pc /\ reap'.todo = reap.todo \ {h}
    BY <1>1, <1>4 DEF TypeOK
  <2>2. \A p \in Process : Contained(p) => SessionOf(p) # h
    BY <1>4, ReceiptedIs DEF ReceiptInv
  <2>. QED  BY <1>1, <2>1, <2>2, SameActive DEF ReapInv
<1>. QED  BY <1>2, <1>3, <1>4 DEF ReapRecord

LEMMA ReapedStep ==
    ASSUME ReceiptInv, ReapInv, MaxEvasions <= 1, Reaped
    PROVE  ReapInv'
<1>1. TypeOK /\ UNCHANGED processes /\ cancel' = cancel
  BY DEF ReceiptInv, Reaped, Returns, GivesUp
<1>2. CASE reap' = [pc |-> "off", todo |-> {}, at |-> None]
  BY <1>2 DEF ReapInv
<1>3. CASE Returns(Reaper) /\ reap' = [reap EXCEPT !.todo = @ \ {reap.at}, !.at = None]
  <2>1. reap'.pc = reap.pc /\ reap'.todo = reap.todo \ {reap.at}
    BY <1>1, <1>3 DEF TypeOK
  <2>2. Quiet(Reaper)
    BY <1>3, Sets, ReturnsQuiet DEF ReceiptInv, DrainInv
  <2>3. \A p \in Process : Contained(p) => SessionOf(p) # reap.at
    BY <2>2, Sets DEF Quiet, InScope, Contained, Active
  <2>. QED  BY <1>1, <2>1, <2>3, SameActive DEF ReapInv
<1>. QED  BY <1>2, <1>3 DEF Reaped

LEMMA ReapMoves ==
    ASSUME [Next]_vars
    PROVE  \/ reap' = reap /\ (cancel => cancel')
           \/ \E h \in Handler : ReapChild(h) \/ ReapRecord(h)
           \/ ReapBegin \/ ReapChildren \/ ReapRecords \/ Reaped \/ ReapDone
<1>1. ASSUME NEW h \in Handler,
             \/ LaunchCheck(h) \/ LaunchIntent(h) \/ LaunchSpawn(h) \/ Publish(h) \/ Execute(h)
             \/ LaunchSeen(h) \/ LaunchLost(h) \/ LaunchEnds(h) \/ LaunchDrains(h) \/ LaunchReaped(h)
      PROVE  UNCHANGED <<reap, cancel>>
  BY <1>1
  DEF LaunchCheck, LaunchIntent, LaunchSpawn, Publish, Execute, LaunchSeen, LaunchLost, LaunchEnds,
      LaunchDrains, LaunchReaped
<1>2. ASSUME NEW p \in Process, Exit(p) \/ \E c \in Child : Fork(p, c)
      PROVE  UNCHANGED <<reap, cancel>>
  BY <1>2 DEF Exit, Fork
<1>3. CASE StopBegin \/ StopDrains \/ StopProves \/ StopFails \/ ReapDrains \/ UNCHANGED vars
  BY <1>3 DEF StopBegin, StopDrains, StopProves, StopFails, ReapDrains, vars
<1>4. CASE Cancel
  BY <1>4 DEF Cancel
<1>. QED  BY <1>1, <1>2, <1>3, <1>4 DEF Next

LEMMA ReapInvStep ==
    ASSUME ReceiptInv, ReapInv, MaxEvasions <= 1, [Next]_vars
    PROVE  ReapInv'
<1>0. TypeOK /\ RecordInv
  BY DEF ReceiptInv
<1>1. ASSUME reap' = reap, cancel => cancel' PROVE ReapInv'
  <2>1. ASSUME reap.pc \in {"records", "done"}, NEW p \in Process, Contained(p)'
        PROVE  SessionOf(p)' \in reap.todo
    <3>1. cancel
      BY <2>1 DEF ReapInv
    <3>2. PICK q \in Process : Contained(q) /\ SessionOf(p)' = SessionOf(q)
      BY <1>0, <2>1, <3>1, ContainedSessions
    <3>. QED  BY <2>1, <3>2 DEF ReapInv
  <2>. QED  BY <1>1, <2>1 DEF ReapInv
<1>2. CASE ReapBegin
  <2>1. reap'.pc = "begun" /\ cancel'
    BY <1>0, <1>2 DEF ReapBegin, TypeOK
  <2>. QED  BY <2>1 DEF ReapInv
<1>3. CASE ReapChildren
  <2>1. reap'.pc = "children" /\ cancel'
    BY <1>0, <1>3 DEF ReapChildren, Reaping, TypeOK, ReapInv
  <2>. QED  BY <2>1 DEF ReapInv
<1>4. ASSUME NEW h \in Handler, ReapChild(h) PROVE ReapInv'
  <2>1. reap'.pc = "children" /\ cancel'
    BY <1>0, <1>4 DEF ReapChild, Reaping, TypeOK, ReapInv
  <2>. QED  BY <2>1 DEF ReapInv
<1>5. CASE ReapRecords
  <2>1. reap'.pc = "records" /\ reap'.todo = {h \in Handler : record[h] # "none"} /\ cancel'
    BY <1>0, <1>5 DEF ReapRecords, Reaping, TypeOK, ReapInv
  <2>2. ASSUME NEW p \in Process, Contained(p)' PROVE SessionOf(p)' \in reap'.todo
    <3>1. Contained(p) /\ SessionOf(p)' = SessionOf(p)
      BY <1>5, <2>2, SameActive DEF ReapRecords
    <3>2. SessionOf(p) \in Handler /\ record[SessionOf(p)] = "published"
      BY <3>1, ReceiptedIs DEF ReceiptInv, Contained
    <3>. QED  BY <2>1, <3>1, <3>2
  <2>. QED  BY <2>1, <2>2 DEF ReapInv
<1>6. CASE ReapDone
  <2>1. /\ reap.pc = "records" /\ reap'.pc = "done"
        /\ reap.todo = {} /\ reap'.todo = {} /\ cancel' = cancel /\ UNCHANGED processes
    BY <1>0, <1>6 DEF ReapDone, Reaping, TypeOK
  <2>. QED  BY <2>1, SameActive DEF ReapInv
<1>. QED
  BY <1>1, <1>2, <1>3, <1>4, <1>5, <1>6, ReapRecordStep, ReapedStep, ReapMoves

(* ReapProof: once reap_run_processes has returned, no process of a handler *)
(* works and none comes to work, though launches may be under way in other  *)
(* threads, in handlers, and in bootstraps that were lost.                  *)
THEOREM ReapProves == ASSUME MaxEvasions <= 1 PROVE Spec => []ReapProof
<1>1. Init => ReapInv
  BY DEF Init, ReapInv
<1>2. ReceiptInv /\ ReapInv /\ [Next]_vars => ReapInv'
  BY ReapInvStep
<1>3. ReceiptInv /\ ReapInv => ReapProof
  BY DEF ReceiptInv, TypeOK, ReapInv, ReapProof, Contained, Active
<1>. QED  BY <1>1, <1>2, <1>3, ReceiptInvariant, PTL DEF Spec

LEMMA StopMoves ==
    ASSUME [Next]_vars
    PROVE  stop' = stop \/ StopBegin \/ StopDrains \/ StopProves \/ StopFails
<1>1. ASSUME NEW h \in Handler,
             \/ LaunchCheck(h) \/ LaunchIntent(h) \/ LaunchSpawn(h) \/ Publish(h) \/ Execute(h)
             \/ LaunchSeen(h) \/ LaunchLost(h) \/ LaunchEnds(h) \/ LaunchDrains(h)
             \/ LaunchReaped(h) \/ ReapChild(h) \/ ReapRecord(h)
      PROVE  stop' = stop
  BY <1>1
  DEF LaunchCheck, LaunchIntent, LaunchSpawn, Publish, Execute, LaunchSeen, LaunchLost,
      LaunchEnds, LaunchDrains, LaunchReaped, ReapChild, ReapRecord
<1>2. ASSUME NEW p \in Process, Exit(p) \/ \E c \in Child : Fork(p, c) PROVE stop' = stop
  BY <1>2 DEF Exit, Fork
<1>3. CASE \/ Cancel \/ ReapBegin \/ ReapChildren \/ ReapRecords \/ ReapDrains \/ Reaped \/ ReapDone
           \/ UNCHANGED vars
  BY <1>3
  DEF Cancel, ReapBegin, ReapChildren, ReapRecords, ReapDrains, Reaped, ReapDone, vars
<1>. QED  BY <1>1, <1>2, <1>3 DEF Next

(* After the verdict nothing is alive that could make a process. *)
LEMMA StopProofStep ==
    ASSUME ReceiptInv, StopProof, MaxEvasions <= 1, [Next]_vars
    PROVE  StopProof'
<1>0. TypeOK
  BY DEF ReceiptInv
<1>1. ASSUME stop.pc = "proved", NEW p \in Process, Alive(p)' PROVE FALSE
  <2>1. \A q \in Process : ~Works(q)
    BY <1>1 DEF StopProof, Works, Alive
  <2>2. ~LaunchSpawn(p) \/ p \notin Handler
    BY <2>1, Sets DEF LaunchSpawn
  <2>. QED  BY <1>0, <1>1, <2>1, <2>2, Births DEF StopProof
<1>2. CASE StopProves
  <2>1. UNCHANGED processes
    BY <1>2 DEF StopProves, Returns
  <2>2. Quiet(Supervisor)
    BY <1>2, Sets, ReturnsQuiet DEF StopProves, ReceiptInv, DrainInv
  <2>3. \A p \in Process : ~Alive(p)
    BY <2>2 DEF Quiet, InScope
  <2>. QED  BY <2>1, <2>3 DEF StopProof, Alive, processes
<1>3. ASSUME ~StopProves, stop'.pc = "proved" PROVE stop.pc = "proved"
  <2>1. CASE StopBegin
    BY <1>3, <2>1 DEF StopBegin
  <2>2. CASE StopDrains
    BY <1>0, <1>3, <2>2 DEF StopDrains, Rescan, TypeOK
  <2>3. CASE StopFails
    BY <1>3, <2>3 DEF StopFails
  <2>. QED  BY <1>3, <2>1, <2>2, <2>3, StopMoves
<1>. QED  BY <1>1, <1>2, <1>3 DEF StopProof

(* StopProof: on a verdict of stop_executor that the execution is gone,     *)
(* nothing of it is alive and nothing comes alive, with nothing to go by    *)
(* but the receipts, and if no process slips through two scans in a row.    *)
THEOREM StopProofHolds == ASSUME MaxEvasions <= 1 PROVE Spec => []StopProof
<1>1. Init => StopProof
  BY DEF Init, StopProof
<1>2. ReceiptInv /\ StopProof /\ [Next]_vars => StopProof'
  BY StopProofStep
<1>. QED  BY <1>1, <1>2, ReceiptInvariant, PTL DEF Spec

-----------------------------------------------------------------------------
(* The refinement of ContainmentPromise *)

(* Whatever works in a handler's session comes from its leader's execution. *)
WorkInv == \A p \in Process : Contained(p) => stage[SessionOf(p)] = "work"

(* While the reap drains a session it is not done. *)
AtInv == reap.at # None => reap.pc \in {"children", "records"} /\ reap.at \in reap.todo

ContainInv == ReceiptInv /\ ReapInv /\ StopProof /\ WorkInv /\ AtInv

LEMMA WorkInvStep ==
    ASSUME TypeOK, RecordInv, WorkInv, [Next]_vars
    PROVE  WorkInv'
<1>. SUFFICES ASSUME NEW p \in Process, Contained(p)'
              PROVE  stage'[SessionOf(p)'] = "work"
  BY DEF WorkInv
<1>1. CASE \E q \in Process : Contained(q) /\ SessionOf(p)' = SessionOf(q)
  <2>1. PICK q \in Process : Contained(q) /\ SessionOf(p)' = SessionOf(q)
    BY <1>1
  <2>. DEFINE h == SessionOf(q)
  <2>2. h \in Handler /\ stage[h] = "work"
    BY <2>1 DEF WorkInv, Contained
  <2>3. stage'[h] = stage[h]
    <3>. HIDE DEF h
    <3>1. ~Execute(h)
      BY <2>2 DEF Execute
    <3>. QED  BY <2>2, <3>1, StageStep
  <2>. QED  BY <2>1, <2>2, <2>3
<1>2. CASE p \in Handler /\ Execute(p)
  BY <1>2, Sets DEF SessionOf, Execute, TypeOK
<1>. QED  BY <1>1, <1>2, ContainedStep

LEMMA AtInvStep ==
    ASSUME TypeOK, AtInv, [Next]_vars
    PROVE  AtInv'
<1>1. CASE reap' = reap
  BY <1>1 DEF AtInv
<1>2. CASE ReapBegin \/ ReapChildren \/ ReapRecords \/ ReapDone
  <2>1. reap.at = None
    BY <1>2 DEF AtInv, ReapBegin, ReapChildren, ReapRecords, ReapDone, Reaping
  <2>2. reap'.at = None
    BY <1>2, <2>1, ReapAtSame
  <2>. QED  BY <2>2 DEF AtInv
<1>3. ASSUME NEW h \in Handler, ReapChild(h) \/ ReapRecord(h) PROVE AtInv'
  <2>1. reap.at = None /\ reap.pc \in {"children", "records"} /\ h \in reap.todo
    BY <1>3 DEF ReapChild, ReapRecord, Reaping
  <2>2. CASE reap' = [reap EXCEPT !.at = h]
    BY <2>1, <2>2 DEF AtInv, TypeOK
  <2>3. CASE reap' = [reap EXCEPT !.todo = @ \ {h}]
    BY <2>1, <2>3 DEF AtInv, TypeOK
  <2>4. CASE reap' = [pc |-> "off", todo |-> {}, at |-> None]
    BY <2>4 DEF AtInv
  <2>. QED  BY <1>3, <2>2, <2>3, <2>4 DEF ReapChild, ReapRecord
<1>4. CASE Reaped
  <2>1. CASE reap' = [reap EXCEPT !.todo = @ \ {reap.at}, !.at = None]
    BY <2>1 DEF AtInv, TypeOK
  <2>2. CASE reap' = [pc |-> "off", todo |-> {}, at |-> None]
    BY <2>2 DEF AtInv
  <2>. QED  BY <1>4, <2>1, <2>2 DEF Reaped
<1>. QED  BY <1>1, <1>2, <1>3, <1>4, ReapMoves

LEMMA ContainInvariant == ASSUME MaxEvasions <= 1 PROVE Spec => []ContainInv
<1>1. Init => ContainInv
  <2>1. Init => ReceiptInv
    BY ReceiptInit
  <2>2. Init => ReapInv /\ StopProof /\ AtInv
    BY DEF Init, ReapInv, StopProof, AtInv
  <2>3. Init => WorkInv
    BY Sets DEF Init, WorkInv, Contained, Active, Alive, SessionOf
  <2>. QED  BY <2>1, <2>2, <2>3 DEF ContainInv
<1>2. ContainInv /\ [Next]_vars => ContainInv'
  <2>. SUFFICES ASSUME ContainInv, [Next]_vars PROVE ContainInv'
    OBVIOUS
  <2>1. ReceiptInv' /\ ReapInv' /\ StopProof'
    BY ReceiptStep, ReapInvStep, StopProofStep DEF ContainInv
  <2>2. WorkInv' /\ AtInv'
    BY WorkInvStep, AtInvStep DEF ContainInv, ReceiptInv
  <2>. QED  BY <2>1, <2>2 DEF ContainInv
<1>. QED  BY <1>1, <1>2, PTL DEF Spec

LEMMA LifeOf ==
    ASSUME NEW s \in Session
    PROVE  /\ Life[s] = "live" <=> Live(s)
           /\ ~Live(s) /\ ~(s \in Handler /\ stage[s] = "bootstrap") => Life[s] = "over"
           /\ ~Live(s) /\ s \in Handler /\ stage[s] = "bootstrap" => Life[s] = "new"
  BY DEF Life

LEMMA SameLife ==
    ASSUME UNCHANGED processes
    PROVE  Life' = Life
<1>1. \A s \in Session : Live(s)' <=> Live(s)
  BY SameActive DEF Live
<1>2. stage' = stage
  BY DEF processes
<1>. QED  BY <1>1, <1>2 DEF Life

(* A handler that is executed begins its session. *)
LEMMA LifeBegins ==
    ASSUME TypeOK, WorkInv, NEW h \in Handler, Execute(h)
    PROVE  Life[h] = "new" /\ Life' = [Life EXCEPT ![h] = "live"]
<1>1. h \in Session /\ h \in Process /\ h \notin Child
  BY Sets
<1>2. stage[h] = "bootstrap" /\ stage' = [stage EXCEPT ![h] = "work"] /\ proc[h] = "running"
  BY DEF Execute
<1>3. proc' = proc /\ session' = session
  BY DEF Execute
<1>4. \A p \in Process : SessionOf(p)' = SessionOf(p)
  BY <1>3 DEF SessionOf
<1>5. ~Live(h)
  <2>1. ASSUME NEW p \in Process, Active(p), SessionOf(p) = h PROVE FALSE
    BY <1>2, <2>1 DEF WorkInv, Contained
  <2>. QED  BY <2>1 DEF Live
<1>6. Active(h)' /\ SessionOf(h)' = h
  BY <1>1, <1>2, <1>3 DEF Active, Alive, SessionOf, TypeOK
<1>7. Live(h)'
  BY <1>1, <1>6 DEF Live
<1>8. \A p \in Process \ {h} : Active(p)' <=> Active(p)
  BY <1>2, <1>3 DEF Active, Alive, TypeOK
<1>9. ASSUME NEW s \in Session, s # h PROVE Live(s)' <=> Live(s)
  <2>1. SessionOf(h) = h
    BY <1>1 DEF SessionOf
  <2>. QED  BY <1>4, <1>8, <1>9, <2>1 DEF Live
<1>10. \A s \in Session \ {h} : Life'[s] = Life[s]
  BY <1>2, <1>9 DEF Life, TypeOK
<1>11. Life[h] = "new" /\ Life'[h] = "live"
  BY <1>1, <1>2, <1>5, <1>7 DEF Life
<1>12. DOMAIN Life' = Session /\ Life' = [s \in Session |-> Life'[s]]
  BY DEF Life
<1>13. Life = [s \in Session |-> Life[s]]
  BY DEF Life
<1>. QED  BY <1>1, <1>10, <1>11, <1>12, <1>13

(* Any other step ends sessions or leaves them. *)
LEMMA LifeEnds ==
    ASSUME TypeOK, RecordInv, WorkInv, [Next]_vars, stage' = stage
    PROVE  \E S \in SUBSET {s \in Session : Life[s] = "live"} :
              Life' = [s \in Session |-> IF s \in S THEN "over" ELSE Life[s]]
<1>. DEFINE S == {s \in Session : Live(s) /\ ~Live(s)'}
<1>1. S \subseteq {s \in Session : Life[s] = "live"}
  BY LifeOf
<1>2. ASSUME NEW s \in Session, Live(s)' PROVE Live(s)
  <2>1. PICK p \in Process : Active(p)' /\ SessionOf(p)' = s
    BY <1>2 DEF Live
  <2>2. ~(p \in Handler /\ Execute(p))
    BY DEF Execute, TypeOK
  <2>3. \E q \in Process : Active(q) /\ SessionOf(p)' = SessionOf(q)
    BY <2>1, <2>2, ActiveStep
  <2>. QED  BY <2>1, <2>3 DEF Live
<1>3. ASSUME NEW s \in S PROVE Life'[s] = "over"
  <2>1. ~(s \in Handler /\ stage[s] = "bootstrap")
    <3>1. ASSUME s \in Handler PROVE stage[s] = "work"
      BY <1>3, <3>1 DEF Live, WorkInv, Contained
    <3>. QED  BY <3>1
  <2>. QED  BY <1>3, <2>1 DEF Life
<1>4. ASSUME NEW s \in Session \ S PROVE Life'[s] = Life[s]
  <2>1. Live(s)' <=> Live(s)
    BY <1>2, <1>4
  <2>. QED  BY <1>4, <2>1 DEF Life
<1>5. Life' = [s \in Session |-> Life'[s]]
  BY DEF Life
<1>6. Life' = [s \in Session |-> IF s \in S THEN "over" ELSE Life[s]]
  <2>. HIDE DEF S
  <2>. QED  BY <1>3, <1>4, <1>5
<1>. QED  BY <1>1, <1>6

LEMMA PromiseInit == ASSUME Init PROVE Promise!Init
<1>1. \A p \in Process : Active(p) <=> p = Executor
  BY Sets DEF Init, Active, Alive
<1>2. \A s \in Session : Live(s) <=> s = Executor
  BY <1>1, Sets DEF Live, SessionOf
<1>3. Life = [s \in Session |-> IF s = Executor THEN "live" ELSE "new"]
  BY <1>2 DEF Init, Life, Session
<1>4. reap.pc # "done" /\ stop.pc # "proved"
  BY DEF Init
<1>. QED  BY <1>3, <1>4 DEF Promise!Init, Promise!Session, Session

LEMMA ReapPromised ==
    ASSUME ContainInv, ReapDone
    PROVE  Promise!Reap
<1>1. TypeOK /\ UNCHANGED processes /\ UNCHANGED stop /\ reap'.pc = "done"
  BY DEF ContainInv, ReceiptInv, ReapDone, TypeOK
<1>2. Live(Executor)
  BY Sets DEF ReapDone, Reaping, Works, Live, Active, Alive, SessionOf
<1>3. \A h \in Handler : ~Live(h)
  BY DEF ContainInv, ReapInv, ReapDone, Reaping, Live, Contained
<1>4. Life[Executor] = "live" /\ \A h \in Handler : Life[h] # "live"
  BY <1>2, <1>3, LifeOf, Sets
<1>. QED  BY <1>1, <1>4, SameLife DEF Promise!Reap

LEMMA StopPromised ==
    ASSUME ContainInv, MaxEvasions <= 1, StopProves
    PROVE  Promise!Stop
<1>1. TypeOK /\ UNCHANGED processes /\ UNCHANGED reap /\ stop'.pc = "proved"
  BY DEF ContainInv, ReceiptInv, StopProves, Returns, TypeOK
<1>2. Quiet(Supervisor)
  BY Sets, ReturnsQuiet DEF StopProves, ContainInv, ReceiptInv, DrainInv
<1>3. \A s \in Session : ~Live(s)
  BY <1>2 DEF Quiet, InScope, Live, Active
<1>4. \A s \in Session : Life[s] # "live"
  BY <1>3, LifeOf
<1>. QED  BY <1>1, <1>4, SameLife DEF Promise!Stop, Promise!Session, Session

LEMMA VerdictKept ==
    ASSUME ContainInv, [Next]_vars, ~ReapDone, ~StopProves
    PROVE  /\ reap'.pc = "done" <=> reap.pc = "done"
           /\ stop'.pc = "proved" <=> stop.pc = "proved"
<1>1. TypeOK /\ AtInv
  BY DEF ContainInv, ReceiptInv
<1>2. reap'.pc = "done" <=> reap.pc = "done"
  <2>1. CASE ReapBegin \/ ReapChildren \/ ReapRecords
    BY <1>1, <2>1 DEF ReapBegin, ReapChildren, ReapRecords, Reaping, TypeOK
  <2>2. ASSUME NEW h \in Handler, ReapChild(h) \/ ReapRecord(h)
        PROVE  reap.pc # "done" /\ reap'.pc # "done"
    <3>1. reap.pc # "done"
      BY <2>2 DEF ReapChild, ReapRecord, Reaping
    <3>2. CASE reap' = [reap EXCEPT !.at = h] \/ reap' = [reap EXCEPT !.todo = @ \ {h}]
      BY <1>1, <3>1, <3>2 DEF TypeOK
    <3>3. CASE reap' = [pc |-> "off", todo |-> {}, at |-> None]
      BY <3>1, <3>3
    <3>. QED  BY <2>2, <3>2, <3>3 DEF ReapChild, ReapRecord
  <2>3. CASE Reaped
    <3>1. reap.pc # "done"
      BY <1>1, <2>3 DEF Reaped, AtInv
    <3>2. CASE reap' = [reap EXCEPT !.todo = @ \ {reap.at}, !.at = None]
      BY <1>1, <3>1, <3>2 DEF TypeOK
    <3>3. CASE reap' = [pc |-> "off", todo |-> {}, at |-> None]
      BY <3>1, <3>3
    <3>. QED  BY <2>3, <3>2, <3>3 DEF Reaped
  <2>. QED  BY <2>1, <2>2, <2>3, ReapMoves
<1>3. stop'.pc = "proved" <=> stop.pc = "proved"
  <2>1. CASE StopDrains
    BY <1>1, <2>1 DEF StopDrains, Rescan, TypeOK
  <2>2. CASE StopBegin \/ StopFails
    BY <2>2 DEF StopBegin, StopFails
  <2>. QED  BY <2>1, <2>2, StopMoves
<1>. QED  BY <1>2, <1>3

LEMMA PromiseStep ==
    ASSUME ContainInv, MaxEvasions <= 1, [Next]_vars
    PROVE  [Promise!Next]_(Promise!vars)
<1>1. TypeOK /\ RecordInv /\ WorkInv
  BY DEF ContainInv, ReceiptInv
<1>2. CASE ReapDone
  BY <1>2, ReapPromised DEF Promise!Next
<1>3. CASE StopProves
  BY <1>3, StopPromised DEF Promise!Next
<1>4. ASSUME NEW h \in Handler, Execute(h) PROVE [Promise!Next]_(Promise!vars)
  <2>1. Life[h] = "new" /\ Life' = [Life EXCEPT ![h] = "live"]
    BY <1>1, <1>4, LifeBegins
  <2>2. reap.pc # "done"
    BY <1>4 DEF Execute, ContainInv, ReapInv
  <2>3. stop.pc # "proved"
    BY <1>4, Sets DEF Execute, ContainInv, StopProof, Alive
  <2>4. reap' = reap /\ stop' = stop
    BY <1>4 DEF Execute
  <2>5. Promise!Begins(h)
    BY <2>1, <2>2, <2>3, <2>4 DEF Promise!Begins
  <2>. QED  BY <2>5 DEF Promise!Next
<1>5. CASE ~ReapDone /\ ~StopProves /\ ~\E h \in Handler : Execute(h)
  <2>1. stage' = stage
    <3>1. \A h \in Handler : stage'[h] = stage[h]
      BY <1>1, <1>5, StageStep
    <3>2. TypeOK'
      BY <1>1, TypeStep
    <3>. QED  BY <1>1, <3>1, <3>2 DEF TypeOK
  <2>2. PICK S \in SUBSET {s \in Session : Life[s] = "live"} :
           Life' = [s \in Session |-> IF s \in S THEN "over" ELSE Life[s]]
    BY <1>1, <2>1, LifeEnds
  <2>3. /\ (reap.pc = "done")' = (reap.pc = "done")
        /\ (stop.pc = "proved")' = (stop.pc = "proved")
    BY <1>5, VerdictKept
  <2>4. Promise!Ends(S)
    BY <2>2, <2>3 DEF Promise!Ends, Promise!Session, Session
  <2>. QED  BY <2>2, <2>4 DEF Promise!Next, Promise!Session, Session
<1>. QED  BY <1>2, <1>3, <1>4, <1>5

(* ContainmentPromised: the launches, the reap and the stop implement       *)
(* ContainmentPromise.  Each session comes to work once and is over once,   *)
(* neither verdict is given while a session that it speaks of works, and    *)
(* none begins after it, if no process slips through two scans in a row.    *)
THEOREM ContainmentRefinement == ASSUME MaxEvasions <= 1 PROVE Spec => ContainmentPromised
<1>1. Init => Promise!Init
  BY PromiseInit
<1>2. ContainInv /\ [Next]_vars => [Promise!Next]_(Promise!vars)
  BY PromiseStep
<1>. QED  BY <1>1, <1>2, ContainInvariant, PTL DEF Spec, ContainmentPromised, Promise!Spec
===============================================================================
