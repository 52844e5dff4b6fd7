------------------------ MODULE PhaseAnalysis_proofs ------------------------
(***************************************************************************)
(* Theorems about PhaseAnalysis, for any captures, labels and profiles:    *)
(* types, what staging leaves behind, and what an outcome says of the run. *)
(***************************************************************************)
EXTENDS PhaseAnalysis, TLAPS

USE DEF vars

\* The part of TypeOK that the run's position needs: a plan is a sequence of
\* tools without repetition which starts with zeek.
LEMMA PlanFacts ==
    ASSUME NEW profile
    PROVE  /\ PlanFor(profile) \in Seq(Tools)
           /\ Len(PlanFor(profile)) \in {4, 7}
           /\ DOMAIN PlanFor(profile) = 1 .. Len(PlanFor(profile))
           /\ PlanFor(profile)[1] = "zeek"
           /\ \A p, q \in DOMAIN PlanFor(profile) :
                 PlanFor(profile)[p] = PlanFor(profile)[q] => p = q
<1>1. CASE profile = "triage"
    <2>1. PlanFor(profile) = <<"zeek", "suricata", "tls_enrich", "ti_matcher">>
        BY <1>1 DEF PlanFor
    <2> QED BY <2>1, Z3 DEF Tools
<1>2. CASE profile # "triage"
    <2>1. PlanFor(profile) = <<"zeek", "suricata", "tls_enrich", "beaconing",
                               "file_triage", "capa", "ti_matcher">>
        BY <1>2 DEF PlanFor
    <2> QED BY <2>1, Z3 DEF Tools
<1> QED BY <1>1, <1>2

\* Rows are records, kept as an opaque set where only their being in it matters.
Row == [capture : Capture, label : Label \union {NoLabel}]

LEMMA SeqElement ==
    ASSUME NEW S, NEW s \in Seq(S)
    PROVE  /\ DOMAIN s = 1 .. Len(s) /\ Len(s) \in Nat
           /\ \A i \in DOMAIN s : s[i] \in S
OBVIOUS

LEMMA ShortSeq ==
    ASSUME NEW S, NEW a \in S, NEW b \in S
    PROVE  << a >> \in Seq(S) /\ << a, b >> \in Seq(S)
OBVIOUS

\* The same of the plan and the position of the job at hand.
LEMMA PlanOfJob ==
    ASSUME TypeOK
    PROVE  /\ run \in RunType /\ run.pos \in Nat \ {0}
           /\ DOMAIN Plan = 1 .. Len(Plan) /\ Len(Plan) \in {4, 7}
           /\ 1 \in DOMAIN Plan /\ Plan[1] = "zeek" /\ Plan \in Seq(Tools)
           /\ \A p, q \in DOMAIN Plan : Plan[p] = Plan[q] => p = q
<1>1. /\ DOMAIN Plan = 1 .. Len(Plan) /\ Len(Plan) \in {4, 7}
      /\ Plan[1] = "zeek" /\ Plan \in Seq(Tools)
      /\ \A p, q \in DOMAIN Plan : Plan[p] = Plan[q] => p = q
    BY PlanFacts, Zenon DEF Plan
<1> QED BY <1>1 DEF TypeOK, RunType

\* A label given or assumed is a label.
LEMMA LabelOfType ==
    ASSUME TypeOK, NEW i \in DOMAIN rows
    PROVE  LabelOf(i) \in Label /\ rows[i].capture \in Capture
<1>1. rows \in Seq(Row)
    BY DEF TypeOK, Row
<1>2. rows[i] \in Row
    BY <1>1, SeqElement
<1> QED BY <1>2, LabelsOK DEF LabelOf, Row

\* What recording a tool leaves of the run.
LEMMA RecordFields ==
    ASSUME TypeOK, NEW x \in Tools, Current(x),
           NEW status \in {"completed", "failed", "skipped"}
    PROVE  /\ Record(x, status) \in RunType
           /\ Record(x, status).pos = run.pos + 1
           /\ Record(x, status).result = [run.result EXCEPT ![x] = status]
           /\ Record(x, status).required = run.required
           /\ run.optional \subseteq Record(x, status).optional
           /\ status = "failed" => Record(x, status).optional # {}
           /\ Record(x, status).phase = run.phase
           /\ Record(x, status).want = run.want
           /\ Record(x, status).selected = run.selected
           /\ Record(x, status).outcome = run.outcome
<1> DEFINE opt == IF status = "failed" THEN run.optional \union {x} ELSE run.optional
           new == [run EXCEPT !.pos = run.pos + 1,
                              !.result = [run.result EXCEPT ![x] = status],
                              !.optional = opt]
<1>1. run \in RunType /\ Len(Plan) \in Nat
    BY PlanFacts DEF TypeOK, Plan
<1>2. run.pos + 1 \in 1 .. Len(Plan) + 1
    BY <1>1 DEF RunType, Current
<1>3. /\ opt \subseteq Tools \union {"telemetry", "derived"}
      /\ run.optional \subseteq opt
      /\ status = "failed" => opt # {}
    BY <1>1 DEF RunType
<1>4. [run.result EXCEPT ![x] = status] \in
         [Tools -> {"none", "completed", "failed", "skipped"}]
    BY <1>1 DEF RunType
<1>5. Record(x, status) = new
    <2>1. CASE status = "failed"
        BY <1>1, <2>1 DEF Record, Required, RunType
    <2>2. CASE status # "failed"
        BY <1>1, <2>2 DEF Record, Required, RunType
    <2> QED BY <2>1, <2>2
<1> HIDE DEF opt
<1>6. new \in RunType
    BY <1>1, <1>2, <1>3, <1>4 DEF RunType
<1> QED BY <1>1, <1>3, <1>5, <1>6 DEF RunType

-----------------------------------------------------------------------------
(* Types. *)

LEMMA TypeInit == Init => TypeOK
<1> SUFFICES ASSUME Init PROVE TypeOK
    OBVIOUS
<1>1. Len(Plan) \in {4, 7}
    BY PlanFacts DEF Plan
<1>2. NewRun(Whole) \in RunType
    BY <1>1 DEF NewRun, RunType, Outcome
<1>3. \A c \in Capture, l \in Label \union {NoLabel} : [capture |-> c, label |-> l] \in Row
    BY DEF Row
<1>4. rows \in Seq(Row)
    <2>1. CASE pc = "queued"
        <3>1. PICK c, d \in Capture, l, m \in Label \union {NoLabel} :
                 \/ rows = << [capture |-> c, label |-> l] >>
                 \/ rows = << [capture |-> c, label |-> l], [capture |-> d, label |-> m] >>
            BY <2>1 DEF Init
        <3> QED BY <1>3, <3>1, ShortSeq
    <2>2. CASE pc = "ended"
        <3>1. PICK c \in Capture, l \in Label : rows = << [capture |-> c, label |-> l] >>
            BY <2>2 DEF Init
        <3> QED BY <1>3, <3>1, ShortSeq
    <2> QED BY <2>1, <2>2 DEF Init
<1>5. input \in [DOMAIN input -> Capture]
    <2>1. CASE input = << >>
        BY <2>1
    <2>2. CASE \E c \in Capture, l \in Label : input = [n \in {Stem[l]} |-> c]
        BY <2>2
    <2> QED BY <2>1, <2>2 DEF Init
<1> QED BY <1>2, <1>4, <1>5 DEF Init, TypeOK, Row

\* The requests.
LEMMA TypeRequest ==
    ASSUME TypeOK,
           \/ \E c \in Capture : AddCheck(c)
           \/ \E l \in Label \union {NoLabel} : AddCommit(l)
           \/ \E l \in Label : Reanalyze(l)
    PROVE  TypeOK'
<1> USE DEF TypeOK
<1>0. Len(Plan) \in Nat
    BY PlanFacts DEF Plan
<1>1. ASSUME NEW c \in Capture, AddCheck(c) PROVE TypeOK'
    BY <1>1 DEF AddCheck, RunType, Plan
<1>2. ASSUME NEW l \in Label \union {NoLabel}, AddCommit(l) PROVE TypeOK'
    <2>1. CASE Len(rows) < MAX_PCAPS_PER_JOB /\ rows' # rows
        <3> DEFINE old == [i \in DOMAIN rows |->
                             IF l # NoLabel THEN [rows[i] EXCEPT !.label = LabelOf(i)]
                                            ELSE rows[i]]
        <3>0. rows \in Seq(Row)
            BY DEF Row
        <3>1. \A i \in DOMAIN rows : old[i] \in Row
            <4> SUFFICES ASSUME NEW i \in DOMAIN rows PROVE old[i] \in Row
                OBVIOUS
            <4>1. rows[i] \in Row /\ LabelOf(i) \in Label
                BY <3>0, SeqElement, LabelOfType
            <4> QED BY <4>1 DEF Row
        <3>2. DOMAIN rows = 1 .. Len(rows) /\ Len(rows) \in Nat
            BY <3>0, SeqElement
        <3>3. old \in Seq(Row) /\ Len(old) = Len(rows)
            <4> DEFINE f(i) == old[i]
            <4>1. old = [i \in 1 .. Len(rows) |-> f(i)]
                BY <3>2
            <4>2. \A i \in 1 .. Len(rows) : f(i) \in Row
                BY <3>1, <3>2
            <4> HIDE DEF f, old
            <4> QED BY <3>2, <4>1, <4>2
        <3>4. [capture |-> adding, label |-> l] \in Row
            BY <1>2 DEF AddCommit, Row
        <3>5. rows' = Append(old, [capture |-> adding, label |-> l])
            BY <1>2, <2>1 DEF AddCommit
        <3> HIDE DEF old
        <3>6. rows' \in Seq(Row) /\ DOMAIN rows \subseteq DOMAIN rows'
            BY <3>2, <3>3, <3>4, <3>5
        <3>7. run \in RunType'
            <4>1. run \in RunType /\ UNCHANGED <<kind, input, labels, pc, run>>
                BY <1>2 DEF AddCommit
            <4> QED BY <3>6, <4>1 DEF RunType, Plan
        <3> QED BY <1>2, <3>6, <3>7 DEF AddCommit, Row
    <2>2. CASE rows' = rows
        BY <1>2, <2>2 DEF AddCommit, RunType, Plan
    <2> QED BY <1>2, <2>1, <2>2 DEF AddCommit
<1>3. ASSUME NEW l \in Label, Reanalyze(l) PROVE TypeOK'
    BY <1>0, <1>3 DEF Reanalyze, NewRun, RunType, Plan, Outcome
<1> QED BY <1>1, <1>2, <1>3

\* Staging.
LEMMA TypeStaging ==
    ASSUME TypeOK,
           \/ StartRun
           \/ \E i \in DOMAIN rows : LinkCapture(i)
           \/ SetupFails
           \/ SelectCaptures
    PROVE  TypeOK'
<1> USE DEF TypeOK
<1>1. CASE StartRun
    <2>1. RowsOf(run.phase) \subseteq DOMAIN rows
        BY DEF RowsOf
    <2>2. {rows[i].capture : i \in RowsOf(run.phase)} \subseteq Capture
        BY <2>1, LabelOfType
    <2> QED BY <1>1, <2>1, <2>2 DEF StartRun, RunType, Plan
<1>2. ASSUME NEW i \in DOMAIN rows
      PROVE  /\ Recorded(i) \in [DOMAIN Recorded(i) -> Label]
             /\ Linked(i) \in [DOMAIN Linked(i) -> Capture]
             /\ DOMAIN input \subseteq DOMAIN Linked(i)
    BY LabelOfType DEF Recorded, Linked
<1>3. ASSUME NEW i \in DOMAIN rows, LinkCapture(i) PROVE TypeOK'
    <2>1. run' \in RunType'
        BY <1>2, <1>3 DEF LinkCapture, RunType, Plan
    <2> QED BY <1>2, <1>3, <2>1 DEF LinkCapture
<1>4. CASE SetupFails
    <2>1. /\ labels' \in [DOMAIN labels' -> Label]
          /\ input' \in [DOMAIN input' -> Capture]
          /\ DOMAIN input \subseteq DOMAIN input'
        BY <1>2, <1>4 DEF SetupFails, RunType
    <2>2. run' \in RunType'
        BY <1>4, <2>1 DEF SetupFails, RunType, Plan
    <2> QED BY <1>4, <2>1, <2>2 DEF SetupFails
<1>5. CASE SelectCaptures
    BY <1>5 DEF SelectCaptures, RunType, Plan
<1> QED BY <1>1, <1>3, <1>4, <1>5

\* The tools and what follows them.
LEMMA TypeTools ==
    ASSUME TypeOK,
           \/ \E x \in Tools : SkipSensor(x) \/ RunTool(x)
           \/ Enrich
           \/ FinishOutcome
           \/ Raises
    PROVE  TypeOK'
<1> USE DEF TypeOK
<1>1. ASSUME NEW x \in Tools, SkipSensor(x) PROVE TypeOK'
    BY <1>1, RecordFields DEF SkipSensor, RunType, Plan
<1>2. ASSUME NEW x \in Tools, RunTool(x) PROVE TypeOK'
    <2>1. PICK status \in {"completed", "failed"} :
            \/ run' = Record(x, status) /\ UNCHANGED pc
            \/ /\ run' = [Record(x, status) EXCEPT !.required = @ \union {"quota"}]
               /\ pc' = "enriching"
        BY <1>2 DEF RunTool
    <2>2. Record(x, status) \in RunType
        BY <1>2, RecordFields DEF RunTool
    <2>3. run' \in RunType
        <3> DEFINE rec == Record(x, status)
        <3>1. rec \in RunType /\ (run' = rec \/ run' = [rec EXCEPT !.required = rec.required \union {"quota"}])
            BY <2>1, <2>2
        <3> HIDE DEF rec
        <3>2. CASE run' = rec
            BY <3>1, <3>2
        <3>3. CASE run' = [rec EXCEPT !.required = rec.required \union {"quota"}]
            <4>1. rec.required \union {"quota"} \in
                    SUBSET (Tools \union {"input", "quota", "correlate", "manifest"})
                BY <3>1 DEF RunType
            <4> QED BY <3>1, <3>3, <4>1 DEF RunType
        <3> QED BY <3>1, <3>2, <3>3
    <2> QED BY <1>2, <2>1, <2>3 DEF RunTool, RunType, Plan
<1>3. CASE Enrich
    <2>1. PICK req \in SUBSET {"input", "correlate"}, opt \in SUBSET {"telemetry", "derived"} :
            run' = [run EXCEPT !.required = @ \union req, !.optional = @ \union opt]
        BY <1>3 DEF Enrich
    <2>2. run' \in RunType
        BY <2>1 DEF RunType
    <2> QED BY <1>3, <2>2 DEF Enrich, RunType, Plan
<1>4. CASE FinishOutcome
    BY <1>4 DEF FinishOutcome, DeriveOutcome, RunType, Plan, Outcome
<1>5. CASE Raises
    BY <1>5 DEF Raises, RunType, Plan
<1> QED BY <1>1, <1>2, <1>3, <1>4, <1>5

LEMMA TypeStep == TypeOK /\ [Next]_vars => TypeOK'
<1> SUFFICES ASSUME TypeOK, [Next]_vars PROVE TypeOK'
    OBVIOUS
<1>1. CASE Next
    BY <1>1, TypeRequest, TypeStaging, TypeTools DEF Next
<1>2. CASE UNCHANGED vars
    BY <1>2 DEF TypeOK, RunType, Plan
<1> QED BY <1>1, <1>2

\* The types are an invariant: an outcome derived is one the status column
\* knows, whatever failed.
THEOREM RunTyped == Spec => []TypeOK
BY TypeInit, TypeStep, PTL DEF Spec

-----------------------------------------------------------------------------
(* Sensors and the stages they depend on. *)

\* Only tools that the run has passed have a result.
ResultsKnown ==
    \A x \in Tools : run.result[x] # "none" => \E p \in 1 .. run.pos - 1 : Plan[p] = x

\* Everything but a tool and a new run leaves results and position alone.
LEMMA ResultsKept ==
    ASSUME TypeOK,
           \/ \E c \in Capture : AddCheck(c)
           \/ \E l \in Label \union {NoLabel} : AddCommit(l)
           \/ StartRun
           \/ \E i \in DOMAIN rows : LinkCapture(i)
           \/ SetupFails \/ SelectCaptures \/ Enrich \/ FinishOutcome \/ Raises
           \/ UNCHANGED vars
    PROVE  run'.result = run.result /\ run'.pos = run.pos /\ kind' = kind
<1>1. run \in RunType
    BY DEF TypeOK
<1>2. CASE \/ \E c \in Capture : AddCheck(c)
           \/ \E l \in Label \union {NoLabel} : AddCommit(l)
           \/ Raises \/ UNCHANGED vars
    BY <1>2 DEF AddCheck, AddCommit, Raises
<1>3. CASE StartRun \/ SelectCaptures \/ FinishOutcome
    BY <1>1, <1>3 DEF StartRun, SelectCaptures, FinishOutcome, RunType
<1>4. CASE SetupFails \/ \E i \in DOMAIN rows : LinkCapture(i)
    BY <1>1, <1>4 DEF SetupFails, LinkCapture, RunType
<1>5. CASE Enrich
    <2>1. PICK req \in SUBSET {"input", "correlate"}, opt \in SUBSET {"telemetry", "derived"} :
            run' = [run EXCEPT !.required = @ \union req, !.optional = @ \union opt]
        BY <1>5 DEF Enrich
    <2> QED BY <1>1, <1>5, <2>1 DEF Enrich, RunType
<1> QED BY <1>2, <1>3, <1>4, <1>5

\* A tool that is passed takes the position it has in the plan.
LEMMA ToolStep ==
    ASSUME TypeOK, NEW x \in Tools, SkipSensor(x) \/ RunTool(x)
    PROVE  /\ kind' = kind
           /\ pc = "tools"
           /\ run.pos \in DOMAIN Plan
           /\ x = Plan[run.pos]
           /\ run'.pos = run.pos + 1
           /\ run'.outcome = run.outcome
           /\ run'.selected = run.selected
           /\ run'.phase = run.phase
           /\ run'.want = run.want
           /\ \E status \in {"completed", "failed", "skipped"} :
                 /\ run'.result = [run.result EXCEPT ![x] = status]
                 /\ status = "skipped" => MissingInputs(x) /\ x \in SkipIfMissing
                 /\ status # "skipped" => ~(x \in SkipIfMissing /\ MissingInputs(x))
                 /\ status = "failed" => run'.optional # {}
                 /\ IsStage(x) /\ run.selected = {} => status = "failed"
           /\ run.required \subseteq run'.required /\ run.optional \subseteq run'.optional
           /\ \/ pc' = "tools"
              \/ pc' = "enriching" /\ run'.required # {}
<1>1. /\ kind' = kind /\ pc = "tools" /\ x = Plan[run.pos] /\ run.pos <= Len(Plan)
      /\ Current(x)
    BY DEF SkipSensor, RunTool, Current
<1>2. run.pos \in DOMAIN Plan
    BY <1>1, PlanFacts DEF TypeOK, RunType, Plan
<1>3. CASE SkipSensor(x)
    <2>1. run' = Record(x, "skipped") /\ pc' = "tools" /\ ~IsStage(x)
        BY <1>3 DEF SkipSensor, Current, SkipIfMissing, IsStage
    <2>2. run'.result = [run.result EXCEPT ![x] = "skipped"]
        BY <1>1, <2>1, RecordFields
    <2> QED BY <1>1, <1>2, <1>3, <2>1, <2>2, RecordFields DEF SkipSensor
<1>4. CASE RunTool(x)
    <2>1. PICK status \in {"completed", "failed"} :
            /\ IsStage(x) /\ run.selected = {} => status = "failed"
            /\ \/ run' = Record(x, status) /\ UNCHANGED pc
               \/ /\ run' = [Record(x, status) EXCEPT !.required = @ \union {"quota"}]
                  /\ pc' = "enriching"
        BY <1>4 DEF RunTool
    <2> DEFINE rec == Record(x, status)
    <2>0. status \in {"completed", "failed", "skipped"}
        BY <2>1
    <2>2. /\ rec \in RunType /\ rec.pos = run.pos + 1
          /\ rec.result = [run.result EXCEPT ![x] = status]
          /\ rec.required = run.required /\ run.optional \subseteq rec.optional
          /\ status = "failed" => rec.optional # {}
          /\ rec.phase = run.phase /\ rec.want = run.want
          /\ rec.selected = run.selected /\ rec.outcome = run.outcome
        BY <1>1, <2>0, RecordFields, Zenon
    <2>3. \/ run' = rec /\ pc' = "tools"
          \/ run' = [rec EXCEPT !.required = rec.required \union {"quota"}] /\ pc' = "enriching"
        BY <1>1, <2>1
    <2> HIDE DEF rec
    <2>4. /\ \A f \in DOMAIN run' : f # "required" => run'[f] = rec[f]
          /\ rec.required \subseteq run'.required
          /\ pc' = "enriching" => run'.required # {}
        BY <2>2, <2>3 DEF RunType
    <2>5. /\ run'.pos = rec.pos /\ run'.result = rec.result /\ run'.optional = rec.optional
          /\ run'.phase = rec.phase /\ run'.want = rec.want
          /\ run'.selected = rec.selected /\ run'.outcome = rec.outcome
        BY <2>2, <2>3 DEF RunType
    <2>6. ~(x \in SkipIfMissing /\ MissingInputs(x))
        BY <1>4 DEF RunTool
    <2>7. \E st \in {"completed", "failed", "skipped"} :
             /\ run'.result = [run.result EXCEPT ![x] = st]
             /\ st = "skipped" => MissingInputs(x) /\ x \in SkipIfMissing
             /\ st # "skipped" => ~(x \in SkipIfMissing /\ MissingInputs(x))
             /\ st = "failed" => run'.optional # {}
             /\ IsStage(x) /\ run.selected = {} => st = "failed"
        BY <2>1, <2>2, <2>5, <2>6
    <2> QED BY <1>1, <1>2, <2>2, <2>3, <2>4, <2>5, <2>7
<1> QED BY <1>3, <1>4

LEMMA ResultsKnownInit == Init => ResultsKnown
BY DEF Init, NewRun, ResultsKnown

LEMMA ResultsKnownStep ==
    ASSUME TypeOK, ResultsKnown, [Next]_vars
    PROVE  ResultsKnown'
<1>1. run \in RunType /\ run.pos \in Nat
    BY PlanFacts DEF TypeOK, RunType, Plan
<1>2. ASSUME NEW x \in Tools, SkipSensor(x) \/ RunTool(x) PROVE ResultsKnown'
    <2>1. PICK status \in {"completed", "failed", "skipped"} :
            run'.result = [run.result EXCEPT ![x] = status]
        BY <1>2, ToolStep
    <2>2. /\ run'.pos = run.pos + 1 /\ x = Plan[run.pos] /\ Plan' = Plan
          /\ run.pos \in 1 .. run'.pos - 1
        <3>1. kind' = kind /\ run'.pos = run.pos + 1 /\ x = Plan[run.pos]
            BY <1>2, ToolStep
        <3> QED BY <3>1, PlanOfJob DEF Plan
    <2>3. ASSUME NEW y \in Tools, run'.result[y] # "none"
          PROVE  \E p \in 1 .. run'.pos - 1 : Plan[p] = y
        <3>1. CASE y = x
            BY <2>2, <3>1
        <3>2. CASE y # x
            <4>1. run'.result[y] = run.result[y]
                BY <1>1, <2>1, <3>2 DEF RunType
            <4> QED BY <1>1, <2>2, <2>3, <4>1 DEF ResultsKnown
        <3> QED BY <3>1, <3>2
    <2> QED BY <2>2, <2>3 DEF ResultsKnown
<1>3. ASSUME NEW l \in Label, Reanalyze(l) PROVE ResultsKnown'
    BY <1>3 DEF Reanalyze, NewRun, ResultsKnown
<1>4. CASE run'.result = run.result /\ run'.pos = run.pos /\ kind' = kind
    BY <1>4 DEF ResultsKnown, Plan
<1> QED BY <1>2, <1>3, <1>4, ResultsKept DEF Next

\* A sensor that must not run without its inputs does not run, in any profile,
\* once a stage it depends on has failed: the stages come first, so their
\* results are known, and a sensor in between was skipped in turn.
THEOREM DependencyRespected == Spec => []NoSensorOnBrokenStage
<1> DEFINE Broken == TypeOK /\ ResultsKnown /\ NoSensorOnBrokenStage
<1>1. Init => NoSensorOnBrokenStage
    BY DEF Init, NewRun, NoSensorOnBrokenStage, HasOutput, SkipIfMissing, Tools
<1>2. ASSUME Broken, [Next]_vars PROVE NoSensorOnBrokenStage'
    <2>0. run \in RunType /\ run.pos \in Nat
        BY <1>2, PlanFacts DEF TypeOK, RunType, Plan
    <2>1. \A x \in SkipIfMissing : \A y \in Needs[x] \union UNION {Needs[z] : z \in Needs[x]} :
              IsStage(y) => y = "zeek"
        BY DEF SkipIfMissing, Needs, Tools, IsStage
    <2>2. ASSUME NEW x \in Tools, SkipSensor(x) \/ RunTool(x) PROVE NoSensorOnBrokenStage'
        <3>1. PICK status \in {"completed", "failed", "skipped"} :
                /\ run'.result = [run.result EXCEPT ![x] = status]
                /\ status # "skipped" => ~(x \in SkipIfMissing /\ MissingInputs(x))
            BY <1>2, <2>2, ToolStep
        <3>2. \A y \in Tools : run'.result[y] = IF y = x THEN status ELSE run.result[y]
            BY <2>0, <3>1 DEF RunType
        <3>3. CASE x = "zeek"
            <4>1. run.pos = 1
                <5>1. run.pos \in DOMAIN Plan /\ Plan[run.pos] = "zeek"
                    BY <1>2, <2>2, <3>3, ToolStep
                <5> QED BY <1>2, <5>1, PlanOfJob
            <4>2. \A y \in Tools : run.result[y] = "none"
                BY <1>2, <4>1 DEF ResultsKnown
            <4> QED BY <3>2, <3>3, <4>2 DEF NoSensorOnBrokenStage, HasOutput, SkipIfMissing, Tools
        <3>4. CASE x \in SkipIfMissing
            <4>1. run.result["zeek"] = "completed" \/ status = "skipped"
                <5>1. CASE x = "file_triage"
                    <6>1. Needs[x] = {"zeek"}
                        BY <5>1 DEF Needs, Tools
                    <6> QED BY <3>1, <3>4, <6>1 DEF MissingInputs, HasOutput, IsStage
                <5>2. CASE x = "capa"
                    <6>1. Needs[x] = {"file_triage"} /\ Needs["file_triage"] = {"zeek"}
                        BY <5>2 DEF Needs, Tools
                    <6>2. HasOutput("file_triage") => run.result["zeek"] = "completed"
                        BY <1>2, <6>1 DEF NoSensorOnBrokenStage, SkipIfMissing, IsStage
                    <6> QED BY <3>1, <3>4, <6>1, <6>2 DEF MissingInputs
                <5> QED BY <3>4, <5>1, <5>2 DEF SkipIfMissing
            <4>2. \A z \in SkipIfMissing : HasOutput(z)' => run'.result["zeek"] = "completed"
                <5> SUFFICES ASSUME NEW z \in SkipIfMissing, HasOutput(z)'
                             PROVE  run'.result["zeek"] = "completed"
                    OBVIOUS
                <5>1. x # "zeek" /\ "zeek" \in Tools /\ z \in Tools
                    BY <3>4 DEF SkipIfMissing, Tools
                <5>2. CASE z = x
                    BY <3>2, <4>1, <5>1, <5>2 DEF HasOutput
                <5>3. CASE z # x
                    <6>1. HasOutput(z)
                        BY <3>2, <5>1, <5>3 DEF HasOutput
                    <6>2. "zeek" \in Needs[z] \union UNION {Needs[y] : y \in Needs[z]}
                        BY DEF Needs, Tools, SkipIfMissing
                    <6>3. run.result["zeek"] = "completed"
                        BY <1>2, <6>1, <6>2 DEF NoSensorOnBrokenStage, IsStage
                    <6> QED BY <3>2, <5>1, <6>3
                <5> QED BY <5>2, <5>3
            <4> QED BY <2>1, <4>2 DEF NoSensorOnBrokenStage
        <3>5. CASE x # "zeek" /\ x \notin SkipIfMissing
            <4>1. "zeek" \in Tools /\ SkipIfMissing \subseteq Tools
                BY DEF Tools, SkipIfMissing
            <4> QED BY <1>2, <2>1, <3>2, <3>5, <4>1 DEF NoSensorOnBrokenStage, HasOutput
        <3> QED BY <3>3, <3>4, <3>5
    <2>3. ASSUME NEW l \in Label, Reanalyze(l) PROVE NoSensorOnBrokenStage'
        BY <2>3 DEF Reanalyze, NewRun, NoSensorOnBrokenStage, HasOutput, SkipIfMissing, Tools
    <2>4. CASE run'.result = run.result
        BY <1>2, <2>4 DEF NoSensorOnBrokenStage, HasOutput
    <2> QED BY <1>2, <2>2, <2>3, <2>4, ResultsKept DEF Next
<1>3. Broken /\ [Next]_vars => ResultsKnown' /\ NoSensorOnBrokenStage'
    BY <1>2, ResultsKnownStep
<1> QED BY <1>1, <1>3, RunTyped, ResultsKnownInit, PTL DEF Spec

-----------------------------------------------------------------------------
(* Staging. *)

\* The row's capture is in place and its label in the manifest.
Done(i) ==
    /\ StagedName(i) \in DOMAIN labels \intersect DOMAIN input
    /\ labels[StagedName(i)] = LabelOf(i)

\* A staged file belongs to a row or is older than the ordinals, and a name with
\* an ordinal holds the capture of the row with that ordinal.
NamesInv ==
    /\ \A n \in DOMAIN input :
          (\E i \in DOMAIN rows : n = StagedName(i)) \/ (\E l \in Label : n = Stem[l])
    /\ \A i \in DOMAIN rows :
          StagedName(i) \in DOMAIN input => input[StagedName(i)] = rows[i].capture

\* A capture asked for has a row that is still to be linked, or done.
StagingInv ==
    /\ pc = "staging" =>
          \A c \in run.want : \E i \in DOMAIN rows :
              rows[i].capture = c /\ (i \in run.todo \/ Done(i))
    /\ pc \in {"tools", "enriching"} =>
          \A c \in run.want : \E i \in DOMAIN rows : rows[i].capture = c /\ Done(i)

LEMMA AppendFacts ==
    ASSUME NEW S, NEW s \in Seq(S), NEW e \in S
    PROVE  /\ DOMAIN Append(s, e) = 1 .. Len(s) + 1
           /\ \A i \in 1 .. Len(s) : Append(s, e)[i] = s[i]
OBVIOUS

LEMMA AppendInjective ==
    ASSUME NEW S, NEW s \in Seq(S), NEW t \in Seq(S), NEW a \in S, NEW b \in S,
           Append(s, a) = Append(t, b)
    PROVE  a = b
<1>1. /\ Len(Append(s, a)) = Len(s) + 1 /\ Len(Append(t, b)) = Len(t) + 1
      /\ Append(s, a)[Len(s) + 1] = a /\ Append(t, b)[Len(t) + 1] = b
      /\ Len(s) \in Nat /\ Len(t) \in Nat
    OBVIOUS
<1> QED BY <1>1

\* A name tells the ordinal it was made with.
LEMMA NameUnique ==
    ASSUME NEW l \in Label, NEW m \in Label, NEW i \in Nat, NEW j \in Nat,
           Append(Stem[l], i) = Append(Stem[m], j)
    PROVE  i = j
<1>1. Stem[l] \in Seq(STRING) /\ Stem[m] \in Seq(STRING)
    BY LabelsOK
<1>2. Stem[l] \in Seq(STRING \union Nat) /\ Stem[m] \in Seq(STRING \union Nat)
    BY <1>1
<1>3. i \in STRING \union Nat /\ j \in STRING \union Nat
    OBVIOUS
<1> QED BY <1>2, <1>3, AppendInjective

\* Rows are only added, and labelling those without a label does not change the
\* label or the name they are staged under.
LEMMA RowsKept ==
    ASSUME TypeOK, [Next]_vars
    PROVE  /\ DOMAIN rows \subseteq DOMAIN rows' /\ DOMAIN rows' \subseteq Nat
           /\ \A i \in DOMAIN rows : /\ rows'[i].capture = rows[i].capture
                                     /\ LabelOf(i)' = LabelOf(i)
                                     /\ StagedName(i)' = StagedName(i)
           /\ \A i \in DOMAIN rows' \ DOMAIN rows : i \in 1 .. MAX_PCAPS_PER_JOB
<1>1. rows \in Seq(Row) /\ DOMAIN rows = 1 .. Len(rows) /\ Len(rows) \in Nat
    BY SeqElement DEF TypeOK, Row
<1>2. CASE rows' = rows
    BY <1>1, <1>2 DEF LabelOf, StagedName
<1>3. ASSUME NEW l \in Label \union {NoLabel}, AddCommit(l), rows' # rows
      PROVE  /\ DOMAIN rows' = 1 .. Len(rows) + 1
             /\ Len(rows) < MAX_PCAPS_PER_JOB
             /\ \A i \in DOMAIN rows : rows'[i].capture = rows[i].capture
             /\ \A i \in DOMAIN rows : LabelOf(i)' = LabelOf(i)
    <2> DEFINE f(i) == IF l # NoLabel THEN [rows[i] EXCEPT !.label = LabelOf(i)] ELSE rows[i]
               old == [i \in DOMAIN rows |-> f(i)]
               new == [capture |-> adding, label |-> l]
    <2>1. rows' = Append(old, new) /\ Len(rows) < MAX_PCAPS_PER_JOB
        BY <1>3 DEF AddCommit
    <2>2. \A i \in DOMAIN rows :
             /\ rows[i] \in Row
             /\ f(i).capture = rows[i].capture
             /\ f(i).label = IF l # NoLabel THEN LabelOf(i) ELSE rows[i].label
             /\ LabelOf(i) \in Label
        <3> SUFFICES ASSUME NEW i \in DOMAIN rows
                     PROVE  /\ rows[i] \in Row
                            /\ f(i).capture = rows[i].capture
                            /\ f(i).label = IF l # NoLabel THEN LabelOf(i) ELSE rows[i].label
                            /\ LabelOf(i) \in Label
            OBVIOUS
        <3>1. rows[i] \in Row /\ LabelOf(i) \in Label
            BY <1>1, SeqElement, LabelOfType
        <3>2. CASE l # NoLabel
            BY <3>1, <3>2 DEF Row
        <3>3. CASE l = NoLabel
            BY <3>1, <3>3
        <3> QED BY <3>1, <3>2, <3>3
    <2> HIDE DEF f, new
    <2>3. old = [i \in 1 .. Len(rows) |-> f(i)]
        BY <1>1
    <2> DEFINE S == {f(i) : i \in DOMAIN rows} \union {new}
    <2>4. old \in Seq(S) /\ Len(old) = Len(rows) /\ new \in S
        BY <1>1, <2>3
    <2>5. /\ DOMAIN rows' = 1 .. Len(rows) + 1
          /\ \A i \in DOMAIN rows : rows'[i] = f(i)
        <3> HIDE DEF S
        <3>1. \A i \in DOMAIN rows : old[i] = f(i)
            OBVIOUS
        <3> HIDE DEF old
        <3>2. /\ DOMAIN Append(old, new) = 1 .. Len(old) + 1
              /\ \A i \in 1 .. Len(old) : Append(old, new)[i] = old[i]
            BY <2>4, AppendFacts
        <3> QED BY <1>1, <2>1, <2>4, <3>1, <3>2
    <2>6. ASSUME NEW i \in DOMAIN rows PROVE LabelOf(i)' = LabelOf(i)
        <3>1. LabelOf(i)' = IF f(i).label = NoLabel THEN "before" ELSE f(i).label
            BY <2>5 DEF LabelOf
        <3>2. CASE l # NoLabel
            BY <2>2, <3>1, <3>2, LabelsOK
        <3>3. CASE l = NoLabel
            BY <2>2, <3>1, <3>3 DEF LabelOf
        <3> QED BY <3>2, <3>3
    <2> QED BY <2>1, <2>2, <2>5, <2>6
<1>4. CASE \E l \in Label \union {NoLabel} : AddCommit(l) /\ rows' # rows
    <2>1. PICK l \in Label \union {NoLabel} : AddCommit(l) /\ rows' # rows
        BY <1>4
    <2>2. /\ DOMAIN rows' = 1 .. Len(rows) + 1
          /\ Len(rows) < MAX_PCAPS_PER_JOB
          /\ \A i \in DOMAIN rows : rows'[i].capture = rows[i].capture
          /\ \A i \in DOMAIN rows : LabelOf(i)' = LabelOf(i)
        BY <1>3, <2>1
    <2>3. \A i \in DOMAIN rows : StagedName(i)' = StagedName(i)
        BY <2>2 DEF StagedName
    <2>4. \A i \in DOMAIN rows' \ DOMAIN rows : i \in 1 .. MAX_PCAPS_PER_JOB
        BY <1>1, <2>2, LabelsOK
    <2> QED BY <1>1, <2>2, <2>3, <2>4
<1>5. rows' = rows \/ \E l \in Label \union {NoLabel} : AddCommit(l)
    BY DEF Next, AddCheck, Reanalyze, StartRun, LinkCapture, SetupFails, SelectCaptures,
           SkipSensor, RunTool, Enrich, FinishOutcome, Raises
<1> QED BY <1>2, <1>4, <1>5

\* Files and labels change by linking a capture, or beginning to.
LEMMA FilesStep ==
    ASSUME TypeOK, [Next]_vars
    PROVE  \/ UNCHANGED <<input, labels>>
           \/ \E i \in DOMAIN rows :
                 /\ labels' = Recorded(i) /\ rows' = rows
                 /\ input' = input \/ input' = Linked(i)
<1>1. CASE SetupFails
    BY <1>1 DEF SetupFails, TypeOK, RunType
<1>2. ASSUME NEW i \in DOMAIN rows, LinkCapture(i)
      PROVE  labels' = Recorded(i) /\ rows' = rows /\ input' = Linked(i)
    BY <1>2 DEF LinkCapture
<1>3. CASE ~SetupFails /\ ~\E i \in DOMAIN rows : LinkCapture(i)
    BY <1>3 DEF Next, AddCheck, AddCommit, Reanalyze, StartRun, SelectCaptures,
                SkipSensor, RunTool, Enrich, FinishOutcome, Raises
<1> QED BY <1>1, <1>2, <1>3

LEMMA NamesInit == Init => NamesInv
<1> SUFFICES ASSUME Init PROVE NamesInv
    OBVIOUS
<1>1. CASE input = << >>
    BY <1>1 DEF NamesInv
<1>2. CASE \E c \in Capture, l \in Label :
              /\ rows = << [capture |-> c, label |-> l] >>
              /\ input = [n \in {Stem[l]} |-> c]
    BY <1>2 DEF NamesInv
<1> QED BY <1>1, <1>2 DEF Init

LEMMA NamesStep ==
    ASSUME TypeOK, NamesInv, [Next]_vars
    PROVE  NamesInv'
<1>0. DOMAIN rows \subseteq Nat
    BY RowsKept
<1>1. CASE UNCHANGED input
    <2>1. ASSUME NEW i \in DOMAIN rows', StagedName(i)' \in DOMAIN input
          PROVE  input[StagedName(i)'] = rows'[i].capture
        <3>1. CASE i \in DOMAIN rows
            BY <2>1, <3>1, RowsKept DEF NamesInv
        <3>2. CASE i \notin DOMAIN rows
            <4>1. TypeOK'
                BY TypeStep
            <4>2. LabelOf(i)' \in Label
                <5>1. rows' \in Seq(Row)
                    BY <4>1 DEF TypeOK, Row
                <5>2. rows'[i] \in Row
                    BY <2>1, <5>1, SeqElement
                <5> QED BY <5>2, LabelsOK DEF LabelOf, Row
            <4>3. i \in 1 .. MAX_PCAPS_PER_JOB /\ i \in Nat
                BY <3>2, RowsKept
            <4>4. \A j \in DOMAIN rows : StagedName(i)' # StagedName(j)
                BY <1>0, <3>2, <4>2, <4>3, LabelOfType, NameUnique DEF StagedName
            <4>5. \A l \in Label : StagedName(i)' # Stem[l]
                BY <4>2, <4>3, NamesOK DEF StagedName
            <4> QED BY <2>1, <4>4, <4>5 DEF NamesInv
        <3> QED BY <3>1, <3>2
    <2> QED BY <1>1, <2>1, RowsKept DEF NamesInv
<1>2. ASSUME NEW i \in DOMAIN rows, rows' = rows, input' = Linked(i) PROVE NamesInv'
    <2>1. DOMAIN input' = DOMAIN input \union {StagedName(i)}
        BY <1>2 DEF Linked
    <2>2. ASSUME NEW j \in DOMAIN rows, StagedName(j) \in DOMAIN input'
          PROVE  input'[StagedName(j)] = rows[j].capture
        <3>1. CASE StagedName(j) \in DOMAIN input
            BY <1>2, <3>1 DEF Linked, NamesInv
        <3>2. CASE StagedName(j) \notin DOMAIN input
            <4>1. StagedName(j) = StagedName(i)
                BY <2>1, <2>2, <3>2
            <4>2. i = j
                BY <1>0, <4>1, LabelOfType, NameUnique DEF StagedName
            <4> QED BY <1>2, <2>1, <3>2, <4>2 DEF Linked
        <3> QED BY <3>1, <3>2
    <2>3. \A j \in DOMAIN rows : StagedName(j)' = StagedName(j)
        BY RowsKept
    <2> QED BY <1>2, <2>1, <2>2, <2>3 DEF NamesInv
<1> QED BY <1>1, <1>2, FilesStep

\* What has been done stays done.
LEMMA DoneKept ==
    ASSUME TypeOK, [Next]_vars, NEW i \in DOMAIN rows, Done(i)
    PROVE  Done(i)'
<1>1. /\ StagedName(i)' = StagedName(i) /\ LabelOf(i)' = LabelOf(i)
      /\ DOMAIN rows \subseteq Nat
    BY RowsKept
<1>2. CASE UNCHANGED <<input, labels>>
    BY <1>1, <1>2 DEF Done
<1>3. ASSUME NEW j \in DOMAIN rows, labels' = Recorded(j), input' = input \/ input' = Linked(j)
      PROVE  Done(i)'
    <2>1. StagedName(j) = StagedName(i) => LabelOf(j) = LabelOf(i)
        BY <1>1, LabelOfType, NameUnique DEF StagedName
    <2>2. StagedName(i) \in DOMAIN labels' /\ labels'[StagedName(i)] = LabelOf(i)
        BY <1>3, <2>1 DEF Recorded, Done
    <2>3. StagedName(i) \in DOMAIN input'
        BY <1>3 DEF Linked, Done
    <2> QED BY <1>1, <2>2, <2>3 DEF Done
<1> QED BY <1>2, <1>3, FilesStep

\* Linking a capture puts it in place.
LEMMA LinkedIsDone ==
    ASSUME TypeOK, NEW i \in DOMAIN rows, LinkCapture(i)
    PROVE  Done(i)'
<1>1. /\ StagedName(i)' = StagedName(i) /\ LabelOf(i)' = LabelOf(i)
      /\ labels' = Recorded(i) /\ input' = Linked(i)
    BY DEF LinkCapture, StagedName, LabelOf
<1> QED BY <1>1 DEF Done, Recorded, Linked

LEMMA StagingStep ==
    ASSUME TypeOK, StagingInv, [Next]_vars
    PROVE  StagingInv'
<1>0. run \in RunType
    BY DEF TypeOK
<1>1. ASSUME run'.want = run.want, pc' = pc, run'.todo = run.todo
      PROVE  StagingInv'
    BY <1>1, RowsKept, DoneKept DEF StagingInv
<1>2. ASSUME pc' \notin {"staging", "tools", "enriching"} PROVE StagingInv'
    BY <1>2 DEF StagingInv
<1>3. CASE StartRun
    <2>1. /\ run'.todo = RowsOf(run.phase) /\ pc' = "staging" /\ rows' = rows
          /\ run'.want = {rows[i].capture : i \in RowsOf(run.phase)}
        BY <1>0, <1>3 DEF StartRun, RunType
    <2>2. RowsOf(run.phase) \subseteq DOMAIN rows
        BY DEF RowsOf
    <2> QED BY <2>1, <2>2 DEF StagingInv
<1>4. ASSUME NEW i \in DOMAIN rows, LinkCapture(i) PROVE StagingInv'
    <2>1. /\ run'.todo = run.todo \ {i} /\ run'.want = run.want
          /\ pc = "staging" /\ pc' = "staging" /\ rows' = rows
        BY <1>0, <1>4 DEF LinkCapture, Linking, RunType
    <2>2. \A j \in DOMAIN rows : j \in run.todo \/ Done(j) => j \in run'.todo \/ Done(j)'
        BY <1>4, <2>1, LinkedIsDone, DoneKept
    <2> QED BY <2>1, <2>2 DEF StagingInv
<1>5. CASE SelectCaptures
    <2>1. /\ run'.want = run.want /\ run.todo = {} /\ pc = "staging" /\ pc' = "tools"
        BY <1>0, <1>5 DEF SelectCaptures, RunType
    <2> QED BY <2>1, RowsKept, DoneKept DEF StagingInv
<1>6. ASSUME NEW x \in Tools, SkipSensor(x) \/ RunTool(x) PROVE StagingInv'
    <2>1. pc = "tools" /\ pc' \in {"tools", "enriching"} /\ run'.want = run.want
        BY <1>6, ToolStep
    <2> QED BY <2>1, RowsKept, DoneKept DEF StagingInv
<1>7. \/ run'.want = run.want /\ run'.todo = run.todo /\ pc' = pc
      \/ pc' \notin {"staging", "tools", "enriching"}
      \/ StartRun \/ SelectCaptures \/ \E i \in DOMAIN rows : LinkCapture(i)
      \/ \E x \in Tools : SkipSensor(x) \/ RunTool(x)
    BY DEF Next, AddCheck, AddCommit, Reanalyze, SetupFails, Enrich, FinishOutcome, Raises
<1> QED BY <1>1, <1>2, <1>3, <1>4, <1>5, <1>6, <1>7

\* A run that has begun its tools has every capture it was asked for in place,
\* under its own name and its row's label: ordinals make names unique, labelling
\* a row afterwards does not rename it, and a name that is taken is its own.
THEOREM Staged == Spec => []EveryCaptureStaged
<1>1. Init => StagingInv
    BY DEF Init, StagingInv
<1>2. TypeOK /\ NamesInv /\ StagingInv => EveryCaptureStaged
    BY DEF NamesInv, StagingInv, Done, EveryCaptureStaged
<1> QED BY <1>1, <1>2, NamesInit, NamesStep, StagingStep, RunTyped, PTL DEF Spec

-----------------------------------------------------------------------------
(* What "completed" says. *)

\* Nothing has failed so far.
Clean == run.required = {} /\ run.optional = {}

\* Then every tool passed has completed, on the captures the run is about.
CleanInv ==
    /\ pc \in {"queued", "staging"} => run.pos = 1
    /\ Clean /\ pc \in {"tools", "enriching", "finishing"} =>
          /\ pc # "enriching"
          /\ pc = "finishing" => run.pos > Len(Plan)
          /\ \A p \in 1 .. run.pos - 1 : run.result[Plan[p]] = "completed"
          /\ run.pos > 1 => run.selected # {}
          /\ run.phase = Whole => run.want \subseteq {input[n] : n \in run.selected}
    /\ pc # "ended" => run.outcome = "none"

\* What a sensor may not be without is produced earlier in the plan.
LEMMA NeedsEarlier ==
    ASSUME NEW p \in DOMAIN Plan, Plan[p] \in SkipIfMissing, NEW y \in Needs[Plan[p]]
    PROVE  \E q \in 1 .. p - 1 : Plan[q] = y
<1>1. CASE kind.profile = "triage"
    <2>1. Plan = <<"zeek", "suricata", "tls_enrich", "ti_matcher">>
        BY <1>1 DEF Plan, PlanFor
    <2> QED BY <2>1, Z3 DEF SkipIfMissing
<1>2. CASE kind.profile # "triage"
    <2>1. Plan = <<"zeek", "suricata", "tls_enrich", "beaconing",
                   "file_triage", "capa", "ti_matcher">>
        BY <1>2 DEF Plan, PlanFor
    <2>2. CASE p = 5
        <3>1. Plan[p] = "file_triage" /\ Plan[1] = "zeek"
            BY <2>1, <2>2
        <3>2. y = "zeek"
            BY <3>1 DEF Needs, Tools
        <3> QED BY <2>2, <3>1, <3>2
    <2>3. CASE p = 6
        <3>1. Plan[p] = "capa" /\ Plan[5] = "file_triage"
            BY <2>1, <2>3
        <3>2. y = "file_triage"
            BY <3>1 DEF Needs, Tools
        <3> QED BY <2>3, <3>1, <3>2
    <2>4. p = 5 \/ p = 6
        BY <2>1, Z3 DEF SkipIfMissing
    <2> QED BY <2>2, <2>3, <2>4
<1> QED BY <1>1, <1>2

LEMMA CleanTools ==
    ASSUME TypeOK, CleanInv, NEW x \in Tools, SkipSensor(x) \/ RunTool(x)
    PROVE  CleanInv'
<1>1. PICK status \in {"completed", "failed", "skipped"} :
        /\ run'.result = [run.result EXCEPT ![x] = status]
        /\ status = "skipped" => MissingInputs(x) /\ x \in SkipIfMissing
        /\ status = "failed" => run'.optional # {}
        /\ IsStage(x) /\ run.selected = {} => status = "failed"
    BY ToolStep
<1>2. /\ kind' = kind /\ pc = "tools" /\ x = Plan[run.pos] /\ run.pos \in DOMAIN Plan
      /\ run'.pos = run.pos + 1 /\ run'.outcome = run.outcome
      /\ run'.selected = run.selected /\ run'.phase = run.phase /\ run'.want = run.want
      /\ run.required \subseteq run'.required /\ run.optional \subseteq run'.optional
      /\ pc' = "tools" \/ (pc' = "enriching" /\ run'.required # {})
    BY ToolStep
<1>3. input' = input /\ Plan' = Plan
    BY <1>2 DEF SkipSensor, RunTool, Plan
<1>4. /\ run \in RunType /\ run.pos \in Nat \ {0} /\ DOMAIN Plan = 1 .. Len(Plan)
      /\ Plan[1] = "zeek"
      /\ \A p, q \in DOMAIN Plan : Plan[p] = Plan[q] => p = q
    BY PlanOfJob
<1>5. ASSUME Clean' PROVE /\ Clean /\ status = "completed"
    <2>1. Clean
        BY <1>2, <1>5 DEF Clean
    <2>2. \A p \in 1 .. run.pos - 1 : run.result[Plan[p]] = "completed"
        BY <1>2, <2>1 DEF CleanInv
    <2>3. status # "skipped"
        <3> SUFFICES ASSUME status = "skipped" PROVE FALSE
            OBVIOUS
        <3>1. x \in SkipIfMissing /\ MissingInputs(x)
            BY <1>1
        <3>2. PICK y \in Needs[x] : ~HasOutput(y) \/ run.result[y] = "failed"
            BY <3>1 DEF MissingInputs
        <3>3. PICK q \in 1 .. run.pos - 1 : Plan[q] = y
            BY <1>2, <3>1, <3>2, NeedsEarlier
        <3> QED BY <2>2, <3>2, <3>3 DEF HasOutput
    <2> QED BY <1>1, <1>5, <2>1, <2>3 DEF Clean
<1>6. ASSUME Clean' PROVE \A p \in 1 .. run'.pos - 1 : run'.result[Plan[p]] = "completed"
    <2> SUFFICES ASSUME NEW p \in 1 .. run'.pos - 1 PROVE run'.result[Plan[p]] = "completed"
        OBVIOUS
    <2>1. CASE p = run.pos
        BY <1>1, <1>2, <1>4, <1>5, <1>6, <2>1 DEF RunType
    <2>2. CASE p # run.pos
        <3>1. p \in 1 .. run.pos - 1 /\ p \in DOMAIN Plan
            BY <1>2, <1>4, <2>2
        <3>2. Plan[p] # x
            BY <1>2, <1>4, <2>2, <3>1
        <3>3. run.result[Plan[p]] = "completed"
            BY <1>2, <1>5, <1>6, <3>1 DEF CleanInv
        <3> QED BY <1>1, <1>4, <3>2, <3>3 DEF RunType
    <2> QED BY <2>1, <2>2
<1>7. ASSUME Clean' PROVE run.selected # {}
    <2>1. CASE run.pos = 1
        BY <1>1, <1>2, <1>4, <1>5, <1>7, <2>1 DEF IsStage
    <2>2. CASE run.pos # 1
        BY <1>2, <1>4, <1>5, <1>7, <2>2 DEF CleanInv
    <2> QED BY <2>1, <2>2
<1>8. Clean' => pc' = "tools"
    BY <1>2 DEF Clean
<1> QED BY <1>2, <1>3, <1>5, <1>6, <1>7, <1>8 DEF CleanInv

LEMMA CleanStep ==
    ASSUME TypeOK, NamesInv, StagingInv, CleanInv, [Next]_vars
    PROVE  CleanInv'
<1>1. /\ run \in RunType /\ run.pos \in Nat \ {0} /\ DOMAIN Plan = 1 .. Len(Plan)
      /\ Len(Plan) \in Nat
    BY PlanOfJob
<1>2. CASE \/ \E c \in Capture : AddCheck(c)
           \/ \E l \in Label \union {NoLabel} : AddCommit(l)
           \/ UNCHANGED vars
    <2>1. UNCHANGED <<kind, input, pc, run>>
        BY <1>2 DEF AddCheck, AddCommit
    <2> QED BY <2>1 DEF CleanInv, Clean, Plan
<1>3. ASSUME NEW l \in Label, Reanalyze(l) PROVE CleanInv'
    BY <1>3 DEF Reanalyze, NewRun, CleanInv, Clean
<1>4. CASE StartRun \/ \E i \in DOMAIN rows : LinkCapture(i)
    <2>1. pc \in {"queued", "staging"} /\ pc' = "staging"
        BY <1>4 DEF StartRun, LinkCapture, Linking
    <2>2. run'.pos = run.pos /\ run'.outcome = run.outcome
        BY <1>1, <1>4 DEF StartRun, LinkCapture, RunType
    <2> QED BY <2>1, <2>2 DEF CleanInv
<1>5. CASE SetupFails
    <2>1. pc = "staging" /\ pc' = "finishing" /\ run'.required # {} /\ run'.outcome = run.outcome
        BY <1>1, <1>5 DEF SetupFails, RunType
    <2> QED BY <2>1 DEF CleanInv, Clean
<1>6. CASE SelectCaptures
    <2>1. /\ pc = "staging" /\ pc' = "tools" /\ run.todo = {}
          /\ UNCHANGED <<kind, rows, input, labels>>
          /\ run'.selected = {n \in DOMAIN input : run.phase = Whole \/ n = Stem[run.phase]}
          /\ run'.pos = run.pos /\ run'.outcome = run.outcome
          /\ run'.phase = run.phase /\ run'.want = run.want
        BY <1>1, <1>6 DEF SelectCaptures, RunType
    <2>2. run.want \subseteq {input[n] : n \in DOMAIN input}
        BY <2>1 DEF StagingInv, NamesInv, Done
    <2>3. run.phase = Whole => run'.selected = DOMAIN input
        BY <2>1
    <2>4. run.pos = 1
        BY <2>1 DEF CleanInv
    <2> QED BY <2>1, <2>2, <2>3, <2>4 DEF CleanInv, Clean
<1>7. ASSUME NEW x \in Tools, SkipSensor(x) \/ RunTool(x) PROVE CleanInv'
    BY <1>7, CleanTools
<1>8. CASE Enrich
    <2>1. PICK req \in SUBSET {"input", "correlate"}, opt \in SUBSET {"telemetry", "derived"} :
            run' = [run EXCEPT !.required = @ \union req, !.optional = @ \union opt]
        BY <1>8 DEF Enrich
    <2>2. /\ run'.required = run.required \union req /\ run'.optional = run.optional \union opt
          /\ run'.pos = run.pos /\ run'.outcome = run.outcome /\ run'.result = run.result
          /\ run'.selected = run.selected /\ run'.phase = run.phase /\ run'.want = run.want
        BY <1>1, <2>1 DEF RunType
    <2>3. Clean' => Clean
        BY <2>2 DEF Clean
    <2>4. /\ pc' = "finishing" /\ UNCHANGED <<kind, input>> /\ pc \in {"tools", "enriching"}
          /\ pc = "tools" => run.pos > Len(Plan)
        BY <1>8 DEF Enrich
    <2>5. Plan' = Plan
        BY <2>4 DEF Plan
    <2> QED BY <2>2, <2>3, <2>4, <2>5 DEF CleanInv
<1>9. CASE FinishOutcome \/ Raises
    BY <1>9 DEF FinishOutcome, Raises, CleanInv
<1> QED BY <1>2, <1>3, <1>4, <1>5, <1>6, <1>7, <1>8, <1>9 DEF Next

LEMMA CompletedStep ==
    ASSUME TypeOK, CleanInv, CompletedIsComplete, [Next]_vars
    PROVE  CompletedIsComplete'
<1>1. /\ run \in RunType /\ run.pos \in Nat \ {0} /\ DOMAIN Plan = 1 .. Len(Plan)
      /\ Len(Plan) \in {4, 7}
    BY PlanOfJob
<1>2. CASE FinishOutcome
    <2>1. PICK req \in {{}, {"manifest"}} :
            run' = [run EXCEPT !.outcome = DeriveOutcome(run.required \union req, run.optional)]
        BY <1>2 DEF FinishOutcome
    <2>2. /\ run'.outcome = DeriveOutcome(run.required \union req, run.optional)
          /\ run'.result = run.result /\ run'.selected = run.selected
          /\ run'.phase = run.phase /\ run'.want = run.want
        BY <1>1, <2>1 DEF RunType
    <2>3. run'.outcome = "completed" => Clean
        BY <2>2 DEF DeriveOutcome, Clean
    <2>4. pc = "finishing" /\ UNCHANGED <<kind, input>> /\ Plan' = Plan
        BY <1>2 DEF FinishOutcome, Plan
    <2>5. ASSUME run'.outcome = "completed"
          PROVE  /\ \A p \in DOMAIN Plan : run.result[Plan[p]] = "completed"
                 /\ run.selected # {}
                 /\ run.phase = Whole => run.want \subseteq {input[n] : n \in run.selected}
        <3>1. Clean /\ run.pos > Len(Plan)
            BY <2>3, <2>4, <2>5 DEF CleanInv
        <3>2. DOMAIN Plan \subseteq 1 .. run.pos - 1 /\ run.pos > 1
            BY <1>1, <3>1
        <3> QED BY <2>4, <3>1, <3>2 DEF CleanInv
    <2> QED BY <2>2, <2>4, <2>5 DEF CompletedIsComplete
<1>3. CASE pc = "ended" /\ UNCHANGED <<kind, input, run>>
    BY <1>3 DEF CompletedIsComplete, Plan
<1>4. ASSUME NEW l \in Label, Reanalyze(l) PROVE CompletedIsComplete'
    BY <1>4 DEF Reanalyze, NewRun, CompletedIsComplete
<1>5. CASE run'.outcome = "none"
    BY <1>5 DEF CompletedIsComplete
<1>6. CASE pc # "ended" /\ ~FinishOutcome
    <2>1. run.outcome = "none"
        BY <1>6 DEF CleanInv
    <2>2. run'.outcome = run.outcome
        <3>1. ASSUME NEW x \in Tools, SkipSensor(x) \/ RunTool(x)
              PROVE  run'.outcome = run.outcome
            BY <3>1, ToolStep
        <3>2. CASE Enrich
            <4>1. PICK req \in SUBSET {"input", "correlate"}, opt \in SUBSET {"telemetry", "derived"} :
                    run' = [run EXCEPT !.required = @ \union req, !.optional = @ \union opt]
                BY <3>2 DEF Enrich
            <4> QED BY <1>1, <4>1 DEF RunType
        <3>3. CASE StartRun \/ SetupFails \/ SelectCaptures \/ \E i \in DOMAIN rows : LinkCapture(i)
            BY <1>1, <3>3 DEF StartRun, SetupFails, SelectCaptures, LinkCapture, RunType
        <3>4. CASE \/ \E c \in Capture : AddCheck(c)
                   \/ \E l \in Label \union {NoLabel} : AddCommit(l)
                   \/ Raises \/ UNCHANGED vars
            BY <3>4 DEF AddCheck, AddCommit, Raises
        <3> QED BY <1>6, <3>1, <3>2, <3>3, <3>4 DEF Next, Reanalyze
    <2> QED BY <2>1, <2>2 DEF CompletedIsComplete
<1>7. CASE pc = "ended"
    BY <1>3, <1>4, <1>7 DEF Next, AddCheck, AddCommit, StartRun, LinkCapture, Linking, SetupFails,
        SelectCaptures, SkipSensor, RunTool, Current, Enrich, FinishOutcome, Raises
<1> QED BY <1>2, <1>6, <1>7

\* "completed" hides nothing, in any profile: each tool of the plan completed, on
\* some capture, and the first run on all it had been given.
THEOREM CompletedHidesNothing == Spec => []CompletedIsComplete
<1>1. Init => StagingInv /\ CleanInv /\ CompletedIsComplete
    BY DEF Init, NewRun, StagingInv, CleanInv, Clean, CompletedIsComplete
<1> QED BY <1>1, NamesInit, NamesStep, StagingStep, CleanStep, CompletedStep, RunTyped, PTL
        DEF Spec
=============================================================================
