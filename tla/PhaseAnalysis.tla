--------------------------- MODULE PhaseAnalysis ---------------------------
(***************************************************************************)
(* What run_pipeline does with the captures of one job, over its first run *)
(* and the phase re-analyses that follow: captures are attached, staged    *)
(* under a name of their own, selected, parsed by two stages and given to  *)
(* the sensors of the execution profile; the outcome is derived from the   *)
(* failures met on the way.  JobRuntime says who may run it and whether    *)
(* its outcome is accepted; runs of one job follow one another here.       *)
(***************************************************************************)
EXTENDS Naturals, Sequences, FiniteSets

CONSTANTS Capture,   \* uploaded captures
          Label,     \* phase labels users give, "before" among them
          Stem,      \* a label sanitised for file names, as a sequence of parts
          Profile,   \* execution profiles in use
          MAX_PCAPS_PER_JOB,
          NoLabel,   \* a capture attached without a label
          Whole      \* the phase of a run over all captures

ASSUME LabelsOK ==
    /\ MAX_PCAPS_PER_JOB \in Nat \ {0, 1}
    /\ "before" \in Label
    /\ NoLabel \notin Label
    /\ Whole \notin Label \union {NoLabel}
    /\ NoLabel \notin Capture
    /\ Stem \in [Label -> Seq(STRING)]

\* No label is another one followed by an ordinal: of the jobs staged before
\* there were ordinals, those with such labels are left out.
ASSUME NamesOK ==
    \A l, m \in Label, i \in 1 .. MAX_PCAPS_PER_JOB : Stem[l] # Append(Stem[m], i)

VARIABLES
    kind,     \* the job's profile, and whether telemetry is bundled with it
    rows,     \* the captures attached to the job, in the order of ordinals
    adding,   \* the capture of a request that has passed its status check
    input,    \* staged files: name -> capture
    labels,   \* the manifest beside them: name -> label
    pc,       \* where the job's current run is
    run       \* the local variables of that run

vars == <<kind, rows, adding, input, labels, pc, run>>

-----------------------------------------------------------------------------
(* The registry, as far as captures are concerned. *)

\* The stages, then the sensors of the profile.
PlanFor(profile) ==
    IF profile = "triage"
    THEN <<"zeek", "suricata", "tls_enrich", "ti_matcher">>
    ELSE <<"zeek", "suricata", "tls_enrich", "beaconing", "file_triage", "capa",
           "ti_matcher">>

Tools == {"zeek", "suricata", "tls_enrich", "beaconing", "file_triage", "capa",
          "ti_matcher"}

Needs == [x \in Tools |->
            CASE x \in {"tls_enrich", "beaconing", "file_triage"} -> {"zeek"}
              [] x = "capa" -> {"file_triage"}
              [] x = "ti_matcher" -> {"zeek", "suricata"}
              [] OTHER -> {}]

SkipIfMissing == {"file_triage", "capa"}

Required == {}   \* no registered tool is required

Plan == PlanFor(kind.profile)

IsStage(x) == x \in {"zeek", "suricata"}

-----------------------------------------------------------------------------
LabelOf(i) == IF rows[i].label = NoLabel THEN "before" ELSE rows[i].label

\* Mutant: captures that share a label share a name.
StagedName_ByLabel(i) == Stem[LabelOf(i)]

\* The ordinal makes the name unique: labels are shared on purpose.
StagedName(i) == Append(Stem[LabelOf(i)], i)

\* The query behind a run: all rows, or those with exactly its label.
RowsOf(phase) == {i \in DOMAIN rows : phase = Whole \/ rows[i].label = phase}

Attached == {rows[i].capture : i \in DOMAIN rows}

NewRun(phase) ==
    [phase |-> phase, want |-> {}, todo |-> {}, selected |-> {}, pos |-> 1,
     result |-> [x \in Tools |-> "none"], required |-> {}, optional |-> {},
     outcome |-> "none"]

\* A new job, with the captures it was created with (at most two of them here).
\* An older one was staged before there were ordinals or a manifest: a file per
\* phase, named by its label alone.
Init ==
    /\ kind \in [profile : Profile, hybrid : BOOLEAN]
    /\ adding = NoLabel
    /\ labels = << >>
    /\ run = NewRun(Whole)
    /\ \/ /\ \E c, d \in Capture, l, m \in Label \union {NoLabel} :
               \/ rows = << [capture |-> c, label |-> l] >>
               \/ c # d /\ rows = << [capture |-> c, label |-> l], [capture |-> d, label |-> m] >>
          /\ input = << >>
          /\ pc = "queued"
       \/ /\ \E c \in Capture, l \in Label :
               /\ rows = << [capture |-> c, label |-> l] >>
               /\ input = [n \in {Stem[l]} |-> c]
          /\ pc = "ended"

-----------------------------------------------------------------------------
(* The API. *)

AddCheck(c) ==
    /\ adding = NoLabel
    /\ c \notin Attached
    /\ pc \in {"queued", "ended"}
    /\ adding' = c
    /\ UNCHANGED <<kind, rows, input, labels, pc, run>>

\* A labelled capture labels those that have none; a job that is full takes none.
AddCommit(l) ==
    /\ adding # NoLabel
    /\ \/ /\ Len(rows) < MAX_PCAPS_PER_JOB
          /\ rows' = Append([i \in DOMAIN rows |->
                               IF l # NoLabel THEN [rows[i] EXCEPT !.label = LabelOf(i)]
                                              ELSE rows[i]],
                            [capture |-> adding, label |-> l])
       \/ Len(rows) >= MAX_PCAPS_PER_JOB /\ UNCHANGED rows
    /\ adding' = NoLabel
    /\ UNCHANGED <<kind, input, labels, pc, run>>

Reanalyze(l) ==
    /\ pc = "ended"
    /\ RowsOf(l) # {}
    /\ run' = NewRun(l)
    /\ pc' = "queued"
    /\ UNCHANGED <<kind, rows, adding, input, labels>>

-----------------------------------------------------------------------------
(* run_pipeline. *)

StartRun ==
    /\ pc = "queued"
    /\ run' = [run EXCEPT !.todo = RowsOf(run.phase),
                          !.want = {rows[i].capture : i \in RowsOf(run.phase)}]
    /\ pc' = "staging"
    /\ UNCHANGED <<kind, rows, adding, input, labels>>

\* The next capture to link, the manifest once its label is recorded, and the
\* files once it is linked: a name that is taken keeps its file.
Linking(i) == pc = "staging" /\ i \in run.todo /\ \A j \in run.todo : i <= j

Recorded(i) ==
    [n \in DOMAIN labels \union {StagedName(i)} |->
        IF n = StagedName(i) THEN LabelOf(i) ELSE labels[n]]

Linked(i) ==
    [n \in DOMAIN input \union {StagedName(i)} |->
        IF n \in DOMAIN input THEN input[n] ELSE rows[i].capture]

LinkCapture(i) ==
    /\ Linking(i)
    /\ labels' = Recorded(i)
    /\ input' = Linked(i)
    /\ run' = [run EXCEPT !.todo = @ \ {i}]
    /\ UNCHANGED <<kind, rows, adding, pc>>

\* A missing upload, a full disk, a copy that fails after its label has been
\* recorded and perhaps its file begun: the run is over.
SetupFails ==
    /\ pc = "staging"
    /\ \/ UNCHANGED <<labels, input>>
       \/ \E i \in run.todo :
             /\ Linking(i)
             /\ labels' = Recorded(i)
             /\ UNCHANGED input \/ input' = Linked(i)
    /\ run' = [run EXCEPT !.required = @ \union {"input"}]
    /\ pc' = "finishing"
    /\ UNCHANGED <<kind, rows, adding>>

\* A phase run only sees the files whose stem is its label.
SelectCaptures ==
    /\ pc = "staging"
    /\ run.todo = {}
    /\ run' = [run EXCEPT !.selected =
                 {n \in DOMAIN input : run.phase = Whole \/ n = Stem[run.phase]}]
    /\ pc' = "tools"
    /\ UNCHANGED <<kind, rows, adding, input, labels>>

HasOutput(x) == run.result[x] \in {"completed", "failed"}

\* Mutant: a failed stage leaves a directory, which is taken for its output.
MissingInputs_DirectoryOnly(x) == \E y \in Needs[x] : ~HasOutput(y)

\* An output directory exists once a tool has run, however it ended; only of
\* the stages is it known that they failed.
MissingInputs(x) ==
    \E y \in Needs[x] : ~HasOutput(y) \/ (IsStage(y) /\ run.result[y] = "failed")

\* The tool at the run's position, and what is recorded of it.
Current(x) == pc = "tools" /\ run.pos <= Len(Plan) /\ x = Plan[run.pos]

\* Mutant: a failed tool that is not required is only logged.
Record_LogOnly(x, status) ==
    [run EXCEPT !.pos = @ + 1, !.result[x] = status,
                !.required = IF status # "completed" /\ x \in Required THEN @ \union {x} ELSE @]

Record(x, status) ==
    [run EXCEPT !.pos = @ + 1, !.result[x] = status,
                !.required = IF status # "completed" /\ x \in Required THEN @ \union {x} ELSE @,
                !.optional = IF status = "failed" /\ x \notin Required THEN @ \union {x} ELSE @]

SkipSensor(x) ==
    /\ Current(x)
    /\ x \in SkipIfMissing
    /\ MissingInputs(x)
    /\ run' = Record(x, "skipped")
    /\ UNCHANGED <<kind, rows, adding, input, labels, pc>>

\* A stage needs a capture to look at.  A timeout counts as a failure.  After a
\* sensor the disk quota may be found exceeded, which ends the series.
RunTool(x) ==
    /\ Current(x)
    /\ ~(x \in SkipIfMissing /\ MissingInputs(x))
    /\ \E status \in {"completed", "failed"} :
         /\ IsStage(x) /\ run.selected = {} => status = "failed"
         /\ \/ run' = Record(x, status) /\ UNCHANGED pc
            \/ /\ ~IsStage(x)
               /\ run' = [Record(x, status) EXCEPT !.required = @ \union {"quota"}]
               /\ pc' = "enriching"
    /\ UNCHANGED <<kind, rows, adding, input, labels>>

\* Correlation is required; telemetry, when there is any, is not unless its
\* input is invalid; everything derived from them is optional.
Enrich ==
    /\ \/ pc = "tools" /\ run.pos > Len(Plan)
       \/ pc = "enriching"
    /\ \E req \in SUBSET {"input", "correlate"}, opt \in SUBSET {"telemetry", "derived"} :
         /\ kind.hybrid \/ ("input" \notin req /\ "telemetry" \notin opt)
         /\ ~("input" \in req /\ "telemetry" \in opt)
         /\ run' = [run EXCEPT !.required = @ \union req, !.optional = @ \union opt]
    /\ pc' = "finishing"
    /\ UNCHANGED <<kind, rows, adding, input, labels>>

\* Mutant: a run with optional failures is called partial, as its telemetry is.
DeriveOutcome_Partial(required, optional) ==
    IF required # {} THEN "failed" ELSE IF optional # {} THEN "partial" ELSE "completed"

DeriveOutcome(required, optional) ==
    IF required # {} THEN "failed"
    ELSE IF optional # {} THEN "completed_with_errors" ELSE "completed"

FinishOutcome ==
    /\ pc = "finishing"
    /\ \E req \in {{}, {"manifest"}} :
         run' = [run EXCEPT !.outcome = DeriveOutcome(run.required \union req, run.optional)]
    /\ pc' = "ended"
    /\ UNCHANGED <<kind, rows, adding, input, labels>>

\* A checkpoint or a database error: the run ends without an outcome.
Raises ==
    /\ pc \notin {"queued", "ended"}
    /\ pc' = "ended"
    /\ UNCHANGED <<kind, rows, adding, input, labels, run>>

-----------------------------------------------------------------------------
Next ==
    \/ \E c \in Capture : AddCheck(c)
    \/ \E l \in Label \union {NoLabel} : AddCommit(l)
    \/ \E l \in Label : Reanalyze(l)
    \/ StartRun
    \/ \E i \in DOMAIN rows : LinkCapture(i)
    \/ SetupFails
    \/ SelectCaptures
    \/ \E x \in Tools : SkipSensor(x) \/ RunTool(x)
    \/ Enrich
    \/ FinishOutcome
    \/ Raises

Spec == Init /\ [][Next]_vars

-----------------------------------------------------------------------------
(* Properties. *)

Outcome == {"none", "completed", "completed_with_errors", "failed"}

RunType ==
    [phase : Label \union {Whole}, want : SUBSET Capture, todo : SUBSET DOMAIN rows,
     selected : SUBSET DOMAIN input, pos : 1 .. Len(Plan) + 1,
     result : [Tools -> {"none", "completed", "failed", "skipped"}],
     required : SUBSET (Tools \union {"input", "quota", "correlate", "manifest"}),
     optional : SUBSET (Tools \union {"telemetry", "derived"}),
     outcome : Outcome]

\* Every variable keeps its type, and a run its position in the plan: only
\* outcomes the job's status column knows are derived.
TypeOK ==
    /\ kind \in [profile : Profile, hybrid : BOOLEAN]
    /\ rows \in Seq([capture : Capture, label : Label \union {NoLabel}])
    /\ adding \in Capture \union {NoLabel}
    /\ input \in [DOMAIN input -> Capture]
    /\ labels \in [DOMAIN labels -> Label]
    /\ pc \in {"queued", "staging", "tools", "enriching", "finishing", "ended"}
    /\ run \in RunType

\* A run past its staging has put every capture it was asked for under a name
\* nobody else has, with the label its row carries now, whatever was attached,
\* labelled and staged before it (link_pcap_labeled, add_job_pcap).
EveryCaptureStaged ==
    pc \in {"tools", "enriching"} =>
        \A c \in run.want : \E n \in DOMAIN labels \intersect DOMAIN input :
            /\ input[n] = c
            /\ \E i \in DOMAIN rows : rows[i].capture = c /\ labels[n] = LabelOf(i)

\* "completed" hides nothing: every tool of the profile ran and completed, on
\* some capture, and the first run of a job on all it had been given.
CompletedIsComplete ==
    run.outcome = "completed" =>
        /\ \A p \in DOMAIN Plan : run.result[Plan[p]] = "completed"
        /\ run.selected # {}
        /\ run.phase = Whole => run.want \subseteq {input[n] : n \in run.selected}

\* A sensor that must not run without its inputs has not run after a stage it
\* depends on failed, directly or through the sensor in between.
NoSensorOnBrokenStage ==
    \A x \in SkipIfMissing : \A y \in Needs[x] \union UNION {Needs[z] : z \in Needs[x]} :
        HasOutput(x) /\ IsStage(y) => run.result[y] = "completed"

(* What the repository says and the code does not do. *)

\* "this endpoint triggers the pipeline on just those PCAPs" (api/jobs.py).
PhaseAnalysed ==
    pc \in {"tools", "enriching"} /\ run.phase # Whole =>
        {input[n] : n \in run.selected} = run.want
=============================================================================
