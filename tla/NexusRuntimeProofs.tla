------------------------- MODULE NexusRuntimeProofs -------------------------
(***************************************************************************)
(* Proofs about NexusRuntime, for any runners, texts, suffixes and         *)
(* installations and any bounds.  Every step of the runtime is a step of   *)
(* its ledger or leaves it alone, so what ManifestLedgerProofs proves of a *)
(* ledger holds of this one (Proved, the same instance with its theorems). *)
(* What a manifest says is earned because a run carries the reasons for    *)
(* its verdict until it drafts one (RunInv), and the ledger hands bodies   *)
(* on from draft to index and from index to base unchanged (BodiesInv).    *)
(***************************************************************************)
EXTENDS NexusRuntime, TLAPS

Proved == INSTANCE ManifestLedgerProofs WITH
  Writers <- Runners, Readers <- {}, Bodies <- Report,
  MaxCalls <- MaxRuns, MaxFailures <- MaxCrashes

RunRecord ==
  [zones_ok: BOOLEAN, ast: Texts, policy: Verdicts, environment_ok: BOOLEAN,
   pre: Installs, mid: Installs, post: Installs, blocked: BOOLEAN,
   native_completed: BOOLEAN, checked: Texts, voided: BOOLEAN]

(* The variables of the runtime itself.                                    *)
RunsTypeOK ==
  /\ artifact \in Texts
  /\ suffix \in Suffixes
  /\ install \in Installs
  /\ phase \in [Runners -> Phases]
  /\ run \in [Runners -> RunRecord]

Next == [NexusNext]_<<nexusVars, ledgerVars>>

-----------------------------------------------------------------------------
(* There is a report, and with it a ledger of reports.                     *)
LEMMA LedgerOfReports == Proved!LedgerAssumption
<1>1. PICK t \in Texts : TRUE
  BY NexusAssumption
<1>2. [status |-> "REJECTED", source |-> t, checked |-> t, intact |-> TRUE, green |-> FALSE]
        \in Report
  BY <1>1 DEF Report, Verdicts
<1> QED BY <1>2, NexusAssumption DEF Proved!LedgerAssumption

(* The texts and installations a run starts with exist.                    *)
LEMMA NoRunType == NoRun \in RunRecord
<1>1. AnyText \in Texts /\ AnyInstall \in Installs
  BY NexusAssumption DEF AnyText, AnyInstall
<1> QED BY <1>1 DEF NoRun, RunRecord, Verdicts

(* Texts have the attributes the gates look at.                            *)
LEMMA TextAttributes ==
  ASSUME NEW t \in Texts
  PROVE  /\ t.zones_ok \in BOOLEAN /\ t.clean \in BOOLEAN /\ t.declares \in BOOLEAN
         /\ t.scan_ok \in BOOLEAN /\ t.kernel \in Answers
BY NexusAssumption DEF Text

(* A step of a run changes its locals to a record, and no others.          *)
LEMMA StepType ==
  ASSUME RunsTypeOK, NEW p \in Runners, NEW from, NEW to \in Phases, NEW r \in RunRecord,
         Step(p, from, to, r)
  PROVE  RunsTypeOK'
BY DEF RunsTypeOK, Step

(* A draft is made of a decided run, and what it says is a report.         *)
LEMMA ReportType ==
  ASSUME NEW r \in RunRecord
  PROVE  ReportOf(r) \in Report
<1>1. derive_native_verdict(r) \in Verdicts
  BY DEF derive_native_verdict, RunRecord, Verdicts
<1> QED BY <1>1 DEF ReportOf, Report, RunRecord

(* The runtime's variables keep their shape.                               *)
LEMMA RunsTypeStep == RunsTypeOK /\ Next => RunsTypeOK'
<1> SUFFICES ASSUME RunsTypeOK, Next PROVE RunsTypeOK'
  OBVIOUS
<1>1. ASSUME NEW p \in Runners, ReadSource(p) PROVE RunsTypeOK'
  <2>1. [NoRun EXCEPT !.zones_ok = artifact.zones_ok] \in RunRecord
    BY NoRunType, TextAttributes DEF RunsTypeOK, RunRecord
  <2> QED BY <1>1, <2>1, StepType DEF ReadSource, Phases
<1>2. ASSUME NEW p \in Runners, Normalize(p) PROVE RunsTypeOK'
  <2>1. evaluate_source_policy(artifact, run[p].zones_ok) \in Verdicts
    BY DEF evaluate_source_policy, Verdicts
  <2>2. [run[p] EXCEPT !.ast = artifact,
                       !.policy = evaluate_source_policy(artifact, run[p].zones_ok)] \in RunRecord
    BY <2>1 DEF RunsTypeOK, RunRecord
  <2> QED BY <1>2, <2>2, StepType DEF Normalize, Phases
<1>3. ASSUME NEW p \in Runners, NEW ok \in BOOLEAN, CheckEnvironment(p, ok) PROVE RunsTypeOK'
  <2>1. [run[p] EXCEPT !.environment_ok = ok, !.pre = install] \in RunRecord
    BY DEF RunsTypeOK, RunRecord
  <2> QED BY <1>3, <2>1, StepType DEF CheckEnvironment, Phases
<1>4. ASSUME NEW p \in Runners, Abandon(p) PROVE RunsTypeOK'
  BY <1>4, NoRunType, StepType DEF Abandon, Phases
<1>5. ASSUME NEW p \in Runners, SkipBackend(p) \/ NoKernel(p) PROVE RunsTypeOK'
  BY <1>5, StepType DEF SkipBackend, NoKernel, Phases, RunsTypeOK
<1>6. ASSUME NEW p \in Runners, StaticScan(p) PROVE RunsTypeOK'
  <2> DEFINE finds == get_backend(run[p].ast) # "dafny" /\ ~artifact.scan_ok
  <2>1. [run[p] EXCEPT !.blocked = finds] \in RunRecord
    <3> HIDE DEF finds
    <3>1. finds \in BOOLEAN
      BY TextAttributes DEF finds, RunsTypeOK
    <3> QED BY <3>1 DEF RunsTypeOK, RunRecord
  <2> QED BY <1>6, <2>1, StepType DEF StaticScan, Phases
<1>7. ASSUME NEW p \in Runners, NEW answer \in Answers, RunKernel(p, answer) PROVE RunsTypeOK'
  <2> DEFINE backend == get_backend(run[p].ast)
             objects == run[p].blocked \/ NativeViolation(backend, answer)
             completed == NativeEvidence(backend, answer) /\ ~objects
  <2>1. [run[p] EXCEPT !.checked = artifact, !.blocked = objects,
                       !.native_completed = completed] \in RunRecord
    <3> HIDE DEF objects, completed
    <3>1. objects \in BOOLEAN /\ completed \in BOOLEAN
      BY DEF objects, completed
    <3> QED BY <3>1 DEF RunsTypeOK, RunRecord
  <2> QED BY <1>7, <2>1, StepType DEF RunKernel, Phases
<1>8. ASSUME NEW p \in Runners, CaptureMid(p) PROVE RunsTypeOK'
  <2>1. [run[p] EXCEPT !.mid = install, !.voided = install # run[p].pre] \in RunRecord
    BY DEF RunsTypeOK, RunRecord
  <2> QED BY <1>8, <2>1, StepType DEF CaptureMid, Phases
<1>9. ASSUME NEW p \in Runners, CapturePost(p) PROVE RunsTypeOK'
  <2> DEFINE diverged == run[p].voided \/ install # run[p].pre \/ install # run[p].mid
  <2>1. [run[p] EXCEPT !.post = install, !.voided = diverged] \in RunRecord
    <3> HIDE DEF diverged
    <3>1. diverged \in BOOLEAN
      BY DEF diverged
    <3> QED BY <3>1 DEF RunsTypeOK, RunRecord
  <2> QED BY <1>9, <2>1, StepType DEF CapturePost, Phases
<1>10. ASSUME NEW p \in Runners,
              BeginAppend(p) \/ EndAppend(p) \/ AppendRaises(p) \/ CrashInAppend(p)
       PROVE  RunsTypeOK'
  BY <1>10, NoRunType, StepType DEF BeginAppend, EndAppend, AppendRaises, CrashInAppend, Phases
<1>11. ASSUME NEW p \in Runners, AppendStep(p) PROVE RunsTypeOK'
  BY <1>11 DEF AppendStep, nexusVars, RunsTypeOK
<1>12. CASE EditArtifact \/ UpdateInstall
  BY <1>12 DEF EditArtifact, UpdateInstall, RunsTypeOK
<1>13. CASE UNCHANGED <<nexusVars, ledgerVars>>
  BY <1>13 DEF nexusVars, RunsTypeOK
<1> QED BY <1>1, <1>2, <1>3, <1>4, <1>5, <1>6, <1>7, <1>8, <1>9, <1>10, <1>11, <1>12, <1>13
        DEF Next, NexusNext, RunStep

-----------------------------------------------------------------------------
(* The two instances of the ledger are one.                                *)
LEMMA SameStart == Ledger!LedgerInit => Proved!LedgerInit
BY DEF Ledger!LedgerInit, Proved!LedgerInit, Ledger!NoIndex, Proved!NoIndex,
       Ledger!NoEntries, Proved!NoEntries, Ledger!Size, Proved!Size,
       Ledger!NoDraft, Proved!NoDraft, Ledger!NewManifest, Proved!NewManifest,
       Ledger!Idle, Proved!Idle, Ledger!Genesis, Proved!Genesis,
       Ledger!LastHash, Proved!LastHash, Ledger!hash_canonical, Proved!hash_canonical

(* So are their steps, one by one.                                         *)
LEMMA SameSteps ==
  ASSUME NEW p \in Runners
  PROVE  /\ \A body : Ledger!ReadIndex(p, body) => Proved!ReadIndex(p, body)
         /\ Ledger!ReadIndexRaises(p) => Proved!ReadIndexRaises(p)
         /\ Ledger!RefuseOverwrite(p) => Proved!RefuseOverwrite(p)
         /\ Ledger!OpenJson(p) => Proved!OpenJson(p)
         /\ Ledger!WriteJson(p) => Proved!WriteJson(p)
         /\ Ledger!OpenMarkdown(p) => Proved!OpenMarkdown(p)
         /\ Ledger!WriteMarkdown(p) => Proved!WriteMarkdown(p)
         /\ Ledger!OpenIndex(p) => Proved!OpenIndex(p)
         /\ Ledger!WriteIndex(p) => Proved!WriteIndex(p)
         /\ Ledger!Fail(p) => Proved!Fail(p)
<1> USE DEF Ledger!Transition, Proved!Transition, Ledger!Leave, Proved!Leave,
            Ledger!NoEntries, Proved!NoEntries, Ledger!NoDraft, Proved!NoDraft,
            Ledger!NewManifest, Proved!NewManifest, Ledger!LastHash, Proved!LastHash,
            Ledger!Genesis, Proved!Genesis, Ledger!hash_canonical, Proved!hash_canonical,
            Ledger!Json, Proved!Json, Ledger!Markdown, Proved!Markdown
<1>1. /\ \A body : Ledger!ReadIndex(p, body) => Proved!ReadIndex(p, body)
      /\ Ledger!ReadIndexRaises(p) => Proved!ReadIndexRaises(p)
  BY DEF Ledger!ReadIndex, Proved!ReadIndex, Ledger!ReadIndexRaises, Proved!ReadIndexRaises,
         Ledger!Readable, Proved!Readable, Ledger!Size, Proved!Size
<1>2. /\ Ledger!RefuseOverwrite(p) => Proved!RefuseOverwrite(p)
      /\ Ledger!OpenJson(p) => Proved!OpenJson(p)
  BY DEF Ledger!RefuseOverwrite, Proved!RefuseOverwrite, Ledger!OpenJson, Proved!OpenJson,
         Ledger!NamesAreFree, Proved!NamesAreFree, Ledger!Pair, Proved!Pair
<1>3. /\ Ledger!WriteJson(p) => Proved!WriteJson(p)
      /\ Ledger!OpenMarkdown(p) => Proved!OpenMarkdown(p)
      /\ Ledger!WriteMarkdown(p) => Proved!WriteMarkdown(p)
  BY DEF Ledger!WriteJson, Proved!WriteJson, Ledger!OpenMarkdown, Proved!OpenMarkdown,
         Ledger!WriteMarkdown, Proved!WriteMarkdown
<1>4. /\ Ledger!OpenIndex(p) => Proved!OpenIndex(p)
      /\ Ledger!WriteIndex(p) => Proved!WriteIndex(p)
      /\ Ledger!Fail(p) => Proved!Fail(p)
  BY DEF Ledger!OpenIndex, Proved!OpenIndex, Ledger!WriteIndex, Proved!WriteIndex,
         Ledger!Written, Proved!Written, Ledger!NewEntries, Proved!NewEntries,
         Ledger!Size, Proved!Size, Ledger!Fail, Proved!Fail
<1> QED BY <1>1, <1>2, <1>3, <1>4

(* A step of the runtime is one of its ledger or leaves it as it is.       *)
LEMMA LedgerSteps ==
  RunsTypeOK /\ Next => [Proved!LedgerNext]_ledgerVars
<1> SUFFICES ASSUME RunsTypeOK, Next, ~UNCHANGED ledgerVars PROVE Proved!LedgerNext
  OBVIOUS
<1>1. PICK p \in Runners :
         BeginAppend(p) \/ AppendStep(p) \/ EndAppend(p) \/ AppendRaises(p) \/ CrashInAppend(p)
  BY DEF Next, NexusNext, RunStep, ReadSource, Normalize, CheckEnvironment, Abandon,
         SkipBackend, StaticScan, RunKernel, NoKernel, CaptureMid, CapturePost,
         EditArtifact, UpdateInstall
<1>2. ReportOf(run[p]) \in Report
  BY ReportType DEF RunsTypeOK
<1>3. Proved!WriterStep(p) \/ Proved!Fail(p)
  BY <1>1, <1>2, SameSteps
     DEF BeginAppend, AppendStep, EndAppend, AppendRaises, CrashInAppend, Proved!WriterStep
<1> QED BY <1>3 DEF Proved!LedgerNext

(* The runtime starts in its type.                                         *)
LEMMA RunsStart == NexusInit => RunsTypeOK
BY NoRunType DEF NexusInit, RunsTypeOK, Phases

(* The runtime drives its ledger as ManifestLedger says a ledger is used.  *)
THEOREM RuntimeDrivesTheLedger == NexusSpec => Proved!LedgerSpec
<1>1. NexusInit => RunsTypeOK /\ Proved!LedgerInit
  BY RunsStart, SameStart DEF NexusInit
<1>2. RunsTypeOK /\ [NexusNext]_<<nexusVars, ledgerVars>> => RunsTypeOK'
  BY RunsTypeStep DEF Next
<1>3. RunsTypeOK /\ [NexusNext]_<<nexusVars, ledgerVars>> => [Proved!LedgerNext]_Proved!ledgerVars
  BY LedgerSteps DEF Next, ledgerVars, Proved!ledgerVars
<1> QED BY <1>1, <1>2, <1>3, PTL DEF NexusSpec, Proved!LedgerSpec

(* What is proved of the types of one is so of the other's.                *)
LEMMA SameTypes == Proved!LedgerTypeOK => Ledger!LedgerTypeOK
BY DEF Proved!LedgerTypeOK, Ledger!LedgerTypeOK, Proved!Manifest, Ledger!Manifest,
       Proved!Digest, Ledger!Digest, Proved!FileNames, Ledger!FileNames,
       Proved!Steps, Ledger!Steps, Proved!VerifyErrors, Ledger!VerifyErrors

(* Every variable of the runtime, and of its ledger, keeps its shape.      *)
THEOREM NexusTypeCorrect == NexusSpec => []NexusTypeOK
<1>1. NexusSpec => []RunsTypeOK
  <2>1. RunsTypeOK /\ [NexusNext]_<<nexusVars, ledgerVars>> => RunsTypeOK'
    BY RunsTypeStep DEF Next
  <2> QED BY <2>1, RunsStart, PTL DEF NexusSpec
<1>2. NexusSpec => []Proved!LedgerTypeOK
  <2>1. Proved!LedgerSpec => []Proved!LedgerTypeOK
    BY LedgerOfReports, Proved!LedgerTypeCorrect DEF Proved!LedgerTypeCorrect
  <2> QED BY <2>1, RuntimeDrivesTheLedger, PTL
<1>3. RunsTypeOK /\ Proved!LedgerTypeOK => NexusTypeOK
  BY SameTypes DEF RunsTypeOK, RunRecord, NexusTypeOK
<1> QED BY <1>1, <1>2, <1>3, PTL

-----------------------------------------------------------------------------
(* What a run carries: the policy's verdict on the texts it names, a tool  *)
(* that accepted what it completed, and any divergence of the samples it   *)
(* has taken.                                                              *)
Accepted == {"accepts", "accepts_some"}
Unjudged == {"start", "read", "appending"}

Shown(s, r) == r.native_completed /\ s # "isabelle" => r.checked.kernel \in Accepted

Noticed(at, r) ==
  /\ at \in {"midway", "decided"} /\ r.pre # r.mid => r.voided
  /\ at = "decided" /\ r.mid # r.post => r.voided

RunInv(p) ==
  /\ phase[p] \notin Unjudged =>
       run[p].policy = evaluate_source_policy(run[p].ast, run[p].zones_ok)
  /\ Shown(suffix, run[p])
  /\ Noticed(phase[p], run[p])

(* What a manifest that says FORMALLY_VERIFIED has to show for it, about   *)
(* an artifact whose path ends in s.                                       *)
FormalIn(s, text) ==
  (IF s \in FormalBackends THEN s
   ELSE IF s = "prose" THEN "informal" ELSE text.reads_as) \in FormalBackends

Earned(s, r) ==
  r.status = "FORMALLY_VERIFIED" =>
    /\ r.green /\ r.intact
    /\ FormalIn(s, r.source) /\ r.source.clean /\ r.source.declares
    /\ s # "isabelle" => r.checked.kernel \in Accepted

BodiesInv ==
  /\ \A m \in receipts : Earned(suffix, m.body)
  /\ \A i \in 1..Len(index.entries) : Earned(suffix, index.entries[i].body)
  /\ \A p \in Runners : \A i \in 1..Len(base[p]) : Earned(suffix, base[p][i].body)
  /\ \A p \in Runners : pc[p] # "idle" => Earned(suffix, draft[p].body)

(* A tool that leaves evidence and no objection accepted at least a part.  *)
LEMMA EvidenceIsAcceptance ==
  ASSUME NEW backend, NEW answer \in Answers,
         NativeEvidence(backend, answer), ~NativeViolation(backend, answer)
  PROVE  answer \in Accepted
BY DEF NativeEvidence, NativeViolation, LeanObjects, DafnyObjects, ExitStatusObjects,
       Answers, Accepted

(* The path of the artifact does not change.                               *)
LEMMA SuffixStays == Next => suffix' = suffix
BY DEF Next, NexusNext, RunStep, ReadSource, Normalize, CheckEnvironment, Abandon,
       SkipBackend, StaticScan, RunKernel, NoKernel, CaptureMid, CapturePost, Step,
       BeginAppend, AppendStep, EndAppend, AppendRaises, CrashInAppend, nexusVars,
       EditArtifact, UpdateInstall

(* A step that takes one runner on keeps what the others know.             *)
LEMMA StepInv ==
  ASSUME RunsTypeOK, \A q \in Runners : RunInv(q),
         NEW p \in Runners, NEW from, NEW to \in Phases, NEW r \in RunRecord,
         Step(p, from, to, r),
         to \notin Unjudged => r.policy = evaluate_source_policy(r.ast, r.zones_ok),
         Shown(suffix, r), Noticed(to, r)
  PROVE  \A q \in Runners : RunInv(q)'
<1>1. TAKE q \in Runners
<1>2. suffix' = suffix
  BY DEF Step
<1>3. CASE q = p
  <2>1. phase'[q] = to /\ run'[q] = r
    BY <1>3 DEF Step, RunsTypeOK
  <2> QED BY <2>1, <1>2 DEF RunInv, evaluate_source_policy, is_formal_source, detect_language
<1>4. CASE q # p
  <2>1. phase'[q] = phase[q] /\ run'[q] = run[q]
    BY <1>4 DEF Step, RunsTypeOK
  <2> QED BY <2>1, <1>2 DEF RunInv, evaluate_source_policy, is_formal_source, detect_language
<1> QED BY <1>3, <1>4

(* Nothing but a run's own steps changes what it carries.                  *)
LEMMA RunInvKept ==
  ASSUME \A q \in Runners : RunInv(q), UNCHANGED <<phase, run, suffix>>
  PROVE  \A q \in Runners : RunInv(q)'
BY DEF RunInv, evaluate_source_policy, is_formal_source, detect_language

(* Every step of the runtime keeps what its runs carry.                    *)
LEMMA RunInvStep ==
  RunsTypeOK /\ (\A p \in Runners : RunInv(p)) /\ Next => \A p \in Runners : RunInv(p)'
<1> SUFFICES ASSUME RunsTypeOK, \A p \in Runners : RunInv(p), Next
             PROVE  \A p \in Runners : RunInv(p)'
  OBVIOUS
<1> DEFINE Kept == \A q \in Runners : RunInv(q)'
<1> USE DEF Unjudged
<1>0. \A p \in Runners : run[p] \in RunRecord /\ RunInv(p)
  BY DEF RunsTypeOK
<1>1. ASSUME NEW p \in Runners, ReadSource(p) PROVE Kept
  <2> DEFINE r == [NoRun EXCEPT !.zones_ok = artifact.zones_ok]
  <2>1. r \in RunRecord /\ r.native_completed = FALSE
    BY NoRunType, TextAttributes DEF RunsTypeOK, RunRecord, NoRun
  <2>2. Step(p, "start", "read", r)
    BY <1>1 DEF ReadSource
  <2> HIDE DEF r
  <2> QED BY <2>1, <2>2, StepInv DEF Phases, Shown, Noticed
<1>2. ASSUME NEW p \in Runners, Normalize(p) PROVE Kept
  <2> DEFINE verdict == evaluate_source_policy(artifact, run[p].zones_ok)
             r == [run[p] EXCEPT !.ast = artifact, !.policy = verdict]
  <2>1. Step(p, "read", "normalized", r)
    BY <1>2 DEF Normalize
  <2>2. verdict \in Verdicts
    BY DEF evaluate_source_policy, Verdicts
  <2>3. /\ r \in RunRecord
        /\ r.policy = verdict /\ r.ast = artifact /\ r.zones_ok = run[p].zones_ok
        /\ r.native_completed = run[p].native_completed /\ r.checked = run[p].checked
    <3> HIDE DEF verdict
    <3> QED BY <1>0, <2>2 DEF RunsTypeOK, RunRecord
  <2>4. Shown(suffix, r)
    BY <1>0, <2>3 DEF RunInv, Shown
  <2>5. r.policy = evaluate_source_policy(r.ast, r.zones_ok)
    BY <2>3
  <2> HIDE DEF r, verdict
  <2> QED BY <2>1, <2>3, <2>4, <2>5, StepInv DEF Phases, Shown, Noticed
<1>3. ASSUME NEW p \in Runners, NEW ok \in BOOLEAN, CheckEnvironment(p, ok) PROVE Kept
  <2> DEFINE r == [run[p] EXCEPT !.environment_ok = ok, !.pre = install]
  <2>1. Step(p, "normalized", "fingerprinted", r)
    BY <1>3 DEF CheckEnvironment
  <2>2. /\ r \in RunRecord
        /\ r.policy = run[p].policy /\ r.ast = run[p].ast /\ r.zones_ok = run[p].zones_ok
        /\ r.native_completed = run[p].native_completed /\ r.checked = run[p].checked
    BY <1>0 DEF RunsTypeOK, RunRecord
  <2>3. phase[p] = "normalized"
    BY <2>1 DEF Step
  <2> HIDE DEF r
  <2>4. r.policy = evaluate_source_policy(r.ast, r.zones_ok)
    BY <1>0, <2>2, <2>3 DEF RunInv
  <2>5. Shown(suffix, r)
    BY <1>0, <2>2 DEF RunInv, Shown
  <2> QED BY <2>1, <2>2, <2>4, <2>5, StepInv DEF Phases, Shown, Noticed
<1>4. ASSUME NEW p \in Runners,
             Abandon(p) \/ EndAppend(p) \/ AppendRaises(p) \/ CrashInAppend(p) \/ BeginAppend(p)
      PROVE  Kept
  <2>1. NoRun.native_completed = FALSE
    BY DEF NoRun
  <2>2. PICK to \in {"start", "appending"} : Step(p, phase[p], to, NoRun)
    BY <1>4 DEF Abandon, EndAppend, AppendRaises, CrashInAppend, BeginAppend, Step
  <2> QED BY <2>1, <2>2, NoRunType, StepInv DEF Phases, Shown, Noticed
<1>5. ASSUME NEW p \in Runners, SkipBackend(p) \/ NoKernel(p) PROVE Kept
  <2>1. Step(p, phase[p], "audited", run[p]) /\ phase[p] \in {"fingerprinted", "scanned"}
    BY <1>5 DEF SkipBackend, NoKernel, Step
  <2>2. /\ run[p].policy = evaluate_source_policy(run[p].ast, run[p].zones_ok)
        /\ Shown(suffix, run[p])
    BY <1>0, <2>1 DEF RunInv
  <2> QED BY <1>0, <2>1, <2>2, StepInv DEF Phases, Shown, Noticed
<1>6. ASSUME NEW p \in Runners, StaticScan(p) PROVE Kept
  <2> DEFINE finds == get_backend(run[p].ast) # "dafny" /\ ~artifact.scan_ok
             r == [run[p] EXCEPT !.blocked = finds]
  <2>1. Step(p, "fingerprinted", "scanned", r)
    BY <1>6 DEF StaticScan
  <2>2. finds \in BOOLEAN
    BY TextAttributes DEF RunsTypeOK
  <2>3. /\ r \in RunRecord
        /\ r.policy = run[p].policy /\ r.ast = run[p].ast /\ r.zones_ok = run[p].zones_ok
        /\ r.native_completed = run[p].native_completed /\ r.checked = run[p].checked
    <3> HIDE DEF finds
    <3> QED BY <1>0, <2>2 DEF RunsTypeOK, RunRecord
  <2>4. phase[p] = "fingerprinted"
    BY <2>1 DEF Step
  <2> HIDE DEF r, finds
  <2>5. r.policy = evaluate_source_policy(r.ast, r.zones_ok)
    BY <1>0, <2>3, <2>4 DEF RunInv
  <2>6. Shown(suffix, r)
    BY <1>0, <2>3 DEF RunInv, Shown
  <2> QED BY <2>1, <2>3, <2>5, <2>6, StepInv DEF Phases, Shown, Noticed
<1>7. ASSUME NEW p \in Runners, NEW answer \in Answers, RunKernel(p, answer) PROVE Kept
  <2> DEFINE backend == get_backend(run[p].ast)
             objects == run[p].blocked \/ NativeViolation(backend, answer)
             completed == NativeEvidence(backend, answer) /\ ~objects
             r == [run[p] EXCEPT !.checked = artifact, !.blocked = objects,
                                 !.native_completed = completed]
  <2>1. Step(p, "scanned", "audited", r)
    BY <1>7 DEF RunKernel
  <2>2. completed /\ suffix # "isabelle" => artifact.kernel \in Accepted
    <3>1. suffix # "isabelle" => backend # "isabelle"
      BY DEF get_backend, FormalBackends
    <3>2. answer \in AnswersTo(backend, artifact.kernel)
      BY <1>7 DEF RunKernel
    <3>3. suffix # "isabelle" => answer = artifact.kernel
      BY <3>1, <3>2 DEF AnswersTo
    <3> QED BY <3>3, EvidenceIsAcceptance
  <2>3. objects \in BOOLEAN /\ completed \in BOOLEAN
    OBVIOUS
  <2>4. /\ r \in RunRecord
        /\ r.policy = run[p].policy /\ r.ast = run[p].ast /\ r.zones_ok = run[p].zones_ok
        /\ r.native_completed = completed /\ r.checked = artifact
    <3> HIDE DEF completed, objects
    <3> QED BY <1>0, <2>3 DEF RunsTypeOK, RunRecord
  <2>5. phase[p] = "scanned"
    BY <2>1 DEF Step
  <2> HIDE DEF r, completed, objects
  <2>6. r.policy = evaluate_source_policy(r.ast, r.zones_ok)
    BY <1>0, <2>4, <2>5 DEF RunInv
  <2> QED BY <2>1, <2>2, <2>4, <2>6, StepInv DEF Phases, Shown, Noticed
<1>8. ASSUME NEW p \in Runners, CaptureMid(p) PROVE Kept
  <2> DEFINE r == [run[p] EXCEPT !.mid = install, !.voided = install # run[p].pre]
  <2>1. Step(p, "audited", "midway", r)
    BY <1>8 DEF CaptureMid
  <2>2. /\ r \in RunRecord
        /\ r.policy = run[p].policy /\ r.ast = run[p].ast /\ r.zones_ok = run[p].zones_ok
        /\ r.native_completed = run[p].native_completed /\ r.checked = run[p].checked
        /\ Noticed("midway", r)
    BY <1>0 DEF Noticed, RunsTypeOK, RunRecord
  <2>3. phase[p] = "audited"
    BY <2>1 DEF Step
  <2> HIDE DEF r
  <2>4. r.policy = evaluate_source_policy(r.ast, r.zones_ok)
    BY <1>0, <2>2, <2>3 DEF RunInv
  <2>5. Shown(suffix, r)
    BY <1>0, <2>2 DEF RunInv, Shown
  <2> QED BY <2>1, <2>2, <2>4, <2>5, StepInv DEF Phases, Shown, Noticed
<1>9. ASSUME NEW p \in Runners, CapturePost(p) PROVE Kept
  <2> DEFINE diverged == run[p].voided \/ install # run[p].pre \/ install # run[p].mid
             r == [run[p] EXCEPT !.post = install, !.voided = diverged]
  <2>1. Step(p, "midway", "decided", r)
    BY <1>9 DEF CapturePost
  <2>2. phase[p] = "midway"
    BY <2>1 DEF Step
  <2>3. /\ diverged \in BOOLEAN
        /\ run[p].pre # run[p].mid \/ run[p].mid # install => diverged
    BY <1>0, <2>2 DEF RunInv, Noticed
  <2>4. /\ r \in RunRecord
        /\ r.policy = run[p].policy /\ r.ast = run[p].ast /\ r.zones_ok = run[p].zones_ok
        /\ r.native_completed = run[p].native_completed /\ r.checked = run[p].checked
        /\ Noticed("decided", r)
    <3> HIDE DEF diverged
    <3> QED BY <1>0, <2>3 DEF RunsTypeOK, RunRecord, Noticed
  <2> HIDE DEF r, diverged
  <2>5. r.policy = evaluate_source_policy(r.ast, r.zones_ok)
    BY <1>0, <2>2, <2>4 DEF RunInv
  <2>6. Shown(suffix, r)
    BY <1>0, <2>4 DEF RunInv, Shown
  <2> QED BY <2>1, <2>4, <2>5, <2>6, StepInv DEF Phases, Shown, Noticed
<1>10. ASSUME NEW p \in Runners, AppendStep(p) PROVE Kept
  BY <1>10, RunInvKept DEF AppendStep, nexusVars
<1>11. CASE EditArtifact \/ UpdateInstall \/ UNCHANGED <<nexusVars, ledgerVars>>
  BY <1>11, RunInvKept DEF EditArtifact, UpdateInstall, nexusVars
<1> QED BY <1>1, <1>2, <1>3, <1>4, <1>5, <1>6, <1>7, <1>8, <1>9, <1>10, <1>11
        DEF Next, NexusNext, RunStep

-----------------------------------------------------------------------------
(* The report of a decided run is earned.                                  *)
LEMMA ReportIsEarned ==
  ASSUME RunsTypeOK, NEW p \in Runners, RunInv(p), phase[p] = "decided"
  PROVE  Earned(suffix, ReportOf(run[p]))
<1> SUFFICES ASSUME derive_native_verdict(run[p]) = "FORMALLY_VERIFIED"
             PROVE  Earned(suffix, ReportOf(run[p]))
  BY DEF Earned, ReportOf
<1>1. run[p] \in RunRecord
  BY DEF RunsTypeOK
<1>2. /\ run[p].voided = FALSE /\ run[p].native_completed
      /\ run[p].policy \notin {"REJECTED", "UNTRANSLATED"}
  <2>1. \/ run[p].policy = "FORMALLY_VERIFIED" /\ run[p].voided = FALSE
        \/ run[p].voided = FALSE /\ run[p].native_completed
           /\ run[p].policy \notin {"REJECTED", "UNTRANSLATED"}
    BY <1>1 DEF derive_native_verdict, RunRecord
  <2> QED BY <2>1, <1>1 DEF derive_native_verdict, RunRecord
<1>3. run[p].policy = evaluate_source_policy(run[p].ast, run[p].zones_ok)
  BY DEF RunInv, Unjudged
<1>4. /\ run[p].ast.clean /\ run[p].ast.declares /\ is_formal_source(run[p].ast)
  BY <1>2, <1>3 DEF evaluate_source_policy
<1>5. suffix # "isabelle" => run[p].checked.kernel \in Accepted
  BY <1>2 DEF RunInv, Shown
<1> QED BY <1>1, <1>2, <1>4, <1>5
        DEF Earned, ReportOf, FormalIn, is_formal_source, detect_language

(* The ledger hands bodies on as they are.                                 *)
LEMMA BodiesStep ==
  /\ RunsTypeOK /\ Ledger!LedgerTypeOK
  /\ \A p \in Runners : RunInv(p)
  /\ BodiesInv /\ Next
  => BodiesInv'
<1> SUFFICES ASSUME RunsTypeOK, Ledger!LedgerTypeOK, \A p \in Runners : RunInv(p),
                    BodiesInv, Next
             PROVE  BodiesInv'
  OBVIOUS
<1>0. /\ suffix' = suffix
      /\ \A p \in Runners : /\ base[p] \in Seq(Ledger!Manifest) /\ draft[p] \in Ledger!Manifest
      /\ index.entries \in Seq(Ledger!Manifest)
      /\ pc \in [Runners -> Ledger!Steps] /\ DOMAIN base = Runners /\ DOMAIN draft = Runners
  BY SuffixStays DEF Ledger!LedgerTypeOK
<1>1. CASE UNCHANGED ledgerVars
  BY <1>0, <1>1 DEF ledgerVars, BodiesInv
<1>2. ASSUME NEW p \in Runners, BeginAppend(p) PROVE BodiesInv'
  <2>1. phase[p] = "decided"
    BY <1>2 DEF BeginAppend, Step
  <2>2. Earned(suffix, ReportOf(run[p]))
    BY <2>1, ReportIsEarned
  <2>3. /\ index' = index /\ receipts' = receipts
        /\ pc' = [pc EXCEPT ![p] = "drafted"]
        /\ base' = [base EXCEPT ![p] = index.entries]
        /\ draft' = [draft EXCEPT ![p] = Ledger!NewManifest(index.entries, p, ReportOf(run[p]))]
    BY <1>2 DEF BeginAppend, Ledger!ReadIndex, Ledger!Transition
  <2>4. Ledger!NewManifest(index.entries, p, ReportOf(run[p])).body = ReportOf(run[p])
    BY DEF Ledger!NewManifest
  <2>5. \A q \in Runners : base'[q] \in {base[q], index.entries}
    BY <2>3, <1>0
  <2>6. ASSUME NEW q \in Runners, pc'[q] # "idle" PROVE Earned(suffix, draft'[q].body)
    <3>1. CASE q = p
      BY <3>1, <2>2, <2>3, <2>4, <1>0
    <3>2. CASE q # p
      BY <3>2, <2>3, <2>6, <1>0 DEF BodiesInv
    <3> QED BY <3>1, <3>2
  <2>7. \A q \in Runners : \A i \in 1..Len(base'[q]) : Earned(suffix, base'[q][i].body)
    BY <2>5 DEF BodiesInv
  <2> QED BY <2>3, <2>6, <2>7, <1>0 DEF BodiesInv
<1>3. ASSUME NEW p \in Runners, AppendStep(p) PROVE BodiesInv'
  <2>1. /\ base' = base /\ draft' = draft /\ receipts' = receipts
        /\ pc[p] # "idle" /\ \E to : pc' = [pc EXCEPT ![p] = to]
        /\ index'.entries \in {index.entries, <<>>}
    BY <1>3 DEF AppendStep, Ledger!OpenJson, Ledger!WriteJson, Ledger!OpenMarkdown,
                Ledger!WriteMarkdown, Ledger!OpenIndex, Ledger!Transition, Ledger!NoEntries
  <2>2. \A q \in Runners : pc'[q] # "idle" => pc[q] # "idle"
    BY <2>1, <1>0
  <2>3. \A i \in 1..Len(index'.entries) : Earned(suffix, index'.entries[i].body)
    BY <2>1 DEF BodiesInv
  <2> QED BY <2>1, <2>2, <2>3, <1>0 DEF BodiesInv
<1>4. ASSUME NEW p \in Runners, EndAppend(p) \/ CrashInAppend(p) PROVE BodiesInv'
  <2>1. /\ pc[p] # "idle" /\ Ledger!Leave(p)
        /\ \/ UNCHANGED <<index, receipts>>
           \/ index'.entries = Append(base[p], draft[p]) /\ receipts' = receipts \cup {draft[p]}
    BY <1>4 DEF EndAppend, CrashInAppend, Ledger!WriteIndex, Ledger!RefuseOverwrite, Ledger!Fail,
                Ledger!Written, Ledger!NewEntries
  <2>2. \A q \in Runners :
          /\ pc'[q] # "idle" => pc[q] # "idle" /\ draft'[q] = draft[q]
          /\ base'[q] \in {base[q], <<>>}
    BY <2>1, <1>0 DEF Ledger!Leave, Ledger!NoEntries
  <2>3. Earned(suffix, draft[p].body)
    BY <2>1 DEF BodiesInv
  <2>4. \A i \in 1..Len(index'.entries) : Earned(suffix, index'.entries[i].body)
    <3>1. CASE UNCHANGED <<index, receipts>>
      BY <3>1 DEF BodiesInv
    <3>2. CASE index'.entries = Append(base[p], draft[p])
      <4>1. TAKE i \in 1..Len(index'.entries)
      <4>2. \/ i \in 1..Len(base[p]) /\ index'.entries[i] = base[p][i]
            \/ index'.entries[i] = draft[p]
        BY <3>2, <1>0
      <4> QED BY <4>2, <2>3 DEF BodiesInv
    <3> QED BY <2>1, <3>1, <3>2
  <2>5. \A m \in receipts' : Earned(suffix, m.body)
    BY <2>1, <2>3 DEF BodiesInv
  <2>6. \A q \in Runners : \A i \in 1..Len(base'[q]) : Earned(suffix, base'[q][i].body)
    BY <2>2 DEF BodiesInv
  <2> QED BY <2>2, <2>4, <2>5, <2>6, <1>0 DEF BodiesInv
<1>5. ASSUME NEW p \in Runners, AppendRaises(p) PROVE BodiesInv'
  BY <1>0, <1>5 DEF AppendRaises, Ledger!ReadIndexRaises, BodiesInv
<1> QED BY <1>1, <1>2, <1>3, <1>4, <1>5
        DEF Next, NexusNext, RunStep, ReadSource, Normalize, CheckEnvironment, Abandon,
            SkipBackend, StaticScan, RunKernel, NoKernel, CaptureMid, CapturePost,
            EditArtifact, UpdateInstall

(* The conjunction that is inductive: the shape of the runtime and of its  *)
(* ledger, what the runs carry and what the bodies have to show.           *)
NexusInv ==
  /\ NexusTypeOK
  /\ \A p \in Runners : RunInv(p)
  /\ BodiesInv

(* The type the runs check gives the two the lemmas are stated with.       *)
LEMMA TypesOfParts == NexusTypeOK => RunsTypeOK /\ Ledger!LedgerTypeOK
BY DEF NexusTypeOK, RunsTypeOK, RunRecord

(* Nothing is recorded, drafted or under way at the start.                 *)
LEMMA NexusStart == NexusInit => (\A p \in Runners : RunInv(p)) /\ BodiesInv
<1> SUFFICES ASSUME NexusInit PROVE (\A p \in Runners : RunInv(p)) /\ BodiesInv
  OBVIOUS
<1>1. ASSUME NEW p \in Runners PROVE RunInv(p)
  BY <1>1 DEF NexusInit, RunInv, Shown, Noticed, Unjudged, NoRun
<1>2. BodiesInv
  <2>1. /\ receipts = {} /\ index.entries = <<>>
        /\ \A p \in Runners : base[p] = <<>> /\ pc[p] = "idle"
    BY DEF NexusInit, Ledger!LedgerInit, Ledger!NoIndex, Ledger!NoEntries
  <2> QED BY <2>1 DEF BodiesInv
<1> QED BY <1>1, <1>2

(* The conjunction holds in every state of every behaviour.                *)
THEOREM NexusInvariant == NexusSpec => []NexusInv
<1>1. NexusInit => (\A p \in Runners : RunInv(p)) /\ BodiesInv
  BY NexusStart
<1>2. NexusTypeOK /\ ((\A p \in Runners : RunInv(p)) /\ BodiesInv)
      /\ [NexusNext]_<<nexusVars, ledgerVars>>
        => ((\A p \in Runners : RunInv(p)) /\ BodiesInv)'
  <2> SUFFICES ASSUME NexusTypeOK, \A p \in Runners : RunInv(p), BodiesInv, Next
               PROVE  (\A p \in Runners : RunInv(p)') /\ BodiesInv'
    BY DEF Next
  <2> QED BY TypesOfParts, RunInvStep, BodiesStep
<1>3. NexusTypeOK /\ ((\A p \in Runners : RunInv(p)) /\ BodiesInv) => NexusInv
  BY DEF NexusInv
<1> QED BY <1>1, <1>2, <1>3, NexusTypeCorrect, PTL DEF NexusSpec

(* Green is earned: what callers are given and what the index lists says   *)
(* FORMALLY_VERIFIED only of a text with the reasons for it, whatever is   *)
(* edited or updated while any number of runs is under way.                *)
THEOREM VerifiedAlwaysEarned == NexusSpec => []VerifiedIsEarned
<1>1. NexusInv => VerifiedIsEarned
  <2> SUFFICES ASSUME NexusInv, NEW r \in Recorded, r.status = "FORMALLY_VERIFIED"
               PROVE  /\ r.green /\ r.intact
                      /\ is_formal_source(r.source) /\ r.source.clean /\ r.source.declares
                      /\ suffix # "isabelle" => r.checked.kernel \in {"accepts", "accepts_some"}
    BY DEF VerifiedIsEarned
  <2>1. Earned(suffix, r)
    BY DEF NexusInv, BodiesInv, Recorded
  <2> QED BY <2>1 DEF Earned, FormalIn, is_formal_source, detect_language, Accepted
<1> QED BY <1>1, NexusInvariant, PTL

(* A run any two of whose samples differ drafts a CORRUPTED manifest.      *)
THEOREM DivergenceAlwaysRecorded == NexusSpec => DivergenceIsRecorded
<1> DEFINE Recording ==
      \A p \in Runners :
        phase[p] = "decided" /\ phase'[p] = "appending" /\ Diverged(run[p])
          => draft'[p].body.status = "CORRUPTED"
<1>1. NexusInv /\ [NexusNext]_<<nexusVars, ledgerVars>>
        => [Recording]_<<nexusVars, ledgerVars>>
  <2> SUFFICES ASSUME NexusInv, NexusNext, NEW p \in Runners, phase[p] = "decided",
                      phase'[p] = "appending", Diverged(run[p])
               PROVE  draft'[p].body.status = "CORRUPTED"
    OBVIOUS
  <2>0. RunsTypeOK /\ Ledger!LedgerTypeOK /\ RunInv(p)
    BY TypesOfParts DEF NexusInv
  <2>1. BeginAppend(p)
    <3>1. phase'[p] # phase[p]
      OBVIOUS
    <3>2. PICK q \in Runners : RunStep(q) \/ Abandon(q) \/ CrashInAppend(q)
      BY <3>1 DEF NexusNext, EditArtifact, UpdateInstall
    <3>3. q = p
      BY <3>1, <3>2, <2>0
         DEF RunStep, ReadSource, Normalize, CheckEnvironment, Abandon, SkipBackend,
             StaticScan, RunKernel, NoKernel, CaptureMid, CapturePost, Step, BeginAppend,
             AppendStep, EndAppend, AppendRaises, CrashInAppend, nexusVars, RunsTypeOK
    <3> QED BY <3>2, <3>3, <2>0
         DEF RunStep, ReadSource, Normalize, CheckEnvironment, Abandon, SkipBackend,
             StaticScan, RunKernel, NoKernel, CaptureMid, CapturePost, Step,
             AppendStep, EndAppend, AppendRaises, CrashInAppend, nexusVars, RunsTypeOK
  <2>2. run[p].voided
    BY <2>0 DEF RunInv, Noticed, Diverged
  <2>3. ReportOf(run[p]).status = "CORRUPTED"
    BY <2>2 DEF ReportOf, derive_native_verdict
  <2>4. draft'[p].body = ReportOf(run[p])
    BY <2>0, <2>1 DEF BeginAppend, Ledger!ReadIndex, Ledger!NewManifest, Ledger!LedgerTypeOK
  <2> QED BY <2>3, <2>4
<1> QED BY <1>1, NexusInvariant, PTL DEF NexusSpec, DivergenceIsRecorded

(* What any number of runs write to one directory, an index that can be    *)
(* read lists as a chain verify accepts: the ledger's theorem, of the      *)
(* ledger the runtime drives.                                              *)
THEOREM NexusChainVerifies == NexusSpec => []Proved!ReadableIndexVerifies
<1>1. Proved!LedgerSpec => []Proved!ReadableIndexVerifies
  BY LedgerOfReports, Proved!ChainAlwaysVerifies DEF Proved!ChainAlwaysVerifies
<1> QED BY <1>1, RuntimeDrivesTheLedger, PTL
=============================================================================
