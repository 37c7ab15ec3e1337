----------------------- MODULE HardenedPipelineProofs -----------------------
(***************************************************************************)
(* What the hardened pipeline and its repair loop guarantee for any texts, *)
(* patchers, claims and installations, and any depth of repair; and that   *)
(* the two heuristic pipelines agree on any claim.                         *)
(***************************************************************************)
EXTENDS SovereignEngine, FiniteSetTheorems, WellFoundedInduction, TLAPS

(* What the repair has done to the claim's code so far.                    *)
RepairInv ==
  /\ current \in Texts
  /\ source = claim.formal_code
  /\ RepairIsZoned
  /\ stop \in {"idle", "clean"} => current = source
  /\ stop = "running" /\ current # source => ~current.clean
  /\ stop = "repaired" => current.clean

(* The text under judgement is the claim's, or what the repair returned.   *)
CodeInv ==
  /\ code \in Texts
  /\ at \in {"submitted", "repair"} => code = claim.formal_code
  /\ code # claim.formal_code => stop = "repaired" /\ code = current /\ code.clean
  /\ at = "submitted" => stop = "idle"

(* What the base pipeline said, and of which text.                         *)
BaseInv ==
  /\ base.verdict # "FORMALLY_CHECKED"
  /\ base.passed => base.text.clean /\ BaseBackend(claim) \in base.text.marked \ base.text.barred
  /\ at \in {"kernel", "vote", "done"} =>
       base.text = IF code = Empty THEN claim.header_code ELSE code

(* One of the kernels the name stands for accepted the code.               *)
HasKernel(spelled) ==
  \E k \in KernelOf(spelled) :
    <<k, code>> \in accepted /\ (code.clean \/ k = "isabelle")

Verdicts == {"FORMALLY_CHECKED", "EVIDENCE_SUPPORTED", "INCONCLUSIVE", "REJECTED",
             "UNSAFE_TO_VERIFY"}

Answer == [verdict: Verdicts, mode: {"missing", "heuristic", "kernel"}, ok: BOOLEAN]

(* A formal answer has a kernel behind it.                                 *)
VoteInv ==
  /\ ballots \in Seq(Answer)
  /\ Len(ballots) <= Len(claim.panel)
  /\ kernel.mode = "kernel" /\ kernel.ok => HasKernel(claim.backend)
  /\ \A i \in 1..Len(ballots) :
       ballots[i].verdict = "FORMALLY_CHECKED" => ballots[i].ok /\ HasKernel(claim.panel[i])
  /\ at \in {"submitted", "repair", "repaired", "kernel"} =>
       ballots = <<>> /\ ~(kernel.mode = "kernel" /\ kernel.ok)

ResultInv == Done => result = [verdict |-> final_verdict, passed |-> overall]

HardenedInv ==
  claim \in Claims /\ RepairInv /\ CodeInv /\ BaseInv /\ VoteInv /\ ResultInv

-----------------------------------------------------------------------------
(* An answer of run_kernel is formal only if a kernel of that name exited  *)
(* with status 0 on that text, which SafeVerify found clean or Isabelle's  *)
(* adapter did not ask about.                                              *)
LEMMA FormalAnswer ==
  ASSUME NEW s, NEW text \in Text, NEW r \in run_kernel(s, text)
  PROVE  /\ r.answer \in Answer
         /\ r.answer.verdict = "FORMALLY_CHECKED"
              \/ (r.answer.mode = "kernel" /\ r.answer.ok) =>
              /\ r.answer.ok
              /\ \E k \in KernelOf(s) : <<k, text>> \in r.exit /\ (text.clean \/ k = "isabelle")
<1>1. CASE KernelOf(s) = {}
  <2>1. r.answer = Unknown
    BY <1>1 DEF run_kernel
  <2>2. Unknown \in Answer /\ ~Unknown.ok /\ Unknown.verdict # "FORMALLY_CHECKED"
    BY DEF Unknown, KernelResult, Answer, Verdicts
  <2> QED BY <2>1, <2>2
<1>2. CASE KernelOf(s) # {} /\ KernelOf(s) \cap installed = {}
  <2>1. r.answer = Heuristic(text)
    BY <1>2 DEF run_kernel
  <2>2. /\ Heuristic(text) \in Answer /\ Heuristic(text).mode # "kernel"
        /\ Heuristic(text).verdict # "FORMALLY_CHECKED"
    BY DEF Heuristic, KernelResult, Text, Answer, Verdicts
  <2> QED BY <2>1, <2>2
<1>3. CASE KernelOf(s) # {} /\ KernelOf(s) \cap installed # {}
  <2>1. PICK k \in KernelOf(s) : \E exit \in Exits(k, text) :
          r = [exit |-> IF exit = "zero" THEN {<<k, text>>} ELSE {},
               answer |-> KernelAnswer(k, exit, text)]
    BY <1>3 DEF run_kernel
  <2>1a. PICK exit \in Exits(k, text) :
          r = [exit |-> IF exit = "zero" THEN {<<k, text>>} ELSE {},
               answer |-> KernelAnswer(k, exit, text)]
    BY <2>1
  <2>2. CASE exit = "zero" /\ (k = "isabelle" \/ text.clean)
    BY <2>1a, <2>2 DEF KernelAnswer, KernelResult, Answer, Verdicts
  <2>3. CASE ~(exit = "zero" /\ (k = "isabelle" \/ text.clean))
    <3>1. r.answer = KernelResult(RefusalVerdict(k, exit, text), "kernel", FALSE)
      BY <2>1a, <2>3 DEF KernelAnswer
    <3>2. RefusalVerdict(k, exit, text) \in Verdicts \ {"FORMALLY_CHECKED"}
      BY DEF RefusalVerdict, Verdicts
    <3> QED BY <3>1, <3>2 DEF KernelResult, Answer, Verdicts
  <2> QED BY <2>2, <2>3
<1> QED BY <1>1, <1>2, <1>3

(* The inductive invariant holds of a submitted claim.                     *)
THEOREM HardenedInitial == HardenedInit => HardenedInv
<1> SUFFICES ASSUME HardenedInit PROVE HardenedInv OBVIOUS
<1> USE DEF HardenedInit, RepairInit
<1>1. claim \in Claims /\ claim \in Claim
  BY HardenedAssumption
<1>2. RepairInv /\ CodeInv
  BY <1>1 DEF RepairInv, RepairIsZoned, CodeInv, Claim
<1>3. BaseInv
  BY DEF BaseInv
<1>4. VoteInv
  <2>1. Len(claim.panel) \in Nat
    BY <1>1 DEF Claim
  <2>2. ballots \in Seq(Answer) /\ Len(ballots) = 0
    OBVIOUS
  <2>3. ~(kernel.mode = "kernel" /\ kernel.ok)
    BY DEF Unknown, KernelResult
  <2> QED BY <2>1, <2>2, <2>3 DEF VoteInv
<1>5. ResultInv
  BY DEF ResultInv, Done
<1> QED BY <1>1, <1>2, <1>3, <1>4, <1>5 DEF HardenedInv

(* The repair keeps to the zones, whatever is proposed.                    *)
LEMMA RepairStepKeeps ==
  ASSUME RepairInv, claim \in Claims, RepairStep, stop = "running", UNCHANGED claim
  PROVE  RepairInv'
<1> USE HardenedAssumption DEF RepairInv, RepairIsZoned, frozen_skeleton
<1>1. CASE AlreadyClean
  BY <1>1 DEF AlreadyClean
<1>2. ASSUME NEW proposed \in Texts, RejectEdit(proposed)
      PROVE  RepairInv'
  BY <1>2 DEF RejectEdit, Proposing, NextAttempt
<1>3. ASSUME NEW proposed \in Texts, RefuseRewrite(proposed)
      PROVE  RepairInv'
  BY <1>3 DEF RefuseRewrite, Proposing
<1>4. ASSUME NEW proposed \in Texts, AcceptEdit(proposed)
      PROVE  RepairInv'
  BY <1>4 DEF AcceptEdit, Proposing, NextAttempt, zoned_edit
<1> QED BY <1>1, <1>2, <1>3, <1>4 DEF RepairStep

(* Verdict and status depend on what the run has, not on the kernels that  *)
(* are installed or on the repair.                                         *)
LEMMA DecisionStays ==
  ASSUME UNCHANGED <<claim, code, base, kernel, ballots>>
  PROVE  UNCHANGED <<final_verdict, overall, agreed, consensus_verdict, Passes>>
<1>1. UNCHANGED <<Passes, Fails, FirstFailure>>
  BY DEF Passes, Fails, FirstFailure
<1>2. UNCHANGED <<agreed, consensus_verdict>>
  BY <1>1 DEF agreed, consensus_verdict
<1>3. UNCHANGED final_verdict
  BY <1>2 DEF final_verdict
<1> QED BY <1>1, <1>2, <1>3 DEF overall

(* Every step of a run, of its repair and of the environment keeps it: what *)
(* one gate found stays true of the text that the later gates judge.       *)
THEOREM HardenedStep == HardenedInv /\ [HardenedNext]_hardenedVars => HardenedInv'
<1> SUFFICES ASSUME HardenedInv, [HardenedNext]_hardenedVars PROVE HardenedInv'
  OBVIOUS
<1> USE HardenedAssumption DEF HardenedInv
<1>1. CASE StartRun
  <2>1. RepairInv'
    <3>1. CASE BeginRepair
      BY <1>1, <3>1 DEF StartRun, BeginRepair, RepairInv, RepairIsZoned, CodeInv, frozen_skeleton
    <3>2. CASE UNCHANGED repairVars
      BY <1>1, <3>2 DEF StartRun, repairVars, RepairInv, RepairIsZoned, frozen_skeleton
    <3> QED BY <1>1, <3>1, <3>2 DEF StartRun
  <2>2. CodeInv'
    BY <1>1 DEF StartRun, BeginRepair, repairVars, CodeInv
  <2>3. BaseInv' /\ VoteInv' /\ ResultInv'
    BY <1>1 DEF StartRun, BaseInv, VoteInv, ResultInv, HasKernel, Done
  <2> QED BY <1>1, <2>1, <2>2, <2>3 DEF StartRun
<1>2. CASE Repair
  <2>1. UNCHANGED pipelineVars /\ at = "repair"
    BY <1>2 DEF Repair
  <2>2. RepairInv'
    BY <1>2, <2>1, RepairStepKeeps DEF Repair, pipelineVars
  <2>3. CodeInv'
    BY <2>1 DEF CodeInv, pipelineVars
  <2>4. BaseInv' /\ VoteInv' /\ ResultInv'
    BY <2>1 DEF pipelineVars, BaseInv, VoteInv, ResultInv, HasKernel, Done
  <2> QED BY <2>1, <2>2, <2>3, <2>4 DEF pipelineVars
<1>3. CASE EndRepair
  <2>1. RepairInv'
    BY <1>3 DEF EndRepair, repairVars, RepairInv, RepairIsZoned, frozen_skeleton
  <2>2. CodeInv'
    BY <1>3 DEF EndRepair, repairVars, success, StopReasons, CodeInv, RepairInv
  <2>3. BaseInv' /\ ResultInv'
    BY <1>3 DEF EndRepair, BaseInv, ResultInv, Done
  <2>4. VoteInv'
    <3>1. ballots = <<>> /\ Len(ballots) = 0
      BY <1>3 DEF EndRepair, VoteInv
    <3> QED BY <1>3, <3>1 DEF EndRepair, VoteInv
  <2> QED BY <1>3, <2>1, <2>2, <2>3, <2>4 DEF EndRepair
<1>4. CASE RunBase
  <2>1. RepairInv' /\ CodeInv'
    BY <1>4 DEF RunBase, repairVars, RepairInv, RepairIsZoned, frozen_skeleton, CodeInv
  <2>2. BaseInv'
    BY <1>4 DEF RunBase, BaseInv, run_pipeline, heuristic_verify,
                audit_verification_result, process_raw_claim, BaseBackend
  <2>3. VoteInv' /\ ResultInv'
    BY <1>4 DEF RunBase, VoteInv, ResultInv, HasKernel, Done
  <2> QED BY <1>4, <2>1, <2>2, <2>3 DEF RunBase
<1>5. CASE RunKernel
  <2>1. RepairInv' /\ CodeInv' /\ BaseInv' /\ ResultInv'
    BY <1>5 DEF RunKernel, repairVars, RepairInv, RepairIsZoned, frozen_skeleton,
                CodeInv, BaseInv, BaseBackend, ResultInv, Done
  <2>2. PICK r \in run_kernel(claim.backend, code) :
          kernel' = r.answer /\ accepted' = accepted \cup r.exit
    BY <1>5 DEF RunKernel
  <2>3. kernel'.mode = "kernel" /\ kernel'.ok => HasKernel(claim.backend)'
    BY <1>5, <2>2, FormalAnswer DEF RunKernel, HasKernel, CodeInv
  <2>4. ballots' = <<>> /\ Len(ballots') = 0
    BY <1>5 DEF RunKernel, VoteInv
  <2>5. VoteInv'
    BY <1>5, <2>3, <2>4 DEF RunKernel, VoteInv
  <2> QED BY <1>5, <2>1, <2>5 DEF RunKernel
<1>6. CASE KernelRaises
  BY <1>6 DEF KernelRaises, repairVars, RepairInv, RepairIsZoned, frozen_skeleton,
              CodeInv, BaseInv, BaseBackend, VoteInv, HasKernel, ResultInv, Done
<1>7. ASSUME NEW answer \in Answer, NEW exits,
             at = "vote", Len(ballots) < Len(claim.panel),
             ballots' = Append(ballots, answer), accepted' = accepted \cup exits,
             UNCHANGED <<repairVars, claim, installed, at, code, base, kernel, result, updates>>,
             answer.verdict = "FORMALLY_CHECKED" =>
               answer.ok /\ \E k \in KernelOf(Voter) :
                 <<k, code>> \in exits /\ (code.clean \/ k = "isabelle")
      PROVE  HardenedInv'
  <2>1. RepairInv' /\ CodeInv' /\ BaseInv' /\ ResultInv'
    BY <1>7 DEF repairVars, RepairInv, RepairIsZoned, frozen_skeleton,
                CodeInv, BaseInv, BaseBackend, ResultInv, Done
  <2>2. ballots \in Seq(Answer) /\ Len(claim.panel) \in Nat
    BY DEF VoteInv, Claim
  <2>3. /\ ballots' \in Seq(Answer) /\ Len(ballots') = Len(ballots) + 1
        /\ ballots'[Len(ballots) + 1] = answer
        /\ \A i \in 1..Len(ballots) : ballots'[i] = ballots[i]
    BY <1>7, <2>2
  <2>4. \A i \in 1..Len(ballots') : ballots'[i].verdict = "FORMALLY_CHECKED" =>
           ballots'[i].ok /\ HasKernel(claim.panel[i])'
    <3> SUFFICES ASSUME NEW i \in 1..Len(ballots'),
                        ballots'[i].verdict = "FORMALLY_CHECKED"
                 PROVE  ballots'[i].ok /\ HasKernel(claim.panel[i])'
      OBVIOUS
    <3>1. CASE i \in 1..Len(ballots)
      <4>1. ballots[i].ok /\ HasKernel(claim.panel[i])
        BY <2>3, <3>1 DEF VoteInv
      <4> QED BY <1>7, <2>3, <3>1, <4>1 DEF HasKernel
    <3>2. CASE i = Len(ballots) + 1
      BY <1>7, <2>3, <3>2 DEF Voter, HasKernel
    <3> QED BY <2>2, <2>3, <3>1, <3>2
  <2>5. kernel.mode = "kernel" /\ kernel.ok => HasKernel(claim.backend)'
    BY <1>7 DEF VoteInv, HasKernel
  <2>6. VoteInv'
    BY <1>7, <2>2, <2>3, <2>4, <2>5 DEF VoteInv
  <2> QED BY <1>7, <2>1, <2>6
<1>8. CASE Vote
  <2>1. PICK r \in run_kernel(Voter, code) :
          ballots' = Append(ballots, r.answer) /\ accepted' = accepted \cup r.exit
    BY <1>8 DEF Vote
  <2>2. /\ r.answer \in Answer
        /\ r.answer.verdict = "FORMALLY_CHECKED" =>
             r.answer.ok /\ \E k \in KernelOf(Voter) :
               <<k, code>> \in r.exit /\ (code.clean \/ k = "isabelle")
    BY FormalAnswer DEF CodeInv
  <2> QED BY <1>7, <1>8, <2>1, <2>2 DEF Vote
<1>9. CASE VoteRaises
  <2>1. Unknown \in Answer /\ Unknown.verdict # "FORMALLY_CHECKED"
    BY DEF Unknown, KernelResult, Answer, Verdicts
  <2>2. accepted' = accepted \cup {}
    BY <1>9 DEF VoteRaises
  <2> QED BY <1>7, <1>9, <2>1, <2>2 DEF VoteRaises
<1>10. CASE Decide
  <2>1. RepairInv' /\ CodeInv' /\ BaseInv' /\ VoteInv'
    BY <1>10 DEF Decide, repairVars, RepairInv, RepairIsZoned, frozen_skeleton,
                 CodeInv, BaseInv, BaseBackend, VoteInv, HasKernel
  <2>2. ResultInv'
    BY <1>10, DecisionStays DEF Decide, ResultInv
  <2> QED BY <1>10, <2>1, <2>2 DEF Decide
<1>11. CASE UpdateKernels
  BY <1>11 DEF UpdateKernels, repairVars, RepairInv, RepairIsZoned, frozen_skeleton,
               CodeInv, BaseInv, BaseBackend, VoteInv, HasKernel, ResultInv, Done
<1>12. CASE UNCHANGED hardenedVars
  <2>1. RepairInv' /\ CodeInv' /\ BaseInv' /\ VoteInv'
    BY <1>12 DEF hardenedVars, pipelineVars, repairVars, RepairInv, RepairIsZoned,
                 frozen_skeleton, CodeInv, BaseInv, BaseBackend, VoteInv, HasKernel
  <2>2. ResultInv'
    BY <1>12, DecisionStays DEF hardenedVars, pipelineVars, ResultInv, Done
  <2> QED BY <1>12, <2>1, <2>2 DEF hardenedVars, pipelineVars
<1> QED BY <1>1, <1>2, <1>3, <1>4, <1>5, <1>6, <1>8, <1>9, <1>10, <1>11, <1>12
        DEF HardenedNext

(* Inductive invariant of every run.                                       *)
THEOREM HardenedInvariant == HardenedSpec => []HardenedInv
<1> QED BY HardenedInitial, HardenedStep, PTL DEF HardenedSpec

(* The exits behind an answer are of kernels, on the text that was judged. *)
LEMMA ExitsOfKernels ==
  ASSUME NEW s, NEW text \in Texts, NEW r \in run_kernel(s, text)
  PROVE  /\ r.exit \subseteq Kernels \X Texts
         /\ r.answer \in Answer
<1>1. r.answer \in Answer
  BY FormalAnswer, HardenedAssumption
<1>2. KernelOf(s) \subseteq Kernels
  BY DEF KernelOf, Kernels
<1>3. CASE KernelOf(s) = {} \/ KernelOf(s) \cap installed = {}
  BY <1>1, <1>3 DEF run_kernel
<1>4. CASE KernelOf(s) # {} /\ KernelOf(s) \cap installed # {}
  <2>1. PICK k \in KernelOf(s) : \E exit \in Exits(k, text) :
          r = [exit |-> IF exit = "zero" THEN {<<k, text>>} ELSE {},
               answer |-> KernelAnswer(k, exit, text)]
    BY <1>4 DEF run_kernel
  <2>2. r.exit \subseteq {<<k, text>>}
    BY <2>1
  <2> QED BY <1>1, <1>2, <2>2
<1> QED BY <1>3, <1>4

(* The parts of the type invariant that HardenedInv does not have.         *)
RestTypeOK ==
  /\ source \in Texts
  /\ attempt \in Nat /\ (attempt = 1 \/ attempt <= MaxDepth)
  /\ stop \in StopReasons \cup {"idle", "running"}
  /\ installed \in Installations
  /\ at \in {"submitted", "repair", "repaired", "kernel", "vote", "done", "raised"}
  /\ base.text \in Texts /\ base.passed \in BOOLEAN
  /\ kernel.mode \in {"missing", "heuristic", "kernel"}
  /\ accepted \subseteq Kernels \X Texts
  /\ result.passed \in BOOLEAN
  /\ updates \in 0..MaxUpdates

LEMMA RestInitial == HardenedInit => RestTypeOK
<1> SUFFICES ASSUME HardenedInit PROVE RestTypeOK
  OBVIOUS
<1> USE DEF HardenedInit, RepairInit
<1>1. claim \in Claim /\ claim.formal_code \in Texts
  BY HardenedAssumption DEF Claim
<1> QED BY <1>1, HardenedAssumption
        DEF RestTypeOK, StopReasons, Unknown, KernelResult, NoResult

LEMMA RestStep ==
  ASSUME HardenedInv, RestTypeOK, [HardenedNext]_hardenedVars
  PROVE  RestTypeOK'
<1> USE DEF RestTypeOK
<1>1. code \in Texts /\ claim \in Claim
  BY HardenedAssumption DEF HardenedInv, CodeInv
<1>2. CASE StartRun
  BY <1>2 DEF StartRun, BeginRepair, repairVars, StopReasons
<1>3. CASE Repair
  <2>1. UNCHANGED pipelineVars
    BY <1>3 DEF Repair
  <2>2. NextAttempt => /\ attempt' \in Nat /\ (attempt' = 1 \/ attempt' <= MaxDepth)
                       /\ stop' \in StopReasons \cup {"idle", "running"}
    BY RepairAssumption DEF NextAttempt, StopReasons
  <2>3. CASE AlreadyClean
    BY <2>1, <2>3 DEF AlreadyClean, pipelineVars, StopReasons
  <2>4. ASSUME NEW proposed \in Texts,
               RejectEdit(proposed) \/ RefuseRewrite(proposed) \/ AcceptEdit(proposed)
        PROVE  RestTypeOK'
    BY <2>1, <2>2, <2>4
       DEF RejectEdit, RefuseRewrite, AcceptEdit, pipelineVars, StopReasons
  <2> QED BY <1>3, <2>3, <2>4 DEF Repair, RepairStep
<1>4. CASE EndRepair
  BY <1>4 DEF EndRepair, repairVars
<1>5. CASE RunBase
  <2>1. run_pipeline(code, claim).text \in Texts
    BY <1>1 DEF run_pipeline, process_raw_claim, Claim
  <2>2. run_pipeline(code, claim).passed \in BOOLEAN
    BY DEF run_pipeline, audit_verification_result
  <2> QED BY <1>5, <2>1, <2>2 DEF RunBase, repairVars
<1>6. CASE RunKernel
  <2>1. PICK r \in run_kernel(claim.backend, code) :
          kernel' = r.answer /\ accepted' = accepted \cup r.exit
    BY <1>6 DEF RunKernel
  <2>2. r.exit \subseteq Kernels \X Texts /\ r.answer \in Answer
    BY <1>1, ExitsOfKernels
  <2>3. kernel'.mode \in {"missing", "heuristic", "kernel"}
    BY <2>1, <2>2 DEF Answer
  <2>4. accepted' \subseteq Kernels \X Texts
    BY <2>1, <2>2
  <2> QED BY <1>6, <2>3, <2>4 DEF RunKernel, repairVars
<1>7. CASE KernelRaises
  BY <1>7 DEF KernelRaises, repairVars
<1>8. CASE Vote
  <2>1. PICK r \in run_kernel(Voter, code) : accepted' = accepted \cup r.exit
    BY <1>8 DEF Vote
  <2>2. accepted' \subseteq Kernels \X Texts
    BY <1>1, <2>1, ExitsOfKernels
  <2> QED BY <1>8, <2>2 DEF Vote, repairVars
<1>9. CASE VoteRaises
  BY <1>9 DEF VoteRaises, repairVars
<1>10. CASE Decide
  <2>1. overall \in BOOLEAN
    BY DEF overall
  <2> QED BY <1>10, <2>1 DEF Decide, repairVars
<1>11. CASE UpdateKernels
  BY <1>11, HardenedAssumption DEF UpdateKernels, repairVars
<1>12. CASE UNCHANGED hardenedVars
  BY <1>12 DEF hardenedVars, repairVars, pipelineVars
<1> QED BY <1>2, <1>3, <1>4, <1>5, <1>6, <1>7, <1>8, <1>9, <1>10, <1>11, <1>12
        DEF HardenedNext

(* Type correctness, for any texts, patchers, claims and bounds: attempts  *)
(* are never more than the depth of the repair, votes never more than the  *)
(* panel.                                                                  *)
THEOREM HardenedTypeCorrect == HardenedSpec => []HardenedTypeOK
<1>1. HardenedInv /\ RestTypeOK => HardenedTypeOK
  BY DEF HardenedInv, RepairInv, CodeInv, VoteInv, RestTypeOK, HardenedTypeOK, RepairTypeOK
<1>2. HardenedInit => HardenedInv /\ RestTypeOK
  BY HardenedInitial, RestInitial
<1>3. HardenedInv /\ RestTypeOK /\ [HardenedNext]_hardenedVars => (HardenedInv /\ RestTypeOK)'
  BY HardenedStep, RestStep
<1> QED BY <1>1, <1>2, <1>3, PTL DEF HardenedSpec

-----------------------------------------------------------------------------
(* Who passes is one of the ballots, and there are as many as are needed.  *)
LEMMA MajorityIsReal ==
  ASSUME VoteInv, agreed
  PROVE  2 * Cardinality(Passes) > Len(ballots) /\ Passes # {}
<1>1. Len(ballots) \in Nat
  BY DEF VoteInv
<1>2. IsFiniteSet(1..Len(ballots))
  BY <1>1, FS_Interval
<1>3. IsFiniteSet(Passes)
  BY <1>2, FS_Subset DEF Passes
<1>4. Cardinality(Passes) \in Nat
  BY <1>3, FS_CardinalityType
<1>5. 2 * Cardinality(Passes) > Len(ballots)
  BY <1>1, <1>4 DEF agreed
<1>6. Passes # {}
  BY <1>1, <1>5, FS_EmptySet
<1> QED BY <1>5, <1>6

(* A set of numbers that is not empty has a least one.                     *)
LEMMA LeastNumber ==
  ASSUME NEW S \in SUBSET Nat, S # {}
  PROVE  \E i \in S : \A j \in S : i <= j
<1> DEFINE Less == OpToRel(<, Nat)
<1>1. IsWellFoundedOn(Less, Nat)
  BY NatLessThanWellFounded
<1> HIDE DEF Less
<1>2. PICK i \in S : \A j \in S : <<j, i>> \notin Less
  BY <1>1, WFMin
<1>3. \A j \in S : ~(j < i)
  BY <1>2 DEF Less, OpToRel
<1> QED BY <1>3

(* A formal vote needs agreement: a failure is never formal.               *)
LEMMA FormalVoteAgrees ==
  ASSUME VoteInv, consensus_verdict = "FORMALLY_CHECKED"
  PROVE  agreed /\ \A i \in Passes : HasKernel(claim.panel[i])
<1>1. CASE agreed
  <2>1. \A i \in Passes : ballots[i].verdict = "FORMALLY_CHECKED"
    BY <1>1 DEF consensus_verdict
  <2> QED BY <1>1, <2>1 DEF VoteInv, Passes
<1>2. CASE ~agreed
  <2>1. Fails # {} /\ FirstFailure = "FORMALLY_CHECKED"
    BY <1>2 DEF consensus_verdict
  <2>2. Fails \subseteq Nat
    BY DEF Fails
  <2>3. \E i \in Fails : \A j \in Fails : i <= j
    BY <2>1, <2>2, LeastNumber
  <2>4. PICK i \in Fails : FirstFailure = ballots[i].verdict
    BY <2>3 DEF FirstFailure
  <2>5. ~ballots[i].ok
    BY <2>4 DEF Fails, Passes
  <2> QED BY <2>1, <2>4, <2>5 DEF VoteInv, Fails
<1> QED BY <1>1, <1>2

(* FORMALLY_CHECKED always has a kernel behind it.                         *)
THEOREM FormalAlwaysHasKernel == HardenedSpec => []FormalHasKernel
<1>1. HardenedInv => FormalHasKernel
  <2> SUFFICES ASSUME HardenedInv, Done, Formal
               PROVE  \E s \in Asked : HasKernel(s)
    BY DEF FormalHasKernel, HasKernel
  <2>1. final_verdict = "FORMALLY_CHECKED"
    BY DEF HardenedInv, ResultInv, Formal
  <2>2. CASE kernel.mode = "kernel" /\ kernel.ok
    BY <2>2 DEF HardenedInv, VoteInv, Asked
  <2>3. CASE agreed /\ consensus_verdict = "FORMALLY_CHECKED"
    <3>1. PICK i \in Passes : HasKernel(claim.panel[i])
      BY <2>3, MajorityIsReal, FormalVoteAgrees DEF HardenedInv
    <3>2. i \in 1..Len(claim.panel)
      <4>1. Len(ballots) \in Nat /\ Len(claim.panel) \in Nat
        BY HardenedAssumption DEF HardenedInv, VoteInv, Claim
      <4> QED BY <3>1, <4>1 DEF HardenedInv, VoteInv, Passes
    <3> QED BY <3>1, <3>2 DEF Asked
  <2> QED BY <2>1, <2>2, <2>3 DEF final_verdict, HardenedInv, BaseInv
<1> QED BY <1>1, HardenedInvariant, PTL

(* A formal consensus is a majority of engines with kernels.               *)
THEOREM ConsensusIsHonest == HardenedSpec => []ConsensusInventsNothing
<1>1. HardenedInv => ConsensusInventsNothing
  BY MajorityIsReal, FormalVoteAgrees DEF HardenedInv, ConsensusInventsNothing, HasKernel
<1> QED BY <1>1, HardenedInvariant, PTL

(* What passes got past the scan, the heuristics and the physics.          *)
THEOREM NoGateIsSkipped == HardenedSpec => []PassedEveryGate
<1>1. HardenedInv => PassedEveryGate
  BY DEF HardenedInv, ResultInv, BaseInv, PassedEveryGate, overall
<1> QED BY <1>1, HardenedInvariant, PTL

(* The base pipeline judges the text the kernels are run on, or header_code *)
(* for an empty one.                                                       *)
THEOREM OneTextIsJudged == HardenedSpec => []GatesJudgeOneText
<1>1. HardenedInv => GatesJudgeOneText
  BY DEF HardenedInv, BaseInv, CodeInv, GatesJudgeOneText
<1> QED BY <1>1, HardenedInvariant, PTL

(* Repair never leaves the zones of EVOLVE blocks.                         *)
THEOREM RepairStaysInZones == HardenedSpec => []RepairIsZoned
<1>1. HardenedInv => RepairIsZoned
  BY DEF HardenedInv, RepairInv
<1> QED BY <1>1, HardenedInvariant, PTL
-----------------------------------------------------------------------------
(* Both pipelines let the same texts pass: what one of them objects to in  *)
(* several places fails a single gate of the other.                        *)
LEMMA TextsAgree ==
  ASSUME NEW formal, NEW raw,
         NEW v, v = scan_result(process_raw_claim(formal, raw))
  PROVE  run_pipeline(formal, raw).passed <=>
           v.heuristic_pass /\ ~v.has_unverified_axioms /\ audit_scan(v)
<1> DEFINE c == process_raw_claim(formal, raw)
           bad == c.backend \in c.text.barred \/ ~c.text.clean
           marked == c.backend \in c.text.marked
<1>1. /\ v.heuristic_pass <=> ~bad /\ marked
      /\ v.has_unverified_axioms <=> bad
  BY DEF scan_result
<1>2. run_pipeline(formal, raw).passed <=> ~bad /\ marked
  BY DEF run_pipeline, heuristic_verify, audit_verification_result
<1> QED BY <1>1, <1>2 DEF audit_scan

(* The two copies of the pipeline differ about a claim only by a symbol of *)
(* one registry and by trajectories the bridge alone objects to.           *)
THEOREM EnginesAlwaysAgree == HardenedSpec => []EnginesAgree
<1>1. EnginesAgree
  <2> SUFFICES ASSUME NEW physics \in Physics
               PROVE  LET engine == process_and_verify(claim.formal_code, claim, physics)
                          pipeline == overall_status(claim.formal_code, claim, physics)
                      IN /\ pipeline /\ ~engine =>
                              physics.requires_si_checking /\ physics.variables = "symbol"
                         /\ engine /\ ~pipeline =>
                              \/ physics.motion = "fast"
                              \/ physics.motion = "unsafe" /\ ~physics.requires_cps_bounds
    BY DEF EnginesAgree
  <2>1. /\ bridge_units(physics) /\ ~engine_units(physics) =>
             physics.requires_si_checking /\ physics.variables = "symbol"
        /\ engine_units(physics) => bridge_units(physics)
        /\ bridge_motion(physics) => engine_motion(physics)
        /\ engine_motion(physics) /\ ~bridge_motion(physics) =>
             \/ physics.motion = "fast"
             \/ physics.motion = "unsafe" /\ ~physics.requires_cps_bounds
    BY DEF Physics, bridge_units, engine_units, bridge_motion, engine_motion
  <2> QED BY <2>1, TextsAgree, Zenon DEF process_and_verify, overall_status
<1> QED BY <1>1, PTL
=============================================================================
