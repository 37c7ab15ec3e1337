------------------------- MODULE ProofFabricProofs -------------------------
(***************************************************************************)
(* Proofs about ProofFabric, for any paths, texts, plans, supplements and  *)
(* bounds, and about ClaimConsumer, for any claims and bundles. What an    *)
(* audit remembers of its target is, while nothing is saved, what the      *)
(* target's file holds; the level derived from evidence is a monotone      *)
(* function of it, up to one refusal or a second artifact.                 *)
(***************************************************************************)
EXTENDS ClaimConsumer, TLAPS

Result == [verdict: TrustVerdicts, hash: SUBSET Texts,
           checked: SUBSET Texts, answer: SUBSET Answers]

(* The audit under way found what the file of its target holds.            *)
ScanInv ==
  /\ scanned.at # "target" =>
       /\ Running /\ target.key \in registered
       /\ edits = 0 => \E p \in target.path : scanned.violated = ~files[p].scan_ok
  /\ scanned.at = "hashed" /\ edits = 0 =>
       \A t \in scanned.hash : \E p \in target.path : t = files[p]

FabricInv ==
  /\ FabricTypeOK
  /\ results \in Seq(Result)
  /\ ScanInv
  /\ FormalLevelHasKernel

-----------------------------------------------------------------------------
(* A plan is a sequence of targets, whose files are among the paths.       *)
LEMMA TargetFacts ==
  ASSUME NEW i \in 1..Len(plan), plan \in Plans
  PROVE  /\ plan[i].path \subseteq Paths /\ plan[i].kind \in Kinds
         /\ \A p, q \in plan[i].path : p = q
<1>1. \A j \in 1..Len(plan) : Target(plan[j])
  BY FabricAssumption, Zenon
<1>2. Target(plan[i])
  BY <1>1, Zenon
<1> QED BY <1>2, Zenon DEF Target

(* A verdict of an adapter is a verdict, and formal only when a formal     *)
(* target had native evidence and nothing was violated.                    *)
LEMMA VerdictFacts ==
  ASSUME NEW kind, NEW native, NEW violated
  PROVE  /\ adapter_verdict(kind, native, violated) \in TrustVerdicts
         /\ adapter_verdict(kind, native, violated) = "FORMALLY_CHECKED" =>
              kind = "formal" /\ native /\ ~violated
BY DEF adapter_verdict, TrustVerdicts

(* Native evidence without a native violation is of a tool that accepted.  *)
LEMMA NativeFacts ==
  ASSUME NEW backend, NEW answer \in Answers,
         NativeEvidence(backend, answer), ~NativeViolation(backend, answer)
  PROVE  answer \in {"accepts", "accepts_some"}
BY DEF Answers, NativeEvidence, NativeViolation, LeanObjects, DafnyObjects, ExitStatusObjects

(* The target under audit, while there is one.                             *)
LEMMA TargetUnderAudit ==
  ASSUME FabricTypeOK, results \in Seq(Result), Running
  PROVE  /\ target.path \subseteq Paths /\ target.kind \in Kinds
         /\ \A p, q \in target.path : p = q
         /\ Len(results) + 1 \in 1..Len(plan) /\ Len(plan) \in Nat
<1>1. plan \in Plans
  BY DEF FabricTypeOK
<1>2. Len(plan) \in Nat
  BY <1>1, FabricAssumption, Zenon
<1>3. Len(results) + 1 \in 1..Len(plan)
  BY <1>2 DEF Running
<1> QED BY <1>1, <1>2, <1>3, TargetFacts DEF target

(* A recorded result is added to the others and ends the audit.            *)
LEMMA RecordFacts ==
  ASSUME FabricInv, Running, NEW result \in Result, Record(result),
         result.verdict = "FORMALLY_CHECKED" =>
           /\ target.kind = "formal"
           /\ result.answer # {} /\ result.answer \subseteq {"accepts", "accepts_some"}
           /\ target.key # "isabelle" => \A t \in result.checked : t.native \in result.answer
           /\ edits = 0 => \A t \in result.hash : t.scan_ok
  PROVE  FabricInv'
<1> USE DEF FabricInv, FabricTypeOK, Record
<1>1. /\ results' \in Seq(Result) /\ Len(results') = Len(results) + 1
      /\ \A i \in 1..Len(results) : results'[i] = results[i]
      /\ results'[Len(results) + 1] = result
      /\ \A i \in 1..Len(results') : i \in 1..Len(results) \/ i = Len(results) + 1
      /\ \A i \in 1..Len(results') : results'[i] \in Result
  OBVIOUS
<1>2. Len(results') <= Len(plan)
  BY <1>1, TargetUnderAudit
<1>3. NotScanned \in [at: {"target", "scanned", "hashed"}, hash: SUBSET Texts, violated: BOOLEAN]
      /\ NotScanned.at = "target"
  BY DEF NotScanned
<1>4. FabricTypeOK'
  BY <1>1, <1>2, <1>3 DEF Result
<1>5. ScanInv'
  BY <1>3 DEF ScanInv
<1>6. FormalLevelHasKernel'
  BY <1>1 DEF FormalLevelHasKernel, FormalResults, target
<1> QED BY <1>1, <1>4, <1>5, <1>6

(* A read of the target's file is remembered.                              *)
LEMMA RememberFacts ==
  ASSUME FabricInv, NEW seen, Remember(seen), Running, target.key \in registered,
         seen \in [at: {"scanned", "hashed"}, hash: SUBSET Texts, violated: BOOLEAN],
         edits = 0 => \E p \in target.path : seen.violated = ~files[p].scan_ok,
         seen.at = "hashed" /\ edits = 0 => \A t \in seen.hash : \E p \in target.path : t = files[p]
  PROVE  FabricInv'
<1> USE DEF FabricInv, FabricTypeOK, Remember
<1>1. FabricTypeOK' /\ results' \in Seq(Result)
  OBVIOUS
<1>2. ScanInv'
  BY DEF ScanInv, Running, target
<1>3. FormalLevelHasKernel'
  BY DEF FormalLevelHasKernel, FormalResults
<1> QED BY <1>1, <1>2, <1>3

(* A fabric that has executed nothing satisfies it.                        *)
LEMMA InitInv == FabricInit => FabricInv
<1> SUFFICES ASSUME FabricInit PROVE FabricInv
  OBVIOUS
<1> USE DEF FabricInit
<1>1. Len(plan) \in Nat
  BY FabricAssumption, Zenon
<1>2. Len(results) = 0 /\ results \in Seq(Result)
  OBVIOUS
<1>3. binding \in [complete: BOOLEAN, hash: SUBSET Texts]
  OBVIOUS
<1>4. FabricTypeOK
  BY <1>1, <1>2, <1>3, FabricAssumption DEF FabricTypeOK, NotScanned
<1>5. ScanInv /\ FormalLevelHasKernel
  BY <1>2 DEF ScanInv, NotScanned, FormalLevelHasKernel, FormalResults
<1> QED BY <1>2, <1>4, <1>5 DEF FabricInv

(* Every step keeps it.                                                    *)
LEMMA InvStep ==
  ASSUME FabricInv, [FabricNext]_fabricVars
  PROVE  FabricInv'
<1> USE DEF FabricInv, FabricTypeOK
<1>0. Inconclusive \in Result /\ Inconclusive.verdict # "FORMALLY_CHECKED"
  BY DEF Inconclusive, Result, TrustVerdicts
<1>1. CASE SkipTarget \/ AdapterRaises
  BY <1>0, <1>1, RecordFacts DEF SkipTarget, AdapterRaises
<1>2. CASE ScanTarget
  <2>1. PICK p \in target.path :
          Remember([at |-> "scanned", hash |-> {}, violated |-> ~files[p].scan_ok])
    BY <1>2 DEF ScanTarget
  <2>2. Running /\ target.key \in registered
    BY <1>2 DEF ScanTarget, MayRead
  <2> QED BY <2>1, <2>2, RememberFacts
<1>3. CASE HashTarget
  <2>1. PICK p \in target.path :
          Remember([scanned EXCEPT !.at = "hashed", !.hash = {files[p]}])
    BY <1>3 DEF HashTarget
  <2>2. Running /\ target.key \in registered /\ scanned.at = "scanned"
    BY <1>3 DEF HashTarget, MayRead
  <2>3. p \in Paths /\ files[p] \in Texts
    BY <2>2, TargetUnderAudit
  <2> DEFINE seen == [scanned EXCEPT !.at = "hashed", !.hash = {files[p]}]
  <2>4. seen \in [at: {"scanned", "hashed"}, hash: SUBSET Texts, violated: BOOLEAN]
        /\ seen.violated = scanned.violated /\ seen.hash = {files[p]}
    BY <2>3
  <2>5. edits = 0 => \E q \in target.path : seen.violated = ~files[q].scan_ok
    BY <2>2, <2>4 DEF ScanInv
  <2> HIDE DEF seen
  <2> QED BY <2>1, <2>2, <2>4, <2>5, RememberFacts DEF seen
<1>4. CASE RunTarget
  <2>1. scanned.at = "hashed" /\ Running /\ target.key \in registered
    BY <1>4 DEF RunTarget, ScanInv
  <2>2. PICK p \in target.path, answer \in Answers :
          /\ answer \in AnswersTo(target.key, files[p].native)
          /\ Record([verdict |-> adapter_verdict(target.kind,
                                    NativeEvidence(target.key, answer),
                                    scanned.violated \/ NativeViolation(target.key, answer)),
                     hash |-> scanned.hash, checked |-> {files[p]}, answer |-> {answer}])
    BY <1>4, Zenon DEF RunTarget
  <2> DEFINE verdict == adapter_verdict(target.kind, NativeEvidence(target.key, answer),
                          scanned.violated \/ NativeViolation(target.key, answer))
             result == [verdict |-> verdict, hash |-> scanned.hash,
                        checked |-> {files[p]}, answer |-> {answer}]
  <2>3. files[p] \in Texts /\ (target.key # "isabelle" => files[p].native = answer)
    BY <2>1, <2>2, TargetUnderAudit DEF AnswersTo
  <2>4. verdict \in TrustVerdicts
    BY VerdictFacts, Zenon
  <2>5. verdict = "FORMALLY_CHECKED" =>
          target.kind = "formal" /\ NativeEvidence(target.key, answer)
          /\ ~(scanned.violated \/ NativeViolation(target.key, answer))
    BY DEF adapter_verdict
  <2>6. verdict = "FORMALLY_CHECKED" => answer \in {"accepts", "accepts_some"}
    BY <2>3, <2>5, NativeFacts, Zenon
  <2>7. \A t \in scanned.hash :
          edits = 0 /\ ~scanned.violated => t.scan_ok
    BY <2>1, TargetUnderAudit DEF ScanInv
  <2> HIDE DEF verdict
  <2>8. result \in Result
    BY <2>3, <2>4 DEF Result
  <2>9. Record(result)
    BY <2>2, Zenon DEF verdict
  <2>10. /\ result.verdict = verdict /\ result.hash = scanned.hash
         /\ result.checked = {files[p]} /\ result.answer = {answer}
    OBVIOUS
  <2> HIDE DEF result
  <2>11. result.verdict = "FORMALLY_CHECKED" =>
           /\ target.kind = "formal"
           /\ result.answer # {} /\ result.answer \subseteq {"accepts", "accepts_some"}
           /\ target.key # "isabelle" => \A t \in result.checked : t.native \in result.answer
           /\ edits = 0 => \A t \in result.hash : t.scan_ok
    BY <2>3, <2>5, <2>6, <2>7, <2>10
  <2> QED BY <2>1, <2>8, <2>9, <2>11, RecordFacts
<1>5. CASE ScanOnly
  <2>1. scanned.at = "hashed" /\ Running
    BY <1>5 DEF ScanOnly, ScanInv
  <2> DEFINE verdict == adapter_verdict(target.kind, FALSE, scanned.violated)
             result == [Inconclusive EXCEPT !.verdict = verdict, !.hash = scanned.hash]
  <2>2. verdict \in TrustVerdicts /\ verdict # "FORMALLY_CHECKED"
    BY VerdictFacts, Zenon
  <2>3. Record(result)
    BY <1>5, Zenon DEF ScanOnly
  <2> HIDE DEF verdict
  <2>4. result \in Result /\ result.verdict = verdict
    BY <2>2 DEF Inconclusive, Result
  <2> QED BY <2>1, <2>2, <2>3, <2>4, RecordFacts
<1>6. ASSUME NEW e \in Supplements, Attach(e)
      PROVE  FabricInv'
  <2>1. FabricTypeOK' /\ results' \in Seq(Result)
    BY <1>6 DEF Attach
  <2>2. ScanInv' /\ FormalLevelHasKernel'
    BY <1>6 DEF Attach, ScanInv, Running, target, FormalLevelHasKernel, FormalResults
  <2> QED BY <2>1, <2>2
<1>7. ASSUME NEW p \in Paths, EditFile(p)
      PROVE  FabricInv'
  <2>1. edits' = edits + 1 /\ edits \in Nat /\ edits' \in 0..MaxEdits
    <3>1. MaxEdits \in Nat
      BY FabricAssumption, Zenon
    <3> QED BY <1>7, <3>1 DEF EditFile
  <2>2. files' \in [Paths -> Texts]
    BY <1>7 DEF EditFile
  <2>3. FabricTypeOK' /\ results' \in Seq(Result)
    BY <1>7, <2>1, <2>2 DEF EditFile
  <2>4. ScanInv' /\ FormalLevelHasKernel'
    BY <1>7, <2>1 DEF EditFile, ScanInv, Running, target, FormalLevelHasKernel, FormalResults
  <2> QED BY <2>3, <2>4
<1>8. CASE UNCHANGED fabricVars
  BY <1>8 DEF fabricVars, ScanInv, Running, target, FormalLevelHasKernel, FormalResults
<1> QED BY <1>1, <1>2, <1>3, <1>4, <1>5, <1>6, <1>7, <1>8 DEF FabricNext

(* The invariant holds of every execution.                                 *)
LEMMA Invariance == FabricSpec => []FabricInv
<1> QED BY InitInv, InvStep, PTL DEF FabricSpec

(* Evidence is added as targets are executed and supplements attached, and *)
(* none of it goes.                                                        *)
LEMMA EvidenceGrows ==
  ASSUME FabricInv, [FabricNext]_fabricVars
  PROVE  evidence \subseteq evidence'
<1> USE DEF FabricInv
<1>1. plan' = plan /\ attached \subseteq attached'
  BY DEF FabricNext, SkipTarget, ScanTarget, HashTarget, RunTarget, ScanOnly, AdapterRaises,
     Attach, EditFile, Record, Remember, fabricVars
<1>2. \A i \in 1..Len(results) : i \in 1..Len(results') /\ results'[i] = results[i]
  <2>1. results' = results \/ \E r : results' = Append(results, r)
    BY DEF FabricNext, SkipTarget, ScanTarget, HashTarget, RunTarget, ScanOnly, AdapterRaises,
       Attach, EditFile, Record, Remember, fabricVars
  <2>2. ASSUME NEW r, results' = Append(results, r)
        PROVE  \A i \in 1..Len(results) : i \in 1..Len(results') /\ results'[i] = results[i]
    BY <2>2
  <2> QED BY <2>1, <2>2
<1> QED BY <1>1, <1>2 DEF evidence, to_evidence

(* What the level is made of.                                              *)
Formal(items) == {e \in items : e.verdict = "FORMALLY_CHECKED"}
Computed(items) == \E e \in items : e.verdict = "COMPUTATION_VERIFIED"
Attested(items) ==
  \E e \in items : e.verdict = "HUMAN_ATTESTED" /\ (e.human_scope \/ e.claim = "none")
Checkers(items) == \E e, f \in Formal(items) : independent(e, f)
Foundations(items) ==
  \E e, f \in Formal(items) : {} \notin {e.foundation, f.foundation} /\ e.foundation # f.foundation

(* The level in terms of those.                                           *)
LEMMA LevelFacts ==
  ASSUME NEW items
  PROVE  derive_assurance(items) =
    LET base == IF Formal(items) # {} THEN 2 ELSE IF Computed(items) THEN 1 ELSE 0
        d3 == base > 0 /\ hardened(items)
        d4 == d3 /\ Checkers(items)
        d5 == d4 /\ Foundations(items)
    IN IF ~one_scope(items) \/ refused(items) THEN 0
       ELSE IF d5 /\ Attested(items) THEN 6
       ELSE IF d5 THEN 5 ELSE IF d4 THEN 4 ELSE IF d3 THEN 3 ELSE base
BY Zenon DEF derive_assurance, Formal, Computed, Attested, Checkers, Foundations

(* A level is a number, and D0 for evidence that mixes artifacts or holds  *)
(* a refusal.                                                              *)
LEMMA LevelRange ==
  ASSUME NEW items
  PROVE  /\ derive_assurance(items) \in 0..6
         /\ derive_assurance(items) > 0 => one_scope(items) /\ ~refused(items)
BY LevelFacts

(* More evidence that is not negative and of the same artifact supports a  *)
(* level at least as high.                                                 *)
LEMMA LevelMonotone ==
  ASSUME NEW items, NEW more, items \subseteq more, one_scope(more), ~refused(more)
  PROVE  derive_assurance(more) >= derive_assurance(items)
<1>1. /\ Formal(items) # {} => Formal(more) # {}
      /\ Computed(items) => Computed(more)
      /\ Attested(items) => Attested(more)
      /\ hardened(items) => hardened(more)
  BY DEF Formal, Computed, Attested, hardened
<1>2. Formal(items) \subseteq Formal(more)
  BY DEF Formal
<1>3. Checkers(items) => Checkers(more)
  BY <1>2, Zenon DEF Checkers
<1>4. Foundations(items) => Foundations(more)
  BY <1>2, Zenon DEF Foundations
<1> QED BY <1>1, <1>3, <1>4, LevelFacts

-----------------------------------------------------------------------------
(* The state of the fabric keeps its shape.                                *)
THEOREM FabricTypeCorrect == FabricSpec => []FabricTypeOK
<1>1. FabricInv => FabricTypeOK
  BY DEF FabricInv
<1> QED BY <1>1, Invariance, PTL

(* A formal verdict has a tool behind it that accepted under a target that *)
(* asked for a formal check.                                               *)
THEOREM FormalVerdictsHaveKernels == FabricSpec => []FormalLevelHasKernel
<1>1. FabricInv => FormalLevelHasKernel
  BY DEF FabricInv
<1> QED BY <1>1, Invariance, PTL

(* All results of a record whose level rests on formal ones are of the     *)
(* text the claim is bound to.                                             *)
THEOREM LevelsAreOfOneArtifact == FabricSpec => []OneArtifactPerClaim
<1>1. ASSUME FabricInv PROVE OneArtifactPerClaim
  <2>1. SUFFICES ASSUME assurance_level > 0, NEW f \in FormalResults,
                        NEW i \in 1..Len(results)
                 PROVE  results[i].hash \subseteq binding.hash
    BY DEF OneArtifactPerClaim
  <2>2. bindings_valid /\ derive_assurance(evidence) > 0
    BY <2>1 DEF assurance_level
  <2>3. f \in 1..Len(results) /\ results[f].verdict = "FORMALLY_CHECKED"
        /\ plan[f].kind = "formal"
    BY <1>1, <2>1 DEF FabricInv, FormalLevelHasKernel, FormalResults
  <2>4. results[f].hash = binding.hash /\ binding.hash # {}
    BY <2>2, <2>3 DEF bindings_valid
  <2>5. to_evidence(plan[i], results[i]) \in evidence
        /\ to_evidence(plan[f], results[f]) \in evidence
    BY <2>1, <2>3 DEF evidence
  <2>6. one_scope(evidence)
    BY <2>2, LevelRange
  <2>7. results[i].hash = results[f].hash \/ results[i].hash = {} \/ results[f].hash = {}
    BY <2>5, <2>6 DEF one_scope, to_evidence
  <2> QED BY <2>4, <2>7
<1> QED BY <1>1, Invariance, PTL

(* A refusal in the evidence pins the level of every later record to D0.   *)
THEOREM RefusalPinsTheLevel == FabricSpec => RefusalIsFinal
<1>1. ASSUME FabricInv, [FabricNext]_fabricVars, NEW e \in evidence, e.verdict = "REJECTED"
      PROVE  assurance_level' = 0
  <2>1. e \in evidence'
    BY <1>1, EvidenceGrows
  <2>2. refused(evidence')
    BY <1>1, <2>1 DEF refused
  <2>3. derive_assurance(evidence') = 0
    BY <2>2, LevelFacts
  <2> QED BY <2>3 DEF assurance_level
<1>2. FabricInv /\ [FabricNext]_fabricVars
        => [(\E e \in evidence : e.verdict = "REJECTED") => assurance_level' = 0]_fabricVars
  BY <1>1
<1> QED BY <1>2, Invariance, PTL DEF FabricSpec, RefusalIsFinal

(* Attaching evidence that supports the record never lowers its level.     *)
THEOREM SupportKeepsTheLevel == FabricSpec => SupportNeverLowers
<1>1. ASSUME FabricInv, [FabricNext]_fabricVars, NEW e \in attached' \ attached, Supports(e)
      PROVE  assurance_level' >= assurance_level
  <2>1. PICK a \in Supplements : Attach(a)
    BY <1>1 DEF FabricNext, SkipTarget, ScanTarget, HashTarget, RunTarget, ScanOnly,
       AdapterRaises, EditFile, Record, Remember, fabricVars
  <2>2. attached' = attached \cup {e} /\ plan' = plan /\ results' = results
        /\ binding' = binding /\ review' = review
    BY <1>1, <2>1 DEF Attach
  <2>3. evidence' = evidence \cup {e}
    BY <2>2 DEF evidence
  <2>4. bindings_valid' <=> bindings_valid
    BY <2>2 DEF bindings_valid
  <2>5. one_scope(evidence') /\ e.verdict \notin {"REJECTED", "UNSAFE_TO_VERIFY"}
    BY <1>1, <2>3 DEF Supports
  <2>6. derive_assurance(evidence') >= derive_assurance(evidence)
    <3>1. CASE refused(evidence)
      <4>1. derive_assurance(evidence) = 0 /\ derive_assurance(evidence') \in 0..6
        BY <3>1, LevelRange
      <4> QED BY <4>1
    <3>2. CASE ~refused(evidence)
      <4>1. ~refused(evidence')
        BY <2>3, <2>5, <3>2 DEF refused
      <4> QED BY <2>3, <2>5, <4>1, LevelMonotone
    <3> QED BY <3>1, <3>2
  <2> QED BY <2>4, <2>6 DEF assurance_level
<1>2. FabricInv /\ [FabricNext]_fabricVars =>
        [\A e \in attached' \ attached : Supports(e) => assurance_level' >= assurance_level]_fabricVars
  BY <1>1
<1> QED BY <1>2, Invariance, PTL DEF FabricSpec, SupportNeverLowers
-----------------------------------------------------------------------------
(* Of claims that are judged by the same rule.                             *)

(* A level a claim may be given for what it says of itself.                *)
Sober(claim, level) ==
  /\ level \in Nat /\ level <= 2
  /\ level = 2 => claim.epistemic_tier = "[P]" /\ claim.pass /\ claim.hash = "sha256"
  /\ level = 1 => claim.epistemic_tier = "[D]"

JudgeInv ==
  /\ bundle \in Seq(Manifest) /\ levels \in Seq(Nat) /\ Len(levels) <= Len(bundle)
  /\ \A i \in 1..Len(levels) : Sober(bundle[i], levels[i]) /\ ~EvidenceRaises(bundle[i])
  /\ judge = "returned" => Len(levels) = Len(bundle)

(* The evidence of a claim is that of its prover and of the two parts a    *)
(* manifest can fill in, which are not all four controls.                  *)
LEMMA EvidenceOfClaim ==
  ASSUME NEW claim \in Manifest
  PROVE  /\ ~hardened(build_evidence(claim))
         /\ Formal(build_evidence(claim)) # {} => primary(claim).verdict = "FORMALLY_CHECKED"
         /\ Computed(build_evidence(claim)) => primary(claim).verdict = "COMPUTATION_VERIFIED"
<1>1. ASSUME NEW e \in build_evidence(claim)
      PROVE  \/ e.kind = primary(claim).kind /\ e.verdict = primary(claim).verdict
             \/ e.kind \in {"axiom_audit", "environment"} /\ e.verdict = "EVIDENCE_SUPPORTED"
  BY <1>1 DEF build_evidence, Manifest
<1>2. primary(claim).kind # "signature"
  BY DEF primary
<1>3. ~hardened(build_evidence(claim))
  BY <1>1, <1>2 DEF hardened, HardenedKinds
<1>4. Formal(build_evidence(claim)) # {} => primary(claim).verdict = "FORMALLY_CHECKED"
  BY <1>1 DEF Formal
<1>5. Computed(build_evidence(claim)) => primary(claim).verdict = "COMPUTATION_VERIFIED"
  BY <1>1 DEF Computed
<1> QED BY <1>3, <1>4, <1>5

(* So its level is D2 at most, and what its tier earns.                    *)
LEMMA ClaimLevel ==
  ASSUME NEW claim \in Manifest
  PROVE  Sober(claim, derive_assurance(build_evidence(claim)))
<1>1. /\ primary(claim).verdict = "FORMALLY_CHECKED" =>
           claim.epistemic_tier = "[P]" /\ claim.pass /\ claim.hash = "sha256"
      /\ primary(claim).verdict = "COMPUTATION_VERIFIED" => claim.epistemic_tier = "[D]"
  BY DEF primary, concrete_hash, Manifest
<1> QED BY <1>1, EvidenceOfClaim, LevelFacts DEF Sober

(* A bundle begins without levels.                                         *)
LEMMA JudgeStart == ConsumerInit => JudgeInv
<1> SUFFICES ASSUME ConsumerInit PROVE JudgeInv
  OBVIOUS
<1>1. PICK n \in 0..MaxClaims : bundle \in [1..n -> Manifests]
  BY DEF ConsumerInit
<1>2. n \in Nat /\ Manifests \subseteq Manifest
  BY <1>1, ConsumerAssumption
<1>3. bundle \in Seq(Manifest)
  BY <1>1, <1>2
<1>4. levels = <<>> /\ judge = "judging"
  BY DEF ConsumerInit
<1> QED BY <1>3, <1>4 DEF JudgeInv

(* A claim that is judged is evidence, and its level is earned.            *)
LEMMA JudgeStep == JudgeInv /\ [ConsumerStep]_consumerVars => JudgeInv'
<1> SUFFICES ASSUME JudgeInv, [ConsumerStep]_consumerVars PROVE JudgeInv'
  OBVIOUS
<1> USE DEF JudgeInv
<1>1. CASE JudgeClaim
  <2> DEFINE level == IF LevelRaises(next_claim) THEN 0
                      ELSE derive_assurance(build_evidence(next_claim))
  <2>1. /\ bundle' = bundle /\ judge' = judge /\ levels' = Append(levels, level)
        /\ judge = "judging" /\ Len(levels) < Len(bundle) /\ ~EvidenceRaises(next_claim)
    BY <1>1 DEF JudgeClaim, Judging
  <2>2. next_claim \in Manifest /\ next_claim = bundle[Len(levels) + 1]
    BY <2>1 DEF next_claim
  <2>3. Sober(next_claim, level)
    <3>1. Sober(next_claim, 0)
      BY DEF Sober
    <3> QED BY <2>2, <3>1, ClaimLevel
  <2> HIDE DEF level
  <2>4. level \in Nat
    BY <2>3 DEF Sober
  <2>5. /\ levels' \in Seq(Nat) /\ Len(levels') = Len(levels) + 1
        /\ \A i \in 1..Len(levels') :
             IF i \in 1..Len(levels) THEN levels'[i] = levels[i]
             ELSE i = Len(levels) + 1 /\ levels'[i] = level
    BY <2>1, <2>4
  <2>6. ASSUME NEW i \in 1..Len(levels')
        PROVE  Sober(bundle'[i], levels'[i]) /\ ~EvidenceRaises(bundle'[i])
    <3>1. CASE i \in 1..Len(levels)
      <4>1. levels'[i] = levels[i] /\ bundle'[i] = bundle[i]
        BY <2>1, <2>5, <3>1
      <4> QED BY <3>1, <4>1
    <3>2. CASE i \notin 1..Len(levels)
      <4>1. levels'[i] = level /\ bundle'[i] = next_claim
        BY <2>1, <2>2, <2>5, <3>2
      <4> QED BY <2>1, <2>3, <4>1
    <3> QED BY <3>1, <3>2
  <2>7. (\A i \in 1..Len(levels) : Sober(bundle[i], levels[i]) /\ ~EvidenceRaises(bundle[i]))'
    BY <2>6
  <2> QED BY <2>1, <2>5, <2>7
<1>2. CASE JudgeRaises
  BY <1>2 DEF JudgeRaises
<1>3. CASE ReturnLevels
  BY <1>3 DEF ReturnLevels
<1>4. CASE UNCHANGED consumerVars
  BY <1>4 DEF consumerVars
<1> QED BY <1>1, <1>2, <1>3, <1>4 DEF ConsumerStep

(* What a claim says of itself never earns more than D2, and a bundle that *)
(* holds one that cannot be evidence returns no levels at all.             *)
THEOREM JudgeAlwaysSober == ConsumerSpec => []JudgeIsSober
<1>1. JudgeInv => JudgeIsSober
  <2> SUFFICES ASSUME JudgeInv PROVE JudgeIsSober
    OBVIOUS
  <2>1. judge = "returned" => \A i \in 1..Len(bundle) : ~EvidenceRaises(bundle[i])
    BY DEF JudgeInv
  <2>2. \A i \in 1..Len(bundle) : bundle[i] \in Manifest
    BY DEF JudgeInv
  <2>3. judge = "returned" =>
          \A i \in 1..Len(bundle) : bundle[i].prover /\ bundle[i].claim_id = bundle[i].statement
    BY <2>1, <2>2 DEF EvidenceRaises, Manifest
  <2> QED BY <2>3 DEF JudgeInv, JudgeIsSober, Sober
<1> QED BY <1>1, JudgeStart, JudgeStep, PTL DEF ConsumerSpec
=============================================================================
