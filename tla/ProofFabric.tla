----------------------------- MODULE ProofFabric -----------------------------
(***************************************************************************)
(* The claim-centric fabric: VerificationFabric.verify executes the        *)
(* targets of a claim's plan in order (verification_fabric.py) through the *)
(* adapters of backend_adapter.py, the results make a ProofRecord bound to *)
(* one proof artifact (proof_record.py), callers attach further evidence   *)
(* to it, and derive_assurance gives it a Diamond level (assurance.py).    *)
(* Every target's file is read three times - by the scan, for the hash the *)
(* result carries, by the native tool - and may be saved between any two.  *)
(* Only registry adapters are modelled, for which the declaration a result *)
(* names is the binding's own.                                             *)
(***************************************************************************)
EXTENDS Naturals, Sequences, FiniteSets, NativeBackends

CONSTANTS
  Paths,           \* files that targets name
  Texts,           \* their contents: [scan_ok, native]
  Plans,           \* plans a caller may execute: sequences of targets
  Supplements,     \* evidence a caller may attach to the record
  MaxEdits,        \* bound: saves while the plan is executed
  MaxSupplements   \* bound: evidence attached

Text == [scan_ok: BOOLEAN, native: Answers]

Kinds == {"formal", "computation", "execution", "provenance", "environment",
          "axiom_audit", "signature", "human_review"}

TrustVerdicts == {"FORMALLY_CHECKED", "COMPUTATION_VERIFIED", "EXECUTION_OBSERVED",
                  "EVIDENCE_SUPPORTED", "HUMAN_ATTESTED", "INCONCLUSIVE", "REJECTED",
                  "UNSAFE_TO_VERIFY", "CONFLICTING_VERDICTS"}

(* register_default_backends: a name stands for the lower-case name of an  *)
(* adapter, "rocq" for "coq", "lean" for "lean 4".                         *)
DefaultBackends == {"lean", "rocq", "isabelle", "python"}

(* The backend of a target as it is spelled, and the adapter that names.   *)
(* "path", "group" and "foundation" are {} when the target has none, and   *)
(* no target has two paths.                                                *)
Target(t) ==
  /\ t.spelled \in STRING /\ t.key \in STRING
  /\ t.kind \in Kinds
  /\ t.path \subseteq Paths /\ \A p, q \in t.path : p = q
  /\ t.group \subseteq STRING /\ t.foundation \subseteq STRING

(* VerificationPlan refuses a second target of the same backend and kind,  *)
(* by the name as it is spelled.                                           *)
validate_targets(targets) ==
  \A i, j \in 1..Len(targets) :
    targets[i].spelled = targets[j].spelled /\ targets[i].kind = targets[j].kind
      => i = j

ASSUME FabricAssumption ==
  /\ Texts \subseteq Text /\ Texts # {} /\ Paths # {}
  /\ \A targets \in Plans :
       /\ Len(targets) \in Nat /\ validate_targets(targets)
       /\ \A i \in 1..Len(targets) : Target(targets[i])
  /\ MaxEdits \in Nat /\ MaxSupplements \in Nat

VARIABLES
  files,       \* the text each path holds
  registered,  \* lower-case names with an adapter
  plan,        \* the plan under execution
  binding,     \* what the claim is bound to: complete or not, proof hash
  review,      \* the formalization review, if there is one
  scanned,     \* what the audit under way has read so far
  results,     \* the results so far, one per target executed
  attached,    \* evidence attached to the finished record
  edits

fabricVars == <<files, registered, plan, binding, review, scanned, results,
                attached, edits>>

Running == Len(results) < Len(plan)
target == plan[Len(results) + 1]

-----------------------------------------------------------------------------
(***************************************************************************)
(* One target.  "hash" is the artifact hash of the result, that of the     *)
(* audit's first evidence; "checked" is history: the text the tool judged, *)
(* and "answer" what it said.                                              *)
(***************************************************************************)
Inconclusive == [verdict |-> "INCONCLUSIVE", hash |-> {}, checked |-> {}, answer |-> {}]

NotScanned == [at |-> "target", hash |-> {}, violated |-> FALSE]

Record(result) ==
  /\ results' = Append(results, result)
  /\ scanned' = NotScanned
  /\ UNCHANGED <<files, registered, plan, binding, review, attached, edits>>

(* No adapter is registered, or the target names no artifact.              *)
SkipTarget ==
  /\ Running /\ scanned.at = "target"
  /\ target.key \notin registered \/ target.path = {}
  /\ Record(Inconclusive)

(* One read of the target's file, which the audit under way remembers.     *)
MayRead(from) == Running /\ scanned.at = from /\ target.key \in registered

Remember(seen) ==
  /\ scanned' = seen
  /\ UNCHANGED <<files, registered, plan, binding, review, results, attached, edits>>

(* The static scan, then the hash of its evidence, which opens the file    *)
(* anew.                                                                   *)
ScanTarget ==
  /\ MayRead("target")
  /\ \E p \in target.path :
       Remember([at |-> "scanned", hash |-> {}, violated |-> ~files[p].scan_ok])

HashTarget ==
  /\ MayRead("scanned")
  /\ \E p \in target.path :
       Remember([scanned EXCEPT !.at = "hashed", !.hash = {files[p]}])

(* Mutation: native evidence makes a formal verdict whatever the tool said.*)
adapter_verdict_lenient(kind, native, violated) ==
  IF kind = "formal" /\ native THEN "FORMALLY_CHECKED"
  ELSE IF violated THEN "REJECTED" ELSE "COMPUTATION_VERIFIED"

(* Mutation: the adapter answers in the labels of the older trust taxonomy.*)
adapter_verdict_legacy(kind, native, violated) ==
  IF violated THEN "REJECTED"
  ELSE IF native THEN "VERIFIED" ELSE "CONDITIONALLY_VERIFIED"

(* The verdict of the adapter once the audit returned with evidence.       *)
adapter_verdict(kind, native, violated) ==
  IF kind = "formal" /\ native /\ ~violated THEN "FORMALLY_CHECKED"
  ELSE IF violated THEN "REJECTED" ELSE "COMPUTATION_VERIFIED"

RunTarget ==
  /\ scanned.at = "hashed"
  /\ \E p \in target.path, answer \in Answers :
       /\ answer \in AnswersTo(target.key, files[p].native)
       /\ Record([verdict |-> adapter_verdict(target.kind,
                                 NativeEvidence(target.key, answer),
                                 scanned.violated \/ NativeViolation(target.key, answer)),
                  hash |-> scanned.hash, checked |-> {files[p]}, answer |-> {answer}])

(* The tool is not installed: the scan is all there is.                    *)
ScanOnly ==
  /\ scanned.at = "hashed"
  /\ Record([Inconclusive EXCEPT
               !.verdict = adapter_verdict(target.kind, FALSE, scanned.violated),
               !.hash = scanned.hash])

(* The audit raised - the file is gone, say - at any point of it.          *)
AdapterRaises ==
  /\ Running /\ target.key \in registered /\ target.path # {}
  /\ Record(Inconclusive)

-----------------------------------------------------------------------------
(* The record and its level.  Evidence is a set: nothing depends on order. *)

Source(name, kind) == <<name, kind>>

to_evidence(t, r) ==
  [source |-> Source(t.spelled, t.kind), kind |-> t.kind, verdict |-> r.verdict,
   foundation |-> t.foundation, group |-> t.group, claim |-> "this", hash |-> r.hash,
   human_scope |-> FALSE, independent_from |-> {}]

evidence == {to_evidence(plan[i], results[i]) : i \in 1..Len(results)} \cup attached

(* Mutation: a formal result is taken to be of the bound artifact.         *)
bindings_assumed ==
  \A i \in 1..Len(results) :
    plan[i].kind = "formal" /\ results[i].verdict = "FORMALLY_CHECKED"
      => binding.complete /\ binding.hash # {} /\ review # "unapproved"

(* validation_errors: only results of formal targets are looked at.        *)
bindings_valid ==
  \A i \in 1..Len(results) :
    plan[i].kind = "formal" /\ results[i].verdict = "FORMALLY_CHECKED"
      => /\ binding.complete /\ binding.hash # {}
         /\ results[i].hash = binding.hash
         /\ review # "unapproved"

(* Scoped evidence is of one claim and, where it names one, one artifact.  *)
one_scope(items) ==
  LET scoped == {e \in items : e.claim # "none"} IN
  \A e, f \in scoped : e.claim = f.claim /\ (e.hash = f.hash \/ {} \in {e.hash, f.hash})

independent(e, f) ==
  /\ e.source # f.source
  /\ \/ e.group # {} /\ f.group # {} /\ e.group # f.group
     \/ e.source \in f.independent_from \/ f.source \in e.independent_from

HardenedKinds == {"signature", "environment", "axiom_audit", "provenance"}

(* Mutation: a rejection is left to the verdict it concerns.               *)
refused_unsafe(items) == \E e \in items : e.verdict = "UNSAFE_TO_VERIFY"

refused(items) == \E e \in items : e.verdict \in {"REJECTED", "UNSAFE_TO_VERIFY"}

(* Mutation: the controls must be all the record has beside formal checks. *)
hardened_each(items) == \A e \in items : e.kind \in HardenedKinds \cup {"formal"}

(* Every kind occurs; with which verdict is not asked.                     *)
hardened(items) == HardenedKinds \subseteq {e.kind : e \in items}

derive_assurance(items) ==
  LET formal == {e \in items : e.verdict = "FORMALLY_CHECKED"}
      human == \E e \in items :
                 e.verdict = "HUMAN_ATTESTED" /\ (e.human_scope \/ e.claim = "none")
      base == IF formal # {} THEN 2
              ELSE IF \E e \in items : e.verdict = "COMPUTATION_VERIFIED" THEN 1 ELSE 0
      d3 == base > 0 /\ hardened(items)
      d4 == d3 /\ \E e, f \in formal : independent(e, f)
      d5 == d4 /\ \E e, f \in formal :
                    {} \notin {e.foundation, f.foundation} /\ e.foundation # f.foundation
  IN IF ~one_scope(items) \/ refused(items) THEN 0
     ELSE IF d5 /\ human THEN 6
     ELSE IF d5 THEN 5 ELSE IF d4 THEN 4 ELSE IF d3 THEN 3 ELSE base

assurance_level == IF bindings_valid THEN derive_assurance(evidence) ELSE 0

(* A caller adds to supplemental_evidence of the finished record.          *)
Attach(e) ==
  /\ ~Running
  /\ Cardinality(attached) < MaxSupplements
  /\ e \notin attached
  /\ attached' = attached \cup {e}
  /\ UNCHANGED <<files, registered, plan, binding, review, scanned, results, edits>>

EditFile(p) ==
  /\ Running /\ edits < MaxEdits
  /\ \E t \in Texts \ {files[p]} : files' = [files EXCEPT ![p] = t]
  /\ edits' = edits + 1
  /\ UNCHANGED <<registered, plan, binding, review, scanned, results, attached>>

(* The caller bound the claim to what some file held, or to nothing.       *)
FabricInit ==
  /\ files \in [Paths -> Texts]
  /\ registered \in {{}, DefaultBackends}
  /\ plan \in Plans
  /\ \E p \in Paths, complete \in BOOLEAN :
       \E hash \in {{}, {files[p]}} :
         binding = [complete |-> complete, hash |-> hash]
  /\ review \in {"none", "approved", "unapproved"}
  /\ scanned = NotScanned
  /\ results = <<>>
  /\ attached = {}
  /\ edits = 0

FabricNext ==
  \/ SkipTarget \/ ScanTarget \/ HashTarget \/ RunTarget \/ ScanOnly \/ AdapterRaises
  \/ \E e \in Supplements : Attach(e)
  \/ \E p \in Paths : EditFile(p)

FabricSpec == FabricInit /\ [][FabricNext]_fabricVars

-----------------------------------------------------------------------------
(* The shape of the state, and of every piece of evidence in it.           *)
FabricTypeOK ==
  /\ files \in [Paths -> Texts]
  /\ registered \in {{}, DefaultBackends}
  /\ plan \in Plans /\ Len(results) <= Len(plan)
  /\ binding \in [complete: BOOLEAN, hash: SUBSET Texts]
  /\ review \in {"none", "approved", "unapproved"}
  /\ scanned \in [at: {"target", "scanned", "hashed"}, hash: SUBSET Texts, violated: BOOLEAN]
  /\ \A i \in 1..Len(results) :
       results[i] \in [verdict: TrustVerdicts, hash: SUBSET Texts,
                       checked: SUBSET Texts, answer: SUBSET Answers]
  /\ attached \subseteq Supplements
  /\ edits \in 0..MaxEdits

FormalResults == {i \in 1..Len(results) : results[i].verdict = "FORMALLY_CHECKED"}

(* A formal verdict has a tool behind it: under a target that asked for a  *)
(* formal check some tool accepted, in whole or in part, what it was run   *)
(* on - the file's text, of which that is then so, or Isabelle's sessions  *)
(* beside it - and the scan objected to nothing in the artifact the result *)
(* names if nothing was saved meanwhile.                                   *)
FormalLevelHasKernel ==
  \A i \in FormalResults :
    /\ plan[i].kind = "formal"
    /\ results[i].answer # {} /\ results[i].answer \subseteq {"accepts", "accepts_some"}
    /\ plan[i].key # "isabelle" => \A t \in results[i].checked : t.native \in results[i].answer
    /\ edits = 0 => \A t \in results[i].hash : t.scan_ok

(* A level that rests on formal results is of one text: all results of the *)
(* record carry the hash the claim is bound to or none, though the files   *)
(* change between the targets of a plan.                                   *)
OneArtifactPerClaim ==
  assurance_level > 0 /\ FormalResults # {} =>
    \A i \in 1..Len(results) : results[i].hash \subseteq binding.hash

(* "Failed attempts are not erased simply because a later attempt          *)
(* succeeded": a refusal, by a tool or attached, pins the level to D0.     *)
RefusalIsFinal ==
  [][(\E e \in evidence : e.verdict = "REJECTED") => assurance_level' = 0]_fabricVars

(* The levels are monotonic: attaching evidence that is not negative and   *)
(* keeps the record to one claim and one artifact never lowers the level.  *)
Supports(e) ==
  e.verdict \notin {"REJECTED", "UNSAFE_TO_VERIFY"} /\ one_scope(evidence \cup {e})

SupportNeverLowers ==
  [][\A e \in attached' \ attached : Supports(e) => assurance_level' >= assurance_level]_fabricVars
=============================================================================
