---------------------------- MODULE MCProofFabric ----------------------------
(***************************************************************************)
(* Instances of ProofFabric and ClaimConsumer for TLC.  The consumer only  *)
(* shares derive_assurance with the fabric: bundles are judged while no    *)
(* plan is executed, and plans are executed with no bundle at hand.        *)
(***************************************************************************)
EXTENDS ClaimConsumer

FabricTexts == {[scan_ok |-> TRUE, native |-> "accepts"],
                [scan_ok |-> TRUE, native |-> "rejects"],
                [scan_ok |-> FALSE, native |-> "accepts"],
                [scan_ok |-> TRUE, native |-> "none"]}

Check(spelled, key, kind, paths, group) ==
  [spelled |-> spelled, key |-> key, kind |-> kind, path |-> paths,
   group |-> group, foundation |-> group]

Control(kind) == Check("audit", "audit_tool", kind, {}, {})

LeanOn(paths) == Check("Lean 4", "lean", "formal", paths, {"cic"})
IsabelleOn(paths) == Check("Isabelle", "isabelle", "formal", paths, {"hol"})
RocqOn(paths) == Check("Coq", "rocq", "formal", paths, {"coq"})
PythonOn(paths) == Check("Python & Mathematical CAS", "python", "computation", paths, {})

(* One check of each sort, on one file and on two; two formal checks with  *)
(* the four controls; and the controls with a computation alone.           *)
FabricPlans ==
  {<<LeanOn({"a"})>>, <<IsabelleOn({"a"})>>,
   <<RocqOn({"a"}), PythonOn({"b"})>>,
   <<LeanOn({"a"}), Check("lean 4", "lean", "formal", {}, {"cic"}), Control("signature")>>,
   <<LeanOn({"a"}), RocqOn({"a"}), Control("signature"), Control("environment"),
     Control("axiom_audit"), Control("provenance")>>,
   <<PythonOn({"a"}), Control("signature"), Control("environment"),
     Control("axiom_audit"), Control("provenance")>>}

Evidence(source, kind, verdict, claim) ==
  [source |-> Source(source, kind), kind |-> kind, verdict |-> verdict,
   foundation |-> {}, group |-> {}, claim |-> claim, hash |-> {},
   human_scope |-> FALSE, independent_from |-> {}]

(* What people and other tools attach: a scoped and a legacy human review, *)
(* a legacy formal check, a refusal, a control, evidence of another claim. *)
FabricSupplements ==
  {[Evidence("reviewer", "human_review", "HUMAN_ATTESTED", "this")
      EXCEPT !.human_scope = TRUE],
   [Evidence("metamath", "formal", "FORMALLY_CHECKED", "none")
      EXCEPT !.group = {"mm"}, !.foundation = {"zfc"}],
   Evidence("policy", "provenance", "REJECTED", "this"),
   Evidence("runner", "environment", "EXECUTION_OBSERVED", "none"),
   Evidence("reviewer", "human_review", "HUMAN_ATTESTED", "other")}

(* A claim that is named and stated, or neither, or one of the two; those  *)
(* whose evidence raises need not differ in anything else.                 *)
FabricManifests ==
  {claim \in Manifest :
     (claim.claim_id = claim.statement /\ claim.prover) \/ claim.says = {}}

FabricRests ==
  /\ plan = <<>> /\ registered = {} /\ review = "none"
  /\ files = [p \in Paths |-> [scan_ok |-> TRUE, native |-> "accepts"]]
  /\ binding = [complete |-> FALSE, hash |-> {}]
  /\ scanned = NotScanned /\ results = <<>> /\ attached = {} /\ edits = 0

MCFabricInit ==
  /\ ConsumerInit
  /\ \/ bundle = <<>> /\ FabricInit
     \/ bundle # <<>> /\ FabricRests

MCFabricNext ==
  \/ bundle = <<>> /\ FabricNext /\ UNCHANGED consumerVars
  \/ bundle # <<>> /\ ConsumerStep /\ UNCHANGED fabricVars

MCFabricSpec == MCFabricInit /\ [][MCFabricNext]_<<fabricVars, consumerVars>>
=============================================================================
