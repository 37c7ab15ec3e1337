---------------------------- MODULE ClaimConsumer ----------------------------
(***************************************************************************)
(* claim_consumer.py: a bundle of claims that another repository publishes *)
(* is judged.  Each claim is turned into evidence, by what its manifest    *)
(* says of itself, and derive_assurance gives it a level, one claim after  *)
(* the other.  Evidence that cannot be constructed raises out of           *)
(* judge_bundle; a level that cannot be derived is D0 with an error.       *)
(***************************************************************************)
EXTENDS ProofFabric

CONSTANTS
  Manifests,   \* claims a bundle may hold
  MaxClaims    \* bound: claims of a bundle

(* What the judge reads of a claim.  "hash" is that of its first artifact, *)
(* "unknown" if it has none; "number" stands for one that is no string.    *)
(* claim_id, statement and prover are given or empty; "says" are the parts *)
(* of verification the manifest fills in.                                  *)
Manifest ==
  [epistemic_tier: {"[P]", "[D]", "[O]"}, pass: BOOLEAN,
   hash: {"sha256", "unknown", "number"},
   claim_id: BOOLEAN, statement: BOOLEAN, prover: BOOLEAN,
   says: SUBSET {"axiom_audit", "environment"}]

ASSUME ConsumerAssumption == Manifests \subseteq Manifest /\ MaxClaims \in Nat

VARIABLES
  bundle,   \* the claims
  levels,   \* the levels of the claims judged so far
  judge     \* "judging", "returned", "raised"

consumerVars == <<bundle, levels, judge>>

-----------------------------------------------------------------------------
(* Mutation: a proof may be of an artifact nobody knows.                   *)
concrete_hash_any(claim) == TRUE

concrete_hash(claim) == claim.hash = "sha256"

(* The kind and the verdict of the evidence a claim's tier stands for.     *)
primary(claim) ==
  IF claim.epistemic_tier = "[P]" /\ claim.pass /\ concrete_hash(claim)
  THEN [kind |-> "formal", verdict |-> "FORMALLY_CHECKED"]
  ELSE IF claim.epistemic_tier = "[D]"
  THEN [kind |-> "computation", verdict |-> "COMPUTATION_VERIFIED"]
  ELSE [kind |-> "proposal", verdict |-> "INCONCLUSIVE"]

Supported == [axiom_audit |-> "axiom-audit", environment |-> "environment"]

(* _build_evidence: all of it is of the claim, if the claim has a name.    *)
build_evidence(claim) ==
  LET Item(source, kind, verdict) ==
        [source |-> Source(source, kind), kind |-> kind, verdict |-> verdict,
         foundation |-> IF kind = "formal" THEN {"lean4"} ELSE {}, group |-> {},
         claim |-> IF claim.claim_id THEN "this" ELSE "none",
         hash |-> IF claim.hash = "sha256" THEN {"sha256"} ELSE {},
         human_scope |-> FALSE, independent_from |-> {}]
  IN {Item("prover", primary(claim).kind, primary(claim).verdict)}
     \cup {Item(Supported[kind], kind, "EVIDENCE_SUPPORTED") : kind \in claim.says}

(* VerificationEvidence takes a claim only with its statement, no empty    *)
(* source, and no formal verdict on a named claim without an artifact.     *)
EvidenceRaises(claim) ==
  \/ claim.claim_id # claim.statement
  \/ ~claim.prover
  \/ /\ claim.claim_id /\ claim.hash = "unknown"
     /\ primary(claim).verdict = "FORMALLY_CHECKED"

(* The hash of evidence on a named claim is put into lower case.           *)
LevelRaises(claim) == claim.claim_id /\ claim.hash = "number"

-----------------------------------------------------------------------------
next_claim == bundle[Len(levels) + 1]

Judging == judge = "judging" /\ Len(levels) < Len(bundle)

JudgeClaim ==
  /\ Judging /\ ~EvidenceRaises(next_claim)
  /\ levels' = Append(levels, IF LevelRaises(next_claim) THEN 0
                              ELSE derive_assurance(build_evidence(next_claim)))
  /\ UNCHANGED <<bundle, judge>>

JudgeRaises ==
  /\ Judging /\ EvidenceRaises(next_claim)
  /\ judge' = "raised"
  /\ UNCHANGED <<bundle, levels>>

ReturnLevels ==
  /\ judge = "judging" /\ Len(levels) = Len(bundle)
  /\ judge' = "returned"
  /\ UNCHANGED <<bundle, levels>>

ConsumerInit ==
  /\ bundle \in UNION {[1..n -> Manifests] : n \in 0..MaxClaims}
  /\ levels = <<>>
  /\ judge = "judging"

ConsumerStep == JudgeClaim \/ JudgeRaises \/ ReturnLevels

ConsumerSpec == ConsumerInit /\ [][ConsumerStep]_consumerVars

-----------------------------------------------------------------------------
(* "Missing hardening metadata means the claim cannot climb past D2": what *)
(* a manifest says of itself never earns more than that, D2 takes a proof  *)
(* that passed of an artifact with a hash, and D1 a computation, whether   *)
(* the claim has a name or is legacy evidence.  The levels that are        *)
(* returned are those of all claims of the bundle; one that cannot be      *)
(* evidence leaves the whole bundle without any.                           *)
JudgeIsSober ==
  /\ \A i \in 1..Len(levels) :
       LET claim == bundle[i] IN
       /\ levels[i] <= 2
       /\ levels[i] = 2 => claim.epistemic_tier = "[P]" /\ claim.pass /\ claim.hash = "sha256"
       /\ levels[i] = 1 => claim.epistemic_tier = "[D]"
  /\ judge = "returned" =>
       /\ Len(levels) = Len(bundle)
       /\ \A i \in 1..Len(bundle) : bundle[i].prover /\ bundle[i].claim_id = bundle[i].statement
=============================================================================
