------------------------- MODULE MCEvidenceRecords -------------------------
(***************************************************************************)
(* The kinds of record that outlive an audit - witness files with their    *)
(* human review, witness bundles, the evidence ledger, manifests that are  *)
(* signed, Merkle trees, and the bundles of external artifacts - in one    *)
(* run.  They share no state and no code calls one from another, so a      *)
(* behaviour takes one of them and leaves the others as they began.        *)
(***************************************************************************)
EXTENDS HumanReview, EvidenceLedger, WitnessBundle, SignedManifests, MCExternalArtifacts

VARIABLE record  \* the kind of record this behaviour is about

(* The first state of a part that rests.                                   *)
ReviewRests == witness_file = [p \in Paths |-> Holding("absent", Nothing)]
BundleRests == policy = "first" /\ tcb = "first"
ManifestRests == manifest = Unsigned("yes")
TreeRests == leaves = <<>>
ArtifactRests == artifact = Json(GoodCatalogue)

TwoSigners == {[name |-> "kp1", algorithm |-> "ed25519"],
               [name |-> "kp2", algorithm |-> "hmac-sha256"]}

TwoItems == {[kind |-> "witness", content |-> "c1"], [kind |-> "failure", content |-> "c2"]}

(* At most one file holds a witness, or all of them hold one that waits    *)
(* for its review.                                                         *)
Kept == {p \in Paths : witness_file[p].status = "whole"}

Awaiting == generate_witness(TRUE, <<>>, FALSE)

ReviewStarts == Cardinality(Kept) <= 1 \/ \A p \in Kept : witness_file[p].witness = Awaiting

MCInit ==
  /\ record \in {"review", "ledger", "bundle", "manifest", "tree", "artifact"}
  /\ ReviewInit /\ ReviewStarts /\ (record # "review" => ReviewRests)
  /\ EvidenceInit
  /\ BundleInit /\ (record # "bundle" => BundleRests)
  /\ ManifestInit
  /\ record # "manifest" => ManifestRests
  /\ record # "tree" => TreeRests
  /\ ExternalInit /\ (record # "artifact" => ArtifactRests)

MCNext ==
  /\ UNCHANGED record
  /\ \/ /\ record = "review" /\ ReviewNext
        /\ UNCHANGED <<evidenceVars, bundleVars, manifestVars, artifactVars>>
     \/ /\ record = "ledger" /\ EvidenceStep
        /\ UNCHANGED <<reviewVars, bundleVars, manifestVars, artifactVars>>
     \/ /\ record = "bundle" /\ BundleStep
        /\ UNCHANGED <<reviewVars, evidenceVars, manifestVars, artifactVars>>
     \/ /\ record = "manifest" /\ ManifestStep
        /\ UNCHANGED <<reviewVars, evidenceVars, bundleVars, artifactVars>>
     \/ /\ record = "artifact" /\ ExternalNext
        /\ UNCHANGED <<reviewVars, evidenceVars, bundleVars, manifestVars>>

MCSpec ==
  MCInit /\ [][MCNext]_<<record, reviewVars, evidenceVars, bundleVars, manifestVars, artifactVars>>

EvidenceSymmetry == Permutations(Reviewers) \cup Permutations(Artifacts) \cup AnyProcess
=============================================================================
