---------------------------- MODULE ArtifactGates ----------------------------
(***************************************************************************)
(* The gates of external_artifacts/leibniz_adapter.py and                  *)
(* resnova_adapter.py over an artifact of another repository, and their    *)
(* verdict (models.py).  Of a field the model keeps whether it is there    *)
(* and what the gates compare it with.                                     *)
(***************************************************************************)
EXTENDS Naturals, Sequences, FiniteSets

CONSTANT Repos      \* names of repositories

NoRepo == ""

(* repo, commit and path, under either of their names; "there" if the      *)
(* field is an object.                                                     *)
Provenance == [there: BOOLEAN, repo: Repos \cup {NoRepo}, commit_ok: BOOLEAN]

(* "object" is FALSE of an entry of the array that is not an object.       *)
LeibnizClaim ==
  [object: BOOLEAN, claim_id: STRING, named: BOOLEAN, status: STRING, provenance: Provenance,
   verified: BOOLEAN, project_check: STRING, declaration_check: STRING]

ResNovaClaim ==
  [object: BOOLEAN, claim_id: STRING, status: STRING, provenance: Provenance,
   locators: BOOLEAN, evidence: SUBSET STRING, assumptions: BOOLEAN, limitations: BOOLEAN,
   falsifiable: BOOLEAN, scope: BOOLEAN, current_result: STRING]

Schemas == {"leibniz", "resnova"}

(* "listed" if claims is an array; "generation_ok" if the generation block *)
(* has a commit.                                                           *)
Document(Claim) ==
  [schema: STRING, listed: BOOLEAN, claims: Seq(Claim),
   document_provenance: Provenance, generation_ok: BOOLEAN]

Policy == [expected: Repos \cup {NoRepo}, match: BOOLEAN]

Judge(ok) == IF ok THEN "passed" ELSE "failed"

Objects(doc) == {i \in 1..Len(doc.claims) : doc.claims[i].object}

-----------------------------------------------------------------------------
(* resnova_adapter: the repository most claims name, the first such.       *)
Naming(doc, repo) ==
  {i \in Objects(doc) : doc.claims[i].provenance.there /\ doc.claims[i].provenance.repo = repo}

MajorityRepo(doc) ==
  LET named == {r \in Repos : Naming(doc, r) # {}}
      Earlier(r, s) == \E i \in Naming(doc, r) : \A j \in Naming(doc, s) : i < j
      Before(r, s) == \/ Cardinality(Naming(doc, r)) > Cardinality(Naming(doc, s))
                      \/ /\ Cardinality(Naming(doc, r)) = Cardinality(Naming(doc, s))
                         /\ Earlier(r, s)
  IN IF named = {} THEN NoRepo
     ELSE CHOOSE r \in named : \A s \in named \ {r} : Before(r, s)

resolve_document_provenance(doc) ==
  IF doc.document_provenance.there \/ doc.schema = "leibniz" THEN doc.document_provenance
  ELSE [there |-> FALSE, repo |-> MajorityRepo(doc), commit_ok |-> doc.generation_ok]

document_provenance_gate(doc, policy) ==
  LET prov == resolve_document_provenance(doc) IN
  Judge(/\ prov.there \/ doc.schema = "resnova"
        /\ prov.repo # NoRepo
        /\ policy.expected # NoRepo => prov.repo = policy.expected
        /\ prov.commit_ok)

claim_ids_unique_gate(doc) ==
  Judge(/\ \A i \in Objects(doc) : doc.claims[i].claim_id # ""
        /\ \A i, j \in Objects(doc) : doc.claims[i].claim_id = doc.claims[j].claim_id => i = j)

(* The 4Leibniz gate leaves claims without provenance to the gate of the   *)
(* required fields, the Res-Nova gate objects to them.                     *)
Agrees(doc, c) ==
  IF c.provenance.there
  THEN /\ c.provenance.commit_ok
       /\ LET repo == resolve_document_provenance(doc).repo IN
          repo # NoRepo /\ c.provenance.repo # NoRepo => c.provenance.repo = repo
  ELSE doc.schema = "leibniz"

claim_provenance_gate(doc, policy) ==
  IF ~policy.match THEN "not_applicable"
  ELSE IF \E i \in Objects(doc) : ~Agrees(doc, doc.claims[i]) THEN "failed"
  ELSE IF resolve_document_provenance(doc).repo = NoRepo THEN "not_applicable"
  ELSE "passed"

(* A gate about the claims of one status.                                  *)
StatusGate(doc, status, Suffices(_)) ==
  LET relevant == {i \in Objects(doc) : doc.claims[i].status = status} IN
  IF relevant = {} THEN "not_applicable"
  ELSE Judge(\A i \in relevant : Suffices(doc.claims[i]))

-----------------------------------------------------------------------------
LeibnizStatuses == {"proved", "conditional", "informal", "open_problem"}

(* Mutation: the loop ends with the first claim.                           *)
claim_shape_gate_first(doc) ==
  Judge(Len(doc.claims) > 0 =>
          LET c == doc.claims[1] IN
          c.object /\ c.named /\ c.status \in LeibnizStatuses /\ c.provenance.there)

claim_shape_gate(doc) ==
  Judge(\A i \in 1..Len(doc.claims) :
          LET c == doc.claims[i] IN
          c.object /\ c.named /\ c.status \in LeibnizStatuses /\ c.provenance.there)

Checked(c) ==
  c.verified /\ {c.project_check, c.declaration_check} \subseteq {"passed", "not_applicable"}

proved_verification_gate(doc) == StatusGate(doc, "proved", Checked)

LeibnizGates(doc, policy) ==
  {<<"document_provenance", document_provenance_gate(doc, policy)>>,
   <<"claim_ids", claim_ids_unique_gate(doc)>>,
   <<"claim_required_fields", claim_shape_gate(doc)>>,
   <<"claim_provenance_agreement", claim_provenance_gate(doc, policy)>>,
   <<"proved_claims_have_verification", proved_verification_gate(doc)>>}

-----------------------------------------------------------------------------
ResNovaStatuses ==
  {"derived", "empirically_supported", "conditional", "proposal", "open", "refuted"}

source_locator_gate(doc) == Judge(\A i \in Objects(doc) : doc.claims[i].locators)

controlled_status_gate(doc) ==
  Judge(\A i \in Objects(doc) : doc.claims[i].status \in ResNovaStatuses)

Derived(c) ==
  c.evidence \cap {"derivation", "calculation", "formal_proof"} # {} /\ c.assumptions

derived_evidence_gate(doc) == StatusGate(doc, "derived", Derived)

EmpiricallySupported(c) ==
  /\ c.evidence \cap {"observational_data", "reproduction_run"} # {}
  /\ c.falsifiable /\ c.scope /\ c.current_result # ""

empirically_supported_gate(doc) ==
  StatusGate(doc, "empirically_supported", EmpiricallySupported)

Conditional(c) == c.assumptions

conditional_gate(doc) == StatusGate(doc, "conditional", Conditional)

Proposal(c) == c.locators

proposal_gate(doc) == StatusGate(doc, "proposal", Proposal)

Open(c) == (c.falsifiable /\ c.scope) \/ c.limitations

open_gate(doc) == StatusGate(doc, "open", Open)

Refuted(c) ==
  c.falsifiable /\ c.current_result \in {"contradicted", "failed"} /\ c.evidence # {}

refuted_gate(doc) == StatusGate(doc, "refuted", Refuted)

ResNovaGates(doc, policy) ==
  {<<"document_provenance", document_provenance_gate(doc, policy)>>,
   <<"claim_ids", claim_ids_unique_gate(doc)>>,
   <<"source_locators_present", source_locator_gate(doc)>>,
   <<"controlled_epistemic_status", controlled_status_gate(doc)>>,
   <<"claim_provenance_agreement", claim_provenance_gate(doc, policy)>>,
   <<"derived_requires_derivation_evidence", derived_evidence_gate(doc)>>,
   <<"empirically_supported_requires_test_record", empirically_supported_gate(doc)>>,
   <<"conditional_names_conditions", conditional_gate(doc)>>,
   <<"proposal_not_overclaimed", proposal_gate(doc)>>,
   <<"open_identifies_unresolved_problem", open_gate(doc)>>,
   <<"refuted_retained_with_evidence", refuted_gate(doc)>>}

run_gates(doc, policy) ==
  {<<"schema_shape", Judge(doc.listed)>>} \cup
    (IF ~doc.listed THEN {}
     ELSE IF doc.schema = "leibniz" THEN LeibnizGates(doc, policy)
     ELSE ResNovaGates(doc, policy))

(* Mutation: a gate that passed hides one that did not.                    *)
overall_verdict_best(gates) ==
  IF \E g \in gates : g[2] = "passed" THEN "passed" ELSE "failed"

overall_verdict(gates) ==
  LET statuses == {g[2] : g \in gates} IN
  IF statuses = {} THEN "unavailable"
  ELSE IF "failed" \in statuses THEN "failed"
  ELSE IF "unavailable" \in statuses THEN "unavailable"
  ELSE IF statuses = {"not_applicable"} THEN "not_applicable"
  ELSE "passed"

Verdict(doc, policy) == overall_verdict(run_gates(doc, policy))
=============================================================================
