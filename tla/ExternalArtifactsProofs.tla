----------------------- MODULE ExternalArtifactsProofs -----------------------
(* Proofs about ExternalArtifacts, for any artifacts, policies and number  *)
(* of processes: the gates accept what they should, and so does exit 0.    *)
EXTENDS ExternalArtifacts, TLAPS

Statuses == {"passed", "failed", "not_applicable"}

-----------------------------------------------------------------------------
(* The verdict of gates that were all decided: one passed and none failed. *)
LEMMA VerdictOfGates ==
  ASSUME NEW gates, \A g \in gates : g[2] \in Statuses
  PROVE  overall_verdict(gates) = "passed"
           <=> (\E g \in gates : g[2] = "passed") /\ (\A g \in gates : g[2] # "failed")
<1>1. {g[2] : g \in gates} = {} <=> gates = {}
  OBVIOUS
<1>2. "failed" \in {g[2] : g \in gates} <=> \E g \in gates : g[2] = "failed"
  OBVIOUS
<1>3. "unavailable" \notin {g[2] : g \in gates}
  BY DEF Statuses
<1>4. {g[2] : g \in gates} = {"not_applicable"}
        <=> gates # {} /\ \A g \in gates : g[2] = "not_applicable"
  OBVIOUS
<1> QED
  BY <1>1, <1>2, <1>3, <1>4 DEF overall_verdict, Statuses

-----------------------------------------------------------------------------
(* What each gate common to both schemas fails for.                        *)
LEMMA ProvenanceGate ==
  ASSUME NEW doc, NEW policy
  PROVE  LET s == document_provenance_gate(doc, policy)
             prov == resolve_document_provenance(doc)
         IN /\ s \in Statuses
            /\ s # "failed" <=> /\ prov.there \/ doc.schema = "resnova"
                                /\ prov.repo # NoRepo /\ prov.commit_ok
                                /\ policy.expected # NoRepo => prov.repo = policy.expected
  BY DEF document_provenance_gate, Judge, Statuses

(* No claim without a name, and no name twice.                              *)
LEMMA IdsGate ==
  ASSUME NEW doc
  PROVE  LET s == claim_ids_unique_gate(doc) IN
         /\ s \in Statuses
         /\ s # "failed" <=>
              /\ \A i \in Objects(doc) : doc.claims[i].claim_id # ""
              /\ \A i, j \in Objects(doc) :
                   doc.claims[i].claim_id = doc.claims[j].claim_id => i = j
  BY DEF claim_ids_unique_gate, Judge, Statuses

(* Claims agree with the document if the policy asks for it.               *)
LEMMA AgreementGate ==
  ASSUME NEW doc, NEW policy
  PROVE  LET s == claim_provenance_gate(doc, policy) IN
         /\ s \in Statuses
         /\ s # "failed" <=>
              (policy.match => \A i \in Objects(doc) : Agrees(doc, doc.claims[i]))
  BY DEF claim_provenance_gate, Statuses

(* A proved claim is declared as checked.                                  *)
LEMMA ProvedGate ==
  ASSUME NEW doc
  PROVE  LET s == proved_verification_gate(doc) IN
         /\ s \in Statuses
         /\ s # "failed" <=> \A i \in Objects(doc) :
                               doc.claims[i].status = "proved" => Checked(doc.claims[i])
  BY DEF proved_verification_gate, StatusGate, Judge, Statuses

-----------------------------------------------------------------------------
(* A catalogue passes the gates if and only if it is admissible.           *)
LEMMA LeibnizExact ==
  ASSUME NEW doc, NEW policy, doc.schema = "leibniz",
         ~doc.document_provenance.there => doc.document_provenance.repo = NoRepo
  PROVE  Verdict(doc, policy) = "passed" <=> Admissible(doc, policy)
<1> DEFINE shape == <<"schema_shape", Judge(doc.listed)>>
           gates == {shape} \cup LeibnizGates(doc, policy)
<1>1. CASE ~doc.listed
  <2>1. run_gates(doc, policy) = {shape} /\ shape[2] = "failed"
    BY <1>1 DEF run_gates, Judge
  <2> HIDE DEF shape
  <2>2. overall_verdict({shape}) # "passed"
    BY <2>1, VerdictOfGates DEF Statuses
  <2> QED
    BY <1>1, <2>1, <2>2 DEF Verdict, Admissible
<1>2. CASE doc.listed
  <2>1. run_gates(doc, policy) = gates
    BY <1>2 DEF run_gates
  <2>2. shape[2] = "passed"
    BY <1>2 DEF Judge
  <2>3. claim_shape_gate(doc) \in Statuses
        /\ (claim_shape_gate(doc) # "failed"
              <=> \A i \in 1..Len(doc.claims) :
                    /\ doc.claims[i].object /\ doc.claims[i].named
                    /\ doc.claims[i].status \in LeibnizStatuses
                    /\ doc.claims[i].provenance.there)
    BY DEF claim_shape_gate, Judge, Statuses
  <2>4. /\ document_provenance_gate(doc, policy) \in Statuses
        /\ claim_ids_unique_gate(doc) \in Statuses
        /\ claim_provenance_gate(doc, policy) \in Statuses
        /\ proved_verification_gate(doc) \in Statuses
    BY ProvenanceGate, IdsGate, AgreementGate, ProvedGate
  <2>5. \A g \in gates : g[2] \in Statuses
    <3>1. shape[2] \in Statuses
      BY <2>2 DEF Statuses
    <3>2. \A g \in LeibnizGates(doc, policy) : g[2] \in Statuses
      BY <2>3, <2>4 DEF LeibnizGates
    <3> QED
      BY <3>1, <3>2
  <2>6. (\A g \in gates : g[2] # "failed")
          <=> /\ document_provenance_gate(doc, policy) # "failed"
              /\ claim_ids_unique_gate(doc) # "failed"
              /\ claim_shape_gate(doc) # "failed"
              /\ claim_provenance_gate(doc, policy) # "failed"
              /\ proved_verification_gate(doc) # "failed"
    BY <2>2 DEF LeibnizGates
  <2>7. \E g \in gates : g[2] = "passed"
    BY <2>2
  <2> HIDE DEF gates
  <2>8. Verdict(doc, policy) = "passed" <=> \A g \in gates : g[2] # "failed"
    BY <2>1, <2>5, <2>7, VerdictOfGates DEF Verdict
  <2>9. resolve_document_provenance(doc) = doc.document_provenance
    BY DEF resolve_document_provenance
  <2>10. document_provenance_gate(doc, policy) # "failed"
           <=> LET prov == resolve_document_provenance(doc) IN
               prov.repo # NoRepo /\ prov.commit_ok /\ policy.expected \in {NoRepo, prov.repo}
    BY <2>9, ProvenanceGate
  <2>11. claim_shape_gate(doc) # "failed"
           <=> /\ Objects(doc) = 1..Len(doc.claims)
               /\ \A i \in Objects(doc) :
                    /\ doc.claims[i].named /\ doc.claims[i].status \in LeibnizStatuses
                    /\ doc.claims[i].provenance.there
    BY <2>3 DEF Objects
  <2>12. (\A i \in Objects(doc) : Vouched(doc, policy, doc.claims[i]))
           <=> /\ \A i \in Objects(doc) : doc.claims[i].claim_id # ""
               /\ policy.match => \A i \in Objects(doc) : Agrees(doc, doc.claims[i])
               /\ \A i \in Objects(doc) :
                    /\ doc.claims[i].named /\ doc.claims[i].status \in LeibnizStatuses
                    /\ doc.claims[i].provenance.there
               /\ \A i \in Objects(doc) :
                    doc.claims[i].status = "proved" => Checked(doc.claims[i])
    BY DEF Vouched, Checked
  <2>13. Admissible(doc, policy) <=> \A g \in gates : g[2] # "failed"
    BY <1>2, <2>6, <2>10, <2>11, <2>12, IdsGate, AgreementGate, ProvedGate DEF Admissible
  <2> QED
    BY <2>8, <2>13
<1> QED
  BY <1>1, <1>2

-----------------------------------------------------------------------------
(* What each gate of the atlas fails for.                                  *)
LEMMA LocatorGate ==
  ASSUME NEW doc
  PROVE  LET s == source_locator_gate(doc) IN
         /\ s \in Statuses
         /\ s # "failed" <=> \A i \in Objects(doc) : doc.claims[i].locators
  BY DEF source_locator_gate, Judge, Statuses

(* A status is one of the vocabulary.                                      *)
LEMMA ControlledGate ==
  ASSUME NEW doc
  PROVE  LET s == controlled_status_gate(doc) IN
         /\ s \in Statuses
         /\ s # "failed" <=> \A i \in Objects(doc) : doc.claims[i].status \in ResNovaStatuses
  BY DEF controlled_status_gate, Judge, Statuses

(* Each status has a gate for what a claim of it has to carry.             *)
LEMMA DerivedGate ==
  ASSUME NEW doc
  PROVE  LET s == derived_evidence_gate(doc) IN
         /\ s \in Statuses
         /\ s # "failed" <=> \A i \in Objects(doc) :
                               doc.claims[i].status = "derived" => Derived(doc.claims[i])
  BY DEF derived_evidence_gate, StatusGate, Judge, Statuses

(* Likewise of a test record,                                              *)
LEMMA EmpiricalGate ==
  ASSUME NEW doc
  PROVE  LET s == empirically_supported_gate(doc) IN
         /\ s \in Statuses
         /\ s # "failed" <=> \A i \in Objects(doc) :
                               doc.claims[i].status = "empirically_supported" => EmpiricallySupported(doc.claims[i])
  BY DEF empirically_supported_gate, StatusGate, Judge, Statuses

(* of conditions,                                                          *)
LEMMA ConditionalGate ==
  ASSUME NEW doc
  PROVE  LET s == conditional_gate(doc) IN
         /\ s \in Statuses
         /\ s # "failed" <=> \A i \in Objects(doc) :
                               doc.claims[i].status = "conditional" => Conditional(doc.claims[i])
  BY DEF conditional_gate, StatusGate, Judge, Statuses

(* of a source,                                                            *)
LEMMA ProposalGate ==
  ASSUME NEW doc
  PROVE  LET s == proposal_gate(doc) IN
         /\ s \in Statuses
         /\ s # "failed" <=> \A i \in Objects(doc) :
                               doc.claims[i].status = "proposal" => Proposal(doc.claims[i])
  BY DEF proposal_gate, StatusGate, Judge, Statuses

(* of the open problem,                                                    *)
LEMMA OpenGate ==
  ASSUME NEW doc
  PROVE  LET s == open_gate(doc) IN
         /\ s \in Statuses
         /\ s # "failed" <=> \A i \in Objects(doc) :
                               doc.claims[i].status = "open" => Open(doc.claims[i])
  BY DEF open_gate, StatusGate, Judge, Statuses

(* and of what contradicts the claim.                                      *)
LEMMA RefutedGate ==
  ASSUME NEW doc
  PROVE  LET s == refuted_gate(doc) IN
         /\ s \in Statuses
         /\ s # "failed" <=> \A i \in Objects(doc) :
                               doc.claims[i].status = "refuted" => Refuted(doc.claims[i])
  BY DEF refuted_gate, StatusGate, Judge, Statuses

-----------------------------------------------------------------------------
(* An atlas passes the gates if and only if it is admissible.              *)
LEMMA ResNovaExact ==
  ASSUME NEW doc, NEW policy, doc.schema = "resnova"
  PROVE  Verdict(doc, policy) = "passed" <=> Admissible(doc, policy)
<1> DEFINE shape == <<"schema_shape", Judge(doc.listed)>>
           gates == {shape} \cup ResNovaGates(doc, policy)
<1>1. CASE ~doc.listed
  <2>1. run_gates(doc, policy) = {shape} /\ shape[2] = "failed"
    BY <1>1 DEF run_gates, Judge
  <2> HIDE DEF shape
  <2>2. overall_verdict({shape}) # "passed"
    BY <2>1, VerdictOfGates DEF Statuses
  <2> QED
    BY <1>1, <2>1, <2>2 DEF Verdict, Admissible
<1>2. CASE doc.listed
  <2>1. run_gates(doc, policy) = gates
    BY <1>2 DEF run_gates
  <2>2. shape[2] = "passed"
    BY <1>2 DEF Judge
  <2>3. /\ document_provenance_gate(doc, policy) \in Statuses
        /\ claim_ids_unique_gate(doc) \in Statuses
        /\ source_locator_gate(doc) \in Statuses
        /\ controlled_status_gate(doc) \in Statuses
        /\ claim_provenance_gate(doc, policy) \in Statuses
        /\ derived_evidence_gate(doc) \in Statuses
        /\ empirically_supported_gate(doc) \in Statuses
        /\ conditional_gate(doc) \in Statuses
        /\ proposal_gate(doc) \in Statuses
        /\ open_gate(doc) \in Statuses
        /\ refuted_gate(doc) \in Statuses
    BY ProvenanceGate, IdsGate, AgreementGate, LocatorGate, ControlledGate,
       DerivedGate, EmpiricalGate, ConditionalGate, ProposalGate, OpenGate, RefutedGate
  <2>4. \A g \in gates : g[2] \in Statuses
    <3>1. shape[2] \in Statuses
      BY <2>2 DEF Statuses
    <3>2. \A g \in ResNovaGates(doc, policy) : g[2] \in Statuses
      BY <2>3 DEF ResNovaGates
    <3> QED
      BY <3>1, <3>2
  <2>5. (\A g \in gates : g[2] # "failed")
          <=> /\ document_provenance_gate(doc, policy) # "failed"
              /\ claim_ids_unique_gate(doc) # "failed"
              /\ source_locator_gate(doc) # "failed"
              /\ controlled_status_gate(doc) # "failed"
              /\ claim_provenance_gate(doc, policy) # "failed"
              /\ derived_evidence_gate(doc) # "failed"
              /\ empirically_supported_gate(doc) # "failed"
              /\ conditional_gate(doc) # "failed"
              /\ proposal_gate(doc) # "failed"
              /\ open_gate(doc) # "failed"
              /\ refuted_gate(doc) # "failed"
    BY <2>2 DEF ResNovaGates
  <2>6. \E g \in gates : g[2] = "passed"
    BY <2>2
  <2> HIDE DEF gates
  <2>7. Verdict(doc, policy) = "passed" <=> \A g \in gates : g[2] # "failed"
    BY <2>1, <2>4, <2>6, VerdictOfGates DEF Verdict
  <2>8. document_provenance_gate(doc, policy) # "failed"
          <=> LET prov == resolve_document_provenance(doc) IN
              prov.repo # NoRepo /\ prov.commit_ok /\ policy.expected \in {NoRepo, prov.repo}
    BY ProvenanceGate
  <2>9. (\A i \in Objects(doc) : doc.claims[i].locators)
          => \A i \in Objects(doc) : doc.claims[i].status = "proposal" => Proposal(doc.claims[i])
    BY DEF Proposal
  <2>10. (\A i \in Objects(doc) : Vouched(doc, policy, doc.claims[i]))
           <=> /\ \A i \in Objects(doc) : doc.claims[i].claim_id # ""
               /\ policy.match => \A i \in Objects(doc) : Agrees(doc, doc.claims[i])
               /\ \A i \in Objects(doc) : doc.claims[i].locators
               /\ \A i \in Objects(doc) : doc.claims[i].status \in ResNovaStatuses
               /\ \A i \in Objects(doc) : doc.claims[i].status = "derived" => Derived(doc.claims[i])
               /\ \A i \in Objects(doc) : doc.claims[i].status = "empirically_supported"
                                            => EmpiricallySupported(doc.claims[i])
               /\ \A i \in Objects(doc) :
                    doc.claims[i].status = "conditional" => Conditional(doc.claims[i])
               /\ \A i \in Objects(doc) : doc.claims[i].status = "open" => Open(doc.claims[i])
               /\ \A i \in Objects(doc) : doc.claims[i].status = "refuted" => Refuted(doc.claims[i])
    BY DEF Vouched, Conditional
  <2>11. Admissible(doc, policy) <=> \A g \in gates : g[2] # "failed"
    BY <1>2, <2>5, <2>8, <2>9, <2>10, IdsGate, AgreementGate, LocatorGate, ControlledGate,
       DerivedGate, EmpiricalGate, ConditionalGate, ProposalGate, OpenGate, RefutedGate
       DEF Admissible
  <2> QED
    BY <2>7, <2>11
<1> QED
  BY <1>1, <1>2

(* The gates pass what is admissible and nothing else.                     *)
THEOREM GatesAreExact ==
  ASSUME NEW text \in Texts, NEW policy, text.schema \in Schemas
  PROVE  Verdict(text, policy) = "passed" <=> Admissible(text, policy)
  BY ExternalAssumption, LeibnizExact, ResNovaExact DEF ExternalAssumption, Schemas

-----------------------------------------------------------------------------
(* A claim alone in a document that names its repository.                  *)
LEMMA AloneAdmissible ==
  ASSUME NEW text \in Texts, NEW policy, NEW i \in 1..Len(text.claims),
         text.schema \in Schemas, text.listed, text.document_provenance.there
  PROVE  LET prov == text.document_provenance
             c == text.claims[i]
         IN Verdict(Alone(text, i), policy) = "passed"
              <=> /\ prov.repo # NoRepo /\ prov.commit_ok
                  /\ policy.expected \in {NoRepo, prov.repo}
                  /\ text.schema = "leibniz" => c.object
                  /\ c.object => Vouched(text, policy, c)
<1> DEFINE one == Alone(text, i)
<1>1. /\ one.schema = text.schema /\ one.listed = text.listed
      /\ one.document_provenance = text.document_provenance
      /\ Len(one.claims) = 1 /\ one.claims[1] = text.claims[i]
  BY DEF Alone
<1> HIDE DEF one
<1>2. resolve_document_provenance(one) = text.document_provenance
      /\ resolve_document_provenance(text) = text.document_provenance
  BY <1>1 DEF resolve_document_provenance
<1>3. Verdict(one, policy) = "passed" <=> Admissible(one, policy)
  BY <1>1, LeibnizExact, ResNovaExact DEF Schemas
<1>4. \A j : j \in Objects(one) <=> j = 1 /\ text.claims[i].object
  BY <1>1 DEF Objects
<1>5. Objects(one) = 1..Len(one.claims) <=> text.claims[i].object
  <2>1. 1..Len(one.claims) = {1}
    BY <1>1
  <2>2. CASE text.claims[i].object
    <3>1. Objects(one) = {1}
      BY <1>4, <2>2
    <3> QED
      BY <2>1, <2>2, <3>1
  <2>3. CASE ~text.claims[i].object
    <3>1. 1 \notin Objects(one)
      BY <1>4, <2>3
    <3> QED
      BY <2>1, <2>3, <3>1
  <2> QED
    BY <2>2, <2>3
<1>6. Vouched(one, policy, text.claims[i]) <=> Vouched(text, policy, text.claims[i])
  BY <1>1, <1>2 DEF Vouched, Agrees
<1>7. Admissible(one, policy)
        <=> LET prov == text.document_provenance
                c == text.claims[i]
            IN /\ prov.repo # NoRepo /\ prov.commit_ok
               /\ policy.expected \in {NoRepo, prov.repo}
               /\ text.schema = "leibniz" => c.object
               /\ c.object => Vouched(text, policy, c)
  BY <1>1, <1>2, <1>4, <1>5, <1>6 DEF Admissible
<1> QED
  BY <1>3, <1>7 DEF one

(* A document passes if and only if its claims do and have names of their  *)
(* own.                                                                    *)
THEOREM ClaimsAreJudgedAlone ==
  ASSUME NEW text \in Texts, NEW policy, text.schema \in Schemas,
         text.listed, text.document_provenance.there, Len(text.claims) > 0
  PROVE  Verdict(text, policy) = "passed"
           <=> /\ \A i \in 1..Len(text.claims) : Verdict(Alone(text, i), policy) = "passed"
               /\ \A i, j \in Objects(text) :
                    text.claims[i].claim_id = text.claims[j].claim_id => i = j
<1>1. Verdict(text, policy) = "passed" <=> Admissible(text, policy)
  BY GatesAreExact
<1>2. resolve_document_provenance(text) = text.document_provenance
  BY DEF resolve_document_provenance
<1>3. Len(text.claims) \in Nat
  BY ExternalAssumption DEF ExternalAssumption
<1>4. 1 \in 1..Len(text.claims)
  BY <1>3
<1>5. Admissible(text, policy)
        <=> LET prov == text.document_provenance IN
            /\ prov.repo # NoRepo /\ prov.commit_ok
            /\ policy.expected \in {NoRepo, prov.repo}
            /\ \A i \in 1..Len(text.claims) :
                 /\ text.schema = "leibniz" => text.claims[i].object
                 /\ text.claims[i].object => Vouched(text, policy, text.claims[i])
            /\ \A i, j \in Objects(text) :
                 text.claims[i].claim_id = text.claims[j].claim_id => i = j
  BY <1>2 DEF Admissible, Objects
<1>6. \A i \in 1..Len(text.claims) :
        Verdict(Alone(text, i), policy) = "passed"
          <=> LET prov == text.document_provenance
                  c == text.claims[i]
              IN /\ prov.repo # NoRepo /\ prov.commit_ok
                 /\ policy.expected \in {NoRepo, prov.repo}
                 /\ text.schema = "leibniz" => c.object
                 /\ c.object => Vouched(text, policy, c)
  BY AloneAdmissible
<1> QED
  BY <1>1, <1>4, <1>5, <1>6

-----------------------------------------------------------------------------
(* A process past the gates has their result, and its code is of it.       *)
HasResult ==
  \A v \in Verifiers :
    pc[v] \in {"check", "open", "write"} \/ exit[v] \in {0, 1} => bundle[v] # <<>>

CodeIsOfVerdict ==
  \A v \in Verifiers :
    exit[v] \in {0, 1} => (exit[v] = 0 <=> bundle[v][1].verdict = "passed")

ExternalIInv == ExternalTypeOK /\ HasResult /\ CodeIsOfVerdict /\ NamesTellTheText

(* The result of a process is one.                                         *)
LEMMA OneResult ==
  ASSUME ExternalTypeOK, NEW v \in Verifiers, bundle[v] # <<>>
  PROVE  bundle[v][1] \in Judgements
  BY DEF ExternalTypeOK

(* A result is of a text with an adapter, and its verdict is the gates'.   *)
LEMMA ResultOfGates ==
  ASSUME NEW b \in Judgements
  PROVE  /\ b.text \in Texts /\ b.text.schema \in Schemas
         /\ b.verdict = Verdict(b.text, b.policy)
  BY DEF Judgements, verify_artifact_file

(* The invariant holds at first,                                           *)
LEMMA ExternalInitially == ExternalInit => ExternalIInv
<1> SUFFICES ASSUME ExternalInit PROVE ExternalIInv
  OBVIOUS
<1>1. ExternalTypeOK
  BY ExternalAssumption DEF ExternalInit, ExternalTypeOK, ExternalAssumption
<1>2. HasResult /\ CodeIsOfVerdict /\ NamesTellTheText
  BY DEF ExternalInit, HasResult, CodeIsOfVerdict, NamesTellTheText
<1> QED
  BY <1>1, <1>2 DEF ExternalIInv

(* and every step preserves it.                                            *)
LEMMA ExternalStep == ExternalIInv /\ [ExternalNext]_artifactVars => ExternalIInv'
<1> SUFFICES ASSUME ExternalIInv, [ExternalNext]_artifactVars PROVE ExternalIInv'
  OBVIOUS
<1>1. ASSUME NEW v \in Verifiers, Begin(v) PROVE ExternalIInv'
  BY <1>1 DEF ExternalIInv, ExternalTypeOK, HasResult, CodeIsOfVerdict, NamesTellTheText, Begin
<1>2. ASSUME NEW v \in Verifiers, RefuseArtifact(v) PROVE ExternalIInv'
  BY <1>2 DEF ExternalIInv, ExternalTypeOK, HasResult, CodeIsOfVerdict, NamesTellTheText, RefuseArtifact, Exit
<1>3. ASSUME NEW v \in Verifiers, LoadRaises(v) PROVE ExternalIInv'
  BY <1>3 DEF ExternalIInv, ExternalTypeOK, HasResult, CodeIsOfVerdict, NamesTellTheText, LoadRaises
<1>4. ASSUME NEW v \in Verifiers, Verify(v) PROVE ExternalIInv'
  <2>1. artifact[2] \in Texts /\ artifact[2].schema \in Schemas
    BY <1>4 DEF ExternalIInv, ExternalTypeOK, Verify, Json, Unreadable
  <2>2. verify_artifact_file(artifact[2], req[v].policy) \in Judgements
    BY <2>1 DEF ExternalIInv, ExternalTypeOK, Judgements
  <2> QED
    BY <1>4, <2>2 DEF ExternalIInv, ExternalTypeOK, HasResult, CodeIsOfVerdict,
         NamesTellTheText, Verify
<1>5. ASSUME NEW v \in Verifiers, RefuseOutput(v) PROVE ExternalIInv'
  BY <1>5 DEF ExternalIInv, ExternalTypeOK, HasResult, CodeIsOfVerdict, NamesTellTheText, RefuseOutput, Exit
<1>6. ASSUME NEW v \in Verifiers, AcceptOutput(v) PROVE ExternalIInv'
  BY <1>6 DEF ExternalIInv, ExternalTypeOK, HasResult, CodeIsOfVerdict, NamesTellTheText, AcceptOutput
<1>7. ASSUME NEW v \in Verifiers, OpenBundle(v) PROVE ExternalIInv'
  BY <1>7 DEF ExternalIInv, ExternalTypeOK, HasResult, CodeIsOfVerdict, NamesTellTheText, OpenBundle, StoreWith, Empty
<1>8. ASSUME NEW v \in Verifiers, WriteBundle(v) PROVE ExternalIInv'
  <2>1. bundle[v] # <<>> /\ bundle[v][1] \in Judgements
    BY <1>8, OneResult DEF ExternalIInv, HasResult, WriteBundle
  <2>2. PICK file \in {Whole(bundle[v][1]), Torn} : store' = StoreWith(OutputPath(v), file)
    BY <1>8 DEF WriteBundle
  <2>3. ExternalTypeOK'
    BY <1>8, <2>2 DEF ExternalIInv, ExternalTypeOK, WriteBundle, Exit, StoreWith, Whole, Torn
  <2>4. HasResult' /\ CodeIsOfVerdict'
    BY <1>8, <2>1 DEF ExternalIInv, ExternalTypeOK, HasResult, CodeIsOfVerdict, WriteBundle, Exit
  <2>5. NamesTellTheText'
    BY <2>2 DEF ExternalIInv, NamesTellTheText, StoreWith, OutputPath, Whole, Torn
  <2> QED
    BY <2>3, <2>4, <2>5 DEF ExternalIInv
<1>9. ASSUME NEW v \in Verifiers, Die(v) PROVE ExternalIInv'
  BY <1>9, ExternalAssumption DEF ExternalIInv, ExternalTypeOK, HasResult, CodeIsOfVerdict, NamesTellTheText, Die, StoreWith, Torn, ExternalAssumption
<1>10. CASE EditArtifact
  BY <1>10, ExternalAssumption DEF ExternalIInv, ExternalTypeOK, HasResult, CodeIsOfVerdict, NamesTellTheText, EditArtifact, ExternalAssumption
<1>11. CASE UNCHANGED artifactVars
  BY <1>11 DEF ExternalIInv, ExternalTypeOK, HasResult, CodeIsOfVerdict, NamesTellTheText, artifactVars
<1> QED
  BY <1>1, <1>2, <1>3, <1>4, <1>5, <1>6, <1>7, <1>8, <1>9, <1>10, <1>11
     DEF ExternalNext, VerifierStep

(* The inductive invariant, for any artifacts, requests and processes.     *)
THEOREM ExternalInvariant == ExternalSpec => []ExternalIInv
  BY ExternalInitially, ExternalStep, PTL DEF ExternalSpec

(* Every variable keeps its shape, and a code is there when a run is done. *)
THEOREM ExternalTypeCorrect == ExternalSpec => []ExternalTypeOK
<1>1. ExternalIInv => ExternalTypeOK
  BY DEF ExternalIInv
<1> QED
  BY <1>1, ExternalInvariant, PTL

(* Exit code 0 is given to the admissible artifacts, of those judged.      *)
THEOREM PassedAlwaysAdmissible == ExternalSpec => []PassedIsAdmissible
<1>1. ExternalIInv => PassedIsAdmissible
  <2> SUFFICES ASSUME ExternalIInv, NEW v \in Verifiers, exit[v] \in {0, 1}
               PROVE  exit[v] = 0 <=> Admissible(bundle[v][1].text, bundle[v][1].policy)
    BY DEF PassedIsAdmissible
  <2>1. bundle[v][1] \in Judgements
    BY OneResult DEF ExternalIInv, HasResult
  <2>2. exit[v] = 0 <=> bundle[v][1].verdict = "passed"
    BY DEF ExternalIInv, CodeIsOfVerdict
  <2> QED
    BY <2>1, <2>2, ResultOfGates, GatesAreExact
<1> QED
  BY <1>1, ExternalInvariant, PTL

(* No failing claim is made up for by the others of its artifact.          *)
THEOREM NoClaimEverHides == ExternalSpec => []NoClaimHides
<1>1. ExternalIInv => NoClaimHides
  <2> SUFFICES ASSUME ExternalIInv, NEW v \in Verifiers, exit[v] \in {0, 1},
                      bundle[v][1].text.listed,
                      bundle[v][1].text.document_provenance.there,
                      Len(bundle[v][1].text.claims) > 0
               PROVE  LET text == bundle[v][1].text
                          policy == bundle[v][1].policy
                      IN exit[v] = 0 <=>
                           /\ \A i \in 1..Len(text.claims) :
                                Verdict(Alone(text, i), policy) = "passed"
                           /\ \A i, j \in Objects(text) :
                                text.claims[i].claim_id = text.claims[j].claim_id => i = j
    BY DEF NoClaimHides
  <2>1. bundle[v][1] \in Judgements
    BY OneResult DEF ExternalIInv, HasResult
  <2>2. exit[v] = 0 <=> bundle[v][1].verdict = "passed"
    BY DEF ExternalIInv, CodeIsOfVerdict
  <2> QED
    BY <2>1, <2>2, ResultOfGates, ClaimsAreJudgedAlone
<1> QED
  BY <1>1, ExternalInvariant, PTL

(* A bundle under a derived name is about the text of that name.           *)
THEOREM NamesAlwaysTell == ExternalSpec => []NamesTellTheText
<1>1. ExternalIInv => NamesTellTheText
  BY DEF ExternalIInv
<1> QED
  BY <1>1, ExternalInvariant, PTL

-----------------------------------------------------------------------------
(* A file left unfinished is got past by nobody without --overwrite.       *)
LEMMA UnfinishedStep ==
  ASSUME ExternalTypeOK, [ExternalNext]_artifactVars, NEW n \in DOMAIN store, Abandoned(n)
  PROVE  \/ Abandoned(n)'
         \/ \E v \in Verifiers : pc'[v] = "open" /\ req[v].overwrite /\ OutputPath(v) = n
<1> DEFINE Goal == \/ Abandoned(n)'
                   \/ \E v \in Verifiers :
                        pc'[v] = "open" /\ req[v].overwrite /\ OutputPath(v) = n
<1>1. ASSUME NEW v \in Verifiers, Begin(v) PROVE Goal
  BY <1>1 DEF Begin, Abandoned, Exists, OutputPath, ExternalTypeOK
<1>2. ASSUME NEW v \in Verifiers, RefuseArtifact(v) PROVE Goal
  BY <1>2 DEF RefuseArtifact, Exit, Abandoned, Exists, OutputPath, ExternalTypeOK
<1>3. ASSUME NEW v \in Verifiers, LoadRaises(v) PROVE Goal
  BY <1>3 DEF LoadRaises, Abandoned, Exists, OutputPath, ExternalTypeOK
<1>4. ASSUME NEW v \in Verifiers, Verify(v) PROVE Goal
  BY <1>4 DEF Verify, Abandoned, Exists, OutputPath, ExternalTypeOK
<1>5. ASSUME NEW v \in Verifiers, RefuseOutput(v) PROVE Goal
  BY <1>5 DEF RefuseOutput, Exit, Abandoned, Exists, OutputPath, ExternalTypeOK
<1>6. ASSUME NEW v \in Verifiers, AcceptOutput(v) PROVE Goal
  BY <1>6 DEF AcceptOutput, Abandoned, Exists, OutputPath, ExternalTypeOK
<1>7. ASSUME NEW v \in Verifiers, OpenBundle(v) PROVE Goal
  BY <1>7 DEF OpenBundle, StoreWith, Abandoned, Exists, OutputPath, ExternalTypeOK
<1>8. ASSUME NEW v \in Verifiers, WriteBundle(v) PROVE Goal
  BY <1>8 DEF WriteBundle, Exit, StoreWith, Abandoned, Exists, OutputPath, ExternalTypeOK
<1>9. ASSUME NEW v \in Verifiers, Die(v) PROVE Goal
  BY <1>9 DEF Die, StoreWith, Abandoned, Exists, OutputPath, ExternalTypeOK
<1>10. CASE EditArtifact
  BY <1>10 DEF EditArtifact, Abandoned, Exists, OutputPath
<1>11. CASE UNCHANGED artifactVars
  BY <1>11 DEF artifactVars, Abandoned, Exists, OutputPath
<1> QED
  BY <1>1, <1>2, <1>3, <1>4, <1>5, <1>6, <1>7, <1>8, <1>9, <1>10, <1>11
     DEF ExternalNext, VerifierStep

(* UnfinishedStep, of every step of a behaviour.                           *)
THEOREM UnfinishedAlwaysStays == ExternalSpec => UnfinishedStays
<1>1. ExternalTypeOK /\ [ExternalNext]_artifactVars
        => [\A n \in DOMAIN store :
              Abandoned(n) =>
                \/ Abandoned(n)'
                \/ \E v \in Verifiers :
                     pc'[v] = "open" /\ req[v].overwrite /\ OutputPath(v) = n]_artifactVars
  BY UnfinishedStep
<1> QED
  BY <1>1, ExternalTypeCorrect, PTL DEF ExternalSpec, UnfinishedStays
=============================================================================
