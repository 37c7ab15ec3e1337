--------------------------- MODULE WitnessBundle ---------------------------
(***************************************************************************)
(* Witness bundles of witness_bundle.py and what they are made of: a       *)
(* traceability chain whose links a human approves, a policy, a trusted    *)
(* computing base, a witness that names the three by hash, and perhaps a   *)
(* failure record.  The parts stay objects of the caller, who may change   *)
(* them before and after the witness is made; validation_errors compares   *)
(* the hashes anew.  A hash stands for what it is of.                      *)
(***************************************************************************)
EXTENDS Naturals, Sequences

CONSTANTS
  Artifacts,  \* identifiers of traced artifacts
  MaxLinks,   \* bound: links of a chain
  MaxCalls,   \* bound: calls of approve
  MaxSwaps    \* bound: parts exchanged

ASSUME BundleAssumption == {MaxLinks, MaxCalls, MaxSwaps} \subseteq Nat

VARIABLES
  links,           \* of the traceability chain
  traced,          \* the bundle has the chain
  policy, tcb,     \* of the bundle
  failure_record,  \* the bundle has one
  witness,         \* the witness, or that there is none yet
  calls,           \* history: calls of approve, each with the links it could see
  swaps            \* parts exchanged so far

bundleVars == <<links, traced, policy, tcb, failure_record, witness, calls, swaps>>

(* A truth-implying verdict and another one.                               *)
WitnessVerdicts == {"FORMALLY_CHECKED", "EVIDENCE_SUPPORTED"}

implies_truth(verdict) == verdict = "FORMALLY_CHECKED"

(* A link needs a human if an AI proposed the claim or its formal          *)
(* statement.  Its maker may hand it over as approved; approved_at is the  *)
(* call that approved it, or 0.                                            *)
TraceLink == [artifact_id: Artifacts, requires_human_gate: BOOLEAN,
              born_approved: BOOLEAN, approved_at: {0}]

human_approved(link) == link.born_approved \/ link.approved_at > 0

(* Two policies that validate and one that does not; two computing bases   *)
(* that disclose their limitations, as all do when they are made, and one  *)
(* from which they were taken away.                                        *)
Revisions == {"first", "second", "unfit"}

(* Mutation: approvals are no part of what is hashed.                      *)
chain_hash_without_approvals(chain) ==
  [i \in 1..Len(chain) |-> [chain[i] EXCEPT !.approved_at = 0]]

chain_hash(chain) == chain

unapproved_ai_mappings(chain) ==
  {i \in 1..Len(chain) : chain[i].requires_human_gate /\ ~human_approved(chain[i])}

NoWitness == [issued |-> FALSE]

(* add: the maker of a link may say that a human approved it.              *)
AddLink(link) ==
  /\ Len(links) < MaxLinks
  /\ links' = Append(links, link)
  /\ UNCHANGED <<traced, policy, tcb, failure_record, witness, calls, swaps>>

(* approve: the first link of that name, or a KeyError.                    *)
Approve(artifact_id) ==
  LET named == {i \in 1..Len(links) : links[i].artifact_id = artifact_id} IN
  /\ Len(calls) < MaxCalls
  /\ calls' = Append(calls, [of |-> artifact_id, upto |-> Len(links)])
  /\ IF named = {} THEN UNCHANGED links
     ELSE \E first \in named :
            /\ \A i \in named : first <= i
            /\ links' = [links EXCEPT ![first].approved_at = Len(calls) + 1]
  /\ UNCHANGED <<traced, policy, tcb, failure_record, witness, swaps>>

(* The caller makes a witness of what the parts are now; it may leave the  *)
(* chain's hash out.  "before" is history.                                 *)
IssueWitness(verdict, bound) ==
  /\ ~witness.issued
  /\ witness' = [issued |-> TRUE, verdict |-> verdict,
                 policy_hash |-> policy, tcb_hash |-> tcb,
                 traceability_hash |-> [given |-> bound,
                                        of |-> IF bound THEN chain_hash(links) ELSE <<>>],
                 before |-> [calls |-> calls, links |-> links]]
  /\ UNCHANGED <<links, traced, policy, tcb, failure_record, calls, swaps>>

(* The bundle gets another part, or loses its chain, or a failure is       *)
(* recorded in it.                                                         *)
ChangeParts ==
  /\ swaps < MaxSwaps /\ swaps' = swaps + 1
  /\ \/ policy' \in Revisions \ {policy} /\ UNCHANGED <<tcb, traced, failure_record>>
     \/ tcb' \in Revisions \ {tcb} /\ UNCHANGED <<policy, traced, failure_record>>
     \/ traced' = ~traced /\ UNCHANGED <<policy, tcb, failure_record>>
     \/ ~failure_record /\ failure_record' = TRUE /\ UNCHANGED <<policy, tcb, traced>>
  /\ UNCHANGED <<links, witness, calls>>

(* validation_errors is empty.                                             *)
is_valid ==
  /\ policy # "unfit"
  /\ witness.policy_hash = policy
  /\ witness.tcb_hash = tcb
  /\ traced =>
       /\ witness.traceability_hash = [given |-> TRUE, of |-> chain_hash(links)]
       /\ ~(unapproved_ai_mappings(links) # {} /\ implies_truth(witness.verdict))
  /\ implies_truth(witness.verdict) => tcb # "unfit" /\ ~failure_record

BundleInit ==
  /\ links = <<>> /\ traced = TRUE
  /\ policy \in Revisions /\ tcb \in Revisions \ {"unfit"}
  /\ failure_record = FALSE
  /\ witness = NoWitness
  /\ calls = <<>> /\ swaps = 0

BundleStep ==
  \/ \E link \in TraceLink : AddLink(link)
  \/ \E artifact_id \in Artifacts : Approve(artifact_id)
  \/ \E verdict \in WitnessVerdicts, bound \in BOOLEAN : IssueWitness(verdict, bound)
  \/ ChangeParts

BundleSpec == BundleInit /\ [][BundleStep]_bundleVars

-----------------------------------------------------------------------------
(* "AI proposals are metadata labeled AI_PROPOSED until human-approved"    *)
(* (docs/TRUST_MODEL.md): in a valid bundle with a chain and a verdict     *)
(* that implies truth, every link that an AI proposed was there when the   *)
(* witness was made, and a call of approve before that named it when it    *)
(* was in the chain, unless its maker had it approved; no approval that    *)
(* came later, or for an earlier link of that name, makes up for it.       *)
TruthIsApproved ==
  witness.issued /\ is_valid /\ traced /\ implies_truth(witness.verdict) =>
    \A i \in 1..Len(links) :
      links[i].requires_human_gate /\ ~links[i].born_approved =>
        /\ i <= Len(witness.before.links)
        /\ \E k \in 1..Len(witness.before.calls) :
             LET call == witness.before.calls[k] IN
             call.of = links[i].artifact_id /\ i <= call.upto
        /\ \A j \in 1..(i - 1) : links[j].artifact_id # links[i].artifact_id
=============================================================================
