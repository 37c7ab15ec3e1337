----------------------- MODULE EvidenceRecordsProofs -----------------------
(***************************************************************************)
(* Proofs about the records people sign and keep: HumanReview for any      *)
(* files, people and numbers of commands and edits, EvidenceLedger for any *)
(* payloads and bounds, WitnessBundle for any artifacts and bounds, and    *)
(* SignedManifests for any keys, sayings, leaves and bounds.               *)
(*                                                                         *)
(* A review is earned in every copy of a witness - in a file, whole or     *)
(* not, and in the memory of a command - because the history of            *)
(* attestations only grows (WitnessesEarned). A link is approved at a call *)
(* that could see it and named it first, and what was so for the links the *)
(* witness was made of is never changed (ApprovalsRight). A seal that was  *)
(* made is over what some signing saw, whatever manifest it is put on      *)
(* (SealsMade).                                                            *)
(*                                                                         *)
(* The chain of the evidence ledger is right because the list holds edges  *)
(* of the tree of successors in the order they were made, all of them or   *)
(* not (ChainInv): the highest of those that are gone was made below the   *)
(* tip or beside an entry that is marked (LossIsSeen). The root of a       *)
(* Merkle tree names its leaves because a node names its children: what    *)
(* two trees share at the top they share in every layer down to the        *)
(* leaves. Both rest on inductions over numbers, done on sets of them      *)
(* (SetInduction).                                                         *)
(***************************************************************************)
EXTENDS HumanReview, EvidenceLedger, WitnessBundle, SignedManifests,
        FiniteSetTheorems, WellFoundedInduction, TLAPS

-----------------------------------------------------------------------------
(* Of a review.                                                            *)

(* Earned, of a witness and the attestations that were made by a time.     *)
EarnedBy(w, attestations) ==
  w.genuine =>
    /\ verify_witness_hash(w)
    /\ Attestations(w.body) \subseteq Attestations(w.issued) \cup attestations
    /\ w.body.open # w.issued.open =>
         \E a \in Attestations(w.body) \cap attestations : a.accepted

(* What a command holds.                                                   *)
Carried == [at: {"read", "opened"}, to: Paths, held: Witness]

ReviewInv ==
  /\ witness_file \in [Paths -> [status: Statuses, witness: Witness]]
  /\ reviewer \in [Reviewers -> {Idle} \cup Carried]
  /\ made \subseteq Attestation /\ IsFiniteSet(made)
  /\ edited \in 0..MaxEdits
  /\ \A p \in Paths : EarnedBy(witness_file[p].witness, made)
  /\ \A r \in Reviewers : reviewer[r] # Idle => EarnedBy(reviewer[r].held, made)

(* A witness an audit generates has its seal and nobody's review.          *)
LEMMA GeneratedEarned ==
  ASSUME NEW require \in BOOLEAN, NEW signoff \in Signoffs, NEW missing \in BOOLEAN
  PROVE  /\ generate_witness(require, signoff, missing) \in Witness
         /\ EarnedBy(generate_witness(require, signoff, missing), {})
<1> DEFINE w == generate_witness(require, signoff, missing)
           open == (IF require /\ signoff = <<>> THEN {"Human review required"} ELSE {})
                     \cup (IF missing THEN {"HUMAN_ATTESTATION_MISSING"} ELSE {})
           body == [open |-> open, human_attestations |-> signoff]
<1>1. signoff \in Seq(Attestation)
  <2>1. CASE signoff = <<>>
    BY <2>1
  <2>2. CASE signoff # <<>>
    <3>1. PICK r \in Reviewers, a \in BOOLEAN :
                 signoff = <<[signer |-> r, number |-> 0, accepted |-> a]>>
      BY <2>2 DEF Signoffs
    <3>2. [signer |-> r, number |-> 0, accepted |-> a] \in Attestation
      BY DEF Attestation
    <3> QED BY <3>1, <3>2
  <2> QED BY <2>1, <2>2
<1>2. open \in SUBSET OpenPoints
  BY DEF OpenPoints
<1>3. w = [body |-> body, witness_hash |-> body, issued |-> body, genuine |-> TRUE]
  BY DEF generate_witness
<1> HIDE DEF open, w
<1>4. body \in Body
  BY <1>1, <1>2 DEF Body
<1> HIDE DEF body
<1>5. w \in Witness /\ w.body = w.issued /\ w.witness_hash = w.body
  BY <1>3, <1>4 DEF Witness
<1>6. EarnedBy(w, {})
  BY <1>5 DEF EarnedBy, verify_witness_hash, Attestations
<1> QED BY <1>5, <1>6 DEF w

(* What was made stays made.                                               *)
LEMMA EarnedGrows ==
  ASSUME NEW w, NEW before, NEW after, EarnedBy(w, before), before \subseteq after
  PROVE  EarnedBy(w, after)
BY DEF EarnedBy

(* An attestation added to an earned witness keeps it earned.              *)
LEMMA AttestationEarned ==
  ASSUME NEW w \in Witness, NEW before, EarnedBy(w, before), NEW a \in Attestation
  PROVE  /\ add_human_attestation(w, a) \in Witness
         /\ EarnedBy(add_human_attestation(w, a), before \cup {a})
<1> DEFINE open == IF a.accepted THEN {} ELSE w.body.open
           signed == Append(w.body.human_attestations, a)
           body == [open |-> open, human_attestations |-> signed]
           v == add_human_attestation(w, a)
<1>1. w.body \in Body /\ w.issued \in Body
  BY DEF Witness
<1>2. /\ w.body.human_attestations \in Seq(Attestation)
      /\ w.body.open \in SUBSET OpenPoints
  BY <1>1 DEF Body
<1>3. signed \in Seq(Attestation) /\ open \in SUBSET OpenPoints
  BY <1>2
<1>4. v = recompute_hash([w EXCEPT !.body = body])
  BY DEF add_human_attestation
<1>5. Attestations(body) = Attestations(w.body) \cup {a}
  BY <1>2 DEF Attestations
<1> HIDE DEF open, signed, v
<1>6. body \in Body
  BY <1>3 DEF Body
<1>7. body.open = open
  OBVIOUS
<1> HIDE DEF body
<1>8. /\ v \in Witness
      /\ v.body = body /\ v.witness_hash = body /\ v.issued = w.issued /\ v.genuine = w.genuine
  <2> DEFINE u == [w EXCEPT !.body = body]
  <2>1. u \in Witness /\ u.body = body /\ u.issued = w.issued /\ u.genuine = w.genuine
    BY <1>6 DEF Witness
  <2> HIDE DEF u
  <2>2. v = [u EXCEPT !.witness_hash = u.body]
    BY <1>4 DEF recompute_hash, u
  <2> QED BY <2>1, <2>2, <1>6 DEF Witness
<1>9. ASSUME v.genuine
      PROVE  /\ Attestations(v.body) \subseteq Attestations(v.issued) \cup (before \cup {a})
             /\ v.body.open # v.issued.open =>
                  \E b \in Attestations(v.body) \cap (before \cup {a}) : b.accepted
  <2>1. /\ Attestations(w.body) \subseteq Attestations(w.issued) \cup before
        /\ w.body.open # w.issued.open =>
             \E b \in Attestations(w.body) \cap before : b.accepted
    BY <1>8, <1>9 DEF EarnedBy
  <2>2. CASE a.accepted
    BY <2>1, <2>2, <1>5, <1>8
  <2>3. CASE ~a.accepted
    BY <2>1, <2>3, <1>5, <1>7, <1>8 DEF open
  <2> QED BY <2>2, <2>3
<1>10. EarnedBy(v, before \cup {a})
  BY <1>8, <1>9 DEF EarnedBy, verify_witness_hash, Attestations
<1> QED BY <1>8, <1>10 DEF v

(* A review starts with the witnesses of audits.                           *)
LEMMA ReviewStart == ReviewInit => ReviewInv
<1> SUFFICES ASSUME ReviewInit PROVE ReviewInv
  OBVIOUS
<1>1. \A p \in Paths : \E require, missing \in BOOLEAN, signoff \in Signoffs,
                          status \in {"whole", "absent"} :
        witness_file[p] = Holding(status, generate_witness(require, signoff, missing))
  <2>1. PICK kept \in SUBSET Paths, w \in [Paths -> Generated] :
               witness_file = [p \in Paths |->
                 IF p \in kept THEN Holding("whole", w[p]) ELSE Holding("absent", Nothing)]
    BY DEF ReviewInit
  <2>2. <<>> \in Signoffs
    BY DEF Signoffs
  <2>3. TAKE p \in Paths
  <2>4. CASE p \in kept
    <3>1. PICK require \in BOOLEAN, signoff \in Signoffs, missing \in BOOLEAN :
                 w[p] = generate_witness(require, signoff, missing)
      BY DEF Generated
    <3> QED BY <2>1, <2>4, <3>1
  <2>5. CASE p \notin kept
    BY <2>1, <2>2, <2>5 DEF Nothing
  <2> QED BY <2>4, <2>5
<1>2. \A p \in Paths : /\ witness_file[p] \in [status: Statuses, witness: Witness]
                       /\ EarnedBy(witness_file[p].witness, made)
  <2>1. TAKE p \in Paths
  <2>2. PICK require \in BOOLEAN, signoff \in Signoffs, missing \in BOOLEAN,
              status \in {"whole", "absent"} :
          witness_file[p] = Holding(status, generate_witness(require, signoff, missing))
    BY <1>1
  <2>3. status \in Statuses
    BY DEF Statuses
  <2> DEFINE w == generate_witness(require, signoff, missing)
  <2>4. w \in Witness /\ EarnedBy(w, made)
    BY GeneratedEarned DEF ReviewInit
  <2>5. witness_file[p] = [status |-> status, witness |-> w]
    BY <2>2 DEF Holding
  <2> HIDE DEF w
  <2> QED BY <2>3, <2>4, <2>5
<1>3. IsFiniteSet({}) /\ made = {} /\ edited = 0 /\ edited \in 0..MaxEdits
  BY FS_EmptySet, ReviewAssumption DEF ReviewInit
<1>4. \A r \in Reviewers : reviewer[r] = Idle
  BY DEF ReviewInit
<1>5. DOMAIN witness_file = Paths /\ reviewer \in [Reviewers -> {Idle} \cup Carried]
      /\ witness_file \in [Paths -> [status: Statuses, witness: Witness]]
  BY <1>2 DEF ReviewInit
<1> QED BY <1>2, <1>3, <1>4, <1>5 DEF ReviewInv

(* What an edit leaves is still the body of a witness.                     *)
LEMMA EditedBody ==
  ASSUME NEW body \in Body
  PROVE  [body EXCEPT !.open = {}] \in Body /\ [body EXCEPT !.human_attestations = <<>>] \in Body
<1>1. [body EXCEPT !.open = {}] \in Body
  BY DEF Body
<1>2. \A signed \in Seq(Attestation) : [body EXCEPT !.human_attestations = signed] \in Body
  BY DEF Body
<1>3. <<>> \in Seq(Attestation)
  OBVIOUS
<1> QED BY <1>1, <1>2, <1>3

(* Every step of a command, and every edit, keeps what a review has to     *)
(* show.                                                                   *)
LEMMA ReviewStep == ReviewInv /\ [ReviewNext]_reviewVars => ReviewInv'
<1> SUFFICES ASSUME ReviewInv, [ReviewNext]_reviewVars PROVE ReviewInv'
  OBVIOUS
<1>0. /\ \A p \in Paths : /\ witness_file[p] \in [status: Statuses, witness: Witness]
                          /\ EarnedBy(witness_file[p].witness, made)
      /\ \A r \in Reviewers : reviewer[r] # Idle =>
           reviewer[r] \in Carried /\ EarnedBy(reviewer[r].held, made)
      /\ Idle.at = "idle"
  BY DEF ReviewInv, Idle
<1>1. ASSUME NEW r \in Reviewers, NEW from \in Paths, NEW to \in Paths,
             ReadWitness(r, from, to)
      PROVE  ReviewInv'
  <2> DEFINE entry == [at |-> "read", to |-> to, held |-> witness_file[from].witness]
  <2>1. entry \in Carried /\ entry.held = witness_file[from].witness
    BY <1>0 DEF Carried
  <2>2. /\ reviewer' = [reviewer EXCEPT ![r] = entry]
        /\ UNCHANGED <<witness_file, made, edited>>
    BY <1>1 DEF ReadWitness
  <2> HIDE DEF entry
  <2>3. reviewer' \in [Reviewers -> {Idle} \cup Carried]
    BY <2>1, <2>2 DEF ReviewInv
  <2>4. \A q \in Reviewers : reviewer'[q] # Idle => EarnedBy(reviewer'[q].held, made)
    BY <2>1, <2>2, <1>0 DEF ReviewInv
  <2> QED BY <2>2, <2>3, <2>4 DEF ReviewInv
<1>2. ASSUME NEW r \in Reviewers, NEW accepted \in BOOLEAN, OpenOutput(r, accepted)
      PROVE  ReviewInv'
  <2> DEFINE a == [signer |-> r, number |-> Cardinality(made) + 1, accepted |-> accepted]
             to == reviewer[r].to
             held == reviewer[r].held
             sealed == add_human_attestation(held, a)
             entry == [at |-> "opened", to |-> to, held |-> sealed]
  <2>1. a \in Attestation
    BY FS_CardinalityType DEF Attestation, ReviewInv
  <2>2. reviewer[r] \in Carried /\ EarnedBy(held, made) /\ held \in Witness /\ to \in Paths
    BY <1>0, <1>2 DEF OpenOutput, Carried
  <2>3. /\ made' = made \cup {a} /\ edited' = edited
        /\ witness_file' = [witness_file EXCEPT ![to].status = "empty"]
        /\ reviewer' = [reviewer EXCEPT ![r] = entry]
    <3>1. made' = made \cup {a} /\ edited' = edited
      BY <1>2 DEF OpenOutput
    <3>2. witness_file' = [witness_file EXCEPT ![to].status = "empty"]
      BY <1>2 DEF OpenOutput
    <3>3. reviewer' = [reviewer EXCEPT ![r] = entry]
      BY <1>2 DEF OpenOutput
    <3> QED BY <3>1, <3>2, <3>3
  <2> HIDE DEF a, to, held
  <2>4. sealed \in Witness /\ EarnedBy(sealed, made')
    BY <2>1, <2>2, <2>3, AttestationEarned
  <2> HIDE DEF sealed
  <2>5. entry \in Carried /\ entry.held = sealed
    BY <2>2, <2>4 DEF Carried
  <2> HIDE DEF entry
  <2>6. made' \subseteq Attestation /\ IsFiniteSet(made') /\ made \subseteq made'
    BY <2>1, <2>3, FS_AddElement DEF ReviewInv
  <2>7. reviewer' \in [Reviewers -> {Idle} \cup Carried]
    BY <2>3, <2>5 DEF ReviewInv
  <2>8. \A q \in Reviewers : reviewer'[q] # Idle => EarnedBy(reviewer'[q].held, made')
    <3>1. TAKE q \in Reviewers
    <3>2. CASE q = r
      <4>1. reviewer'[q].held = sealed
        BY <2>3, <2>5, <3>2 DEF ReviewInv
      <4> QED BY <4>1, <2>4 
    <3>3. CASE q # r
      <4>1. reviewer'[q] = reviewer[q]
        BY <2>3, <3>3 DEF ReviewInv
      <4> QED BY <4>1, <1>0, <2>6, EarnedGrows 
    <3> QED BY <3>2, <3>3
  <2>9. \A p \in Paths : /\ witness_file'[p] \in [status: Statuses, witness: Witness]
                         /\ witness_file'[p].witness = witness_file[p].witness
    BY <2>3, <1>0 DEF ReviewInv, Statuses
  <2>10. witness_file' \in [Paths -> [status: Statuses, witness: Witness]]
    BY <2>3, <2>9 DEF ReviewInv
  <2>11. \A p \in Paths : EarnedBy(witness_file'[p].witness, made')
    BY <2>6, <2>9, <1>0, EarnedGrows
  <2> QED BY <2>3, <2>6, <2>7, <2>8, <2>10, <2>11
          DEF ReviewInv
<1>3. ASSUME NEW r \in Reviewers, WriteWitness(r) PROVE ReviewInv'
  <2> DEFINE to == reviewer[r].to
             held == reviewer[r].held
  <2>1. /\ EarnedBy(held, made) /\ held \in Witness /\ to \in Paths
    BY <1>0, <1>3 DEF WriteWitness, Carried
  <2>2. PICK status \in {"whole", "garbled"} :
              witness_file' = [witness_file EXCEPT ![to] = [status |-> status, witness |-> held]]
    BY <1>3 DEF WriteWitness, Holding
  <2>3. reviewer' = [reviewer EXCEPT ![r] = Idle] /\ UNCHANGED <<made, edited>>
    BY <1>3 DEF WriteWitness
  <2> HIDE DEF to, held
  <2>4. witness_file' \in [Paths -> [status: Statuses, witness: Witness]]
    BY <2>1, <2>2 DEF ReviewInv, Statuses
  <2>5. \A p \in Paths : EarnedBy(witness_file'[p].witness, made)
    BY <2>1, <2>2, <1>0 DEF ReviewInv
  <2>6. reviewer' \in [Reviewers -> {Idle} \cup Carried]
    BY <2>3 DEF ReviewInv
  <2>7. \A q \in Reviewers : reviewer'[q] # Idle => EarnedBy(reviewer'[q].held, made)
    BY <2>3, <1>0 DEF ReviewInv
  <2> QED BY <2>3, <2>4, <2>5, <2>6, <2>7
          DEF ReviewInv
<1>4. ASSUME NEW r \in Reviewers, Interrupt(r) PROVE ReviewInv'
  <2>1. reviewer' = [reviewer EXCEPT ![r] = Idle] /\ UNCHANGED <<witness_file, made, edited>>
    BY <1>4 DEF Interrupt
  <2>2. reviewer' \in [Reviewers -> {Idle} \cup Carried]
    BY <2>1 DEF ReviewInv
  <2>3. \A q \in Reviewers : reviewer'[q] # Idle => EarnedBy(reviewer'[q].held, made)
    BY <2>1, <1>0 DEF ReviewInv
  <2> QED BY <2>1, <2>2, <2>3 DEF ReviewInv
<1>5. ASSUME NEW p \in Paths, EditWitness(p) PROVE ReviewInv'
  <2> DEFINE body == witness_file[p].witness.body
  <2>1. body \in Body
    BY <1>0 DEF Witness
  <2>2. PICK changed \in Body :
              witness_file' = [witness_file EXCEPT ![p].witness =
                [@ EXCEPT !.body = changed, !.genuine = FALSE]]
    BY <1>5, <2>1, EditedBody DEF EditWitness
  <2> HIDE DEF body
  <2> DEFINE w == [witness_file[p].witness EXCEPT !.body = changed, !.genuine = FALSE]
  <2>4. w \in Witness /\ w.genuine = FALSE
    BY <1>0 DEF Witness
  <2>5. witness_file' = [witness_file EXCEPT ![p].witness = w]
    BY <2>2
  <2> HIDE DEF w
  <2>6. witness_file' \in [Paths -> [status: Statuses, witness: Witness]]
    BY <2>4, <2>5, <1>0 DEF ReviewInv
  <2>7. \A q \in Paths : EarnedBy(witness_file'[q].witness, made)
    <3>1. TAKE q \in Paths
    <3>2. CASE q = p
      BY <2>4, <2>5, <3>2, <1>0 DEF EarnedBy, ReviewInv
    <3>3. CASE q # p
      BY <2>5, <3>3, <1>0 DEF ReviewInv
    <3> QED BY <3>2, <3>3
  <2>8. UNCHANGED <<reviewer, made>> /\ edited' \in 0..MaxEdits
    BY <1>5, ReviewAssumption DEF EditWitness, ReviewInv
  <2> QED BY <2>6, <2>7, <2>8 DEF ReviewInv
<1>6. CASE UNCHANGED reviewVars
  BY <1>6 DEF reviewVars, ReviewInv
<1> QED BY <1>1, <1>2, <1>3, <1>4, <1>5, <1>6 DEF ReviewNext

(* A witness whose review was required and is no longer carries an         *)
(* acceptance a command made, in every file nobody edited, whatever        *)
(* commands overlap or are interrupted.                                    *)
THEOREM ReviewAlwaysEarned == ReviewSpec => []ReviewIsEarned
<1>1. ReviewInv => ReviewIsEarned
  BY DEF ReviewInv, ReviewIsEarned, Earned, EarnedBy
<1> QED BY <1>1, ReviewStart, ReviewStep, PTL DEF ReviewSpec

(* Type correctness, for any people and any numbers of commands and edits. *)
THEOREM ReviewTypeCorrect == ReviewSpec => []ReviewTypeOK
<1>1. ReviewInv => ReviewTypeOK
  BY DEF ReviewInv, ReviewTypeOK, Carried
<1> QED BY <1>1, ReviewStart, ReviewStep, PTL DEF ReviewSpec

-----------------------------------------------------------------------------
(* Of a bundle.                                                            *)

Link == [artifact_id: Artifacts, requires_human_gate: BOOLEAN,
         born_approved: BOOLEAN, approved_at: Nat]

Call == [of: Artifacts, upto: Nat]

(* A link that was approved was in the chain at the call that approved it, *)
(* which named it, and no link before it has its name.                     *)
ApprovedRight(chain, asked) ==
  \A i \in 1..Len(chain) : chain[i].approved_at > 0 =>
    /\ chain[i].approved_at \in 1..Len(asked)
    /\ asked[chain[i].approved_at].of = chain[i].artifact_id
    /\ i <= asked[chain[i].approved_at].upto
    /\ \A j \in 1..(i - 1) : chain[j].artifact_id # chain[i].artifact_id

(* A witness that has the hash of a chain has that of the chain it was     *)
(* made of.                                                                *)
WitnessRight ==
  witness.issued =>
    /\ witness.before.links \in Seq(Link) /\ witness.before.calls \in Seq(Call)
    /\ ApprovedRight(witness.before.links, witness.before.calls)
    /\ witness.traceability_hash.given =>
         witness.traceability_hash.of = witness.before.links

BundleInv ==
  /\ links \in Seq(Link) /\ calls \in Seq(Call)
  /\ ApprovedRight(links, calls)
  /\ WitnessRight

(* A bundle starts without links, calls and a witness.                     *)
LEMMA BundleStart == BundleInit => BundleInv
<1> SUFFICES ASSUME BundleInit PROVE BundleInv
  OBVIOUS
<1>1. links \in Seq(Link) /\ calls \in Seq(Call) /\ Len(links) = 0
  BY DEF BundleInit
<1>2. ApprovedRight(links, calls)
  BY <1>1 DEF ApprovedRight
<1>3. WitnessRight
  BY DEF BundleInit, NoWitness, WitnessRight
<1> QED BY <1>1, <1>2, <1>3 DEF BundleInv

(* A link that is added was not approved by a call.                        *)
LEMMA AddedRight ==
  ASSUME NEW chain \in Seq(Link), NEW asked \in Seq(Call), ApprovedRight(chain, asked),
         NEW link \in TraceLink
  PROVE  Append(chain, link) \in Seq(Link) /\ ApprovedRight(Append(chain, link), asked)
<1> DEFINE longer == Append(chain, link)
<1>1. link \in Link /\ link.approved_at = 0
  BY DEF TraceLink, Link
<1>2. longer \in Seq(Link) /\ Len(longer) = Len(chain) + 1 /\ longer[Len(chain) + 1] = link
      /\ \A i \in 1..Len(chain) : longer[i] = chain[i]
  BY <1>1
<1> HIDE DEF longer
<1>3. ASSUME NEW i \in 1..Len(longer), longer[i].approved_at > 0
      PROVE  /\ longer[i].approved_at \in 1..Len(asked)
             /\ asked[longer[i].approved_at].of = longer[i].artifact_id
             /\ i <= asked[longer[i].approved_at].upto
             /\ \A j \in 1..(i - 1) : longer[j].artifact_id # longer[i].artifact_id
  <2>1. i \in 1..Len(chain)
    BY <1>1, <1>2, <1>3
  <2>2. longer[i] = chain[i] /\ \A j \in 1..(i - 1) : longer[j] = chain[j]
    BY <2>1, <1>2
  <2> QED BY <2>1, <2>2, <1>3 DEF ApprovedRight
<1> QED BY <1>2, <1>3 DEF ApprovedRight, longer

(* A call of approve marks the first link of the name, if there is one.    *)
LEMMA ApproveRight ==
  ASSUME NEW chain \in Seq(Link), NEW asked \in Seq(Call), ApprovedRight(chain, asked),
         NEW artifact_id \in Artifacts, NEW marked,
         LET named == {i \in 1..Len(chain) : chain[i].artifact_id = artifact_id} IN
           \/ marked = chain
           \/ \E first \in named :
                /\ \A i \in named : first <= i
                /\ marked = [chain EXCEPT ![first].approved_at = Len(asked) + 1]
  PROVE  /\ marked \in Seq(Link)
         /\ ApprovedRight(marked, Append(asked, [of |-> artifact_id, upto |-> Len(chain)]))
<1> DEFINE call == [of |-> artifact_id, upto |-> Len(chain)]
           more == Append(asked, call)
<1>1. call \in Call /\ call.of = artifact_id /\ call.upto = Len(chain)
  BY DEF Call
<1> HIDE DEF call
<1>2. /\ more \in Seq(Call) /\ Len(more) = Len(asked) + 1 /\ more[Len(asked) + 1] = call
      /\ \A k \in 1..Len(asked) : more[k] = asked[k]
  BY <1>1
<1> HIDE DEF more
<1>3. ApprovedRight(chain, more)
  BY <1>2 DEF ApprovedRight
<1>4. CASE marked = chain
  BY <1>3, <1>4 DEF more, call
<1>5. CASE marked # chain
  <2> DEFINE named == {i \in 1..Len(chain) : chain[i].artifact_id = artifact_id}
  <2>0. PICK first \in named :
          /\ \A i \in named : first <= i
          /\ marked = [chain EXCEPT ![first].approved_at = Len(asked) + 1]
    BY <1>5
  <2> DEFINE link == [chain[first] EXCEPT !.approved_at = Len(asked) + 1]
  <2>1. /\ first \in 1..Len(chain) /\ chain[first] \in Link
        /\ chain[first].artifact_id = artifact_id
        /\ \A j \in 1..(first - 1) : chain[j].artifact_id # artifact_id
    <3>1. first \in 1..Len(chain) /\ chain[first].artifact_id = artifact_id
      OBVIOUS
    <3>2. ASSUME NEW j \in 1..(first - 1), chain[j].artifact_id = artifact_id PROVE FALSE
      <4>1. j \in named /\ j < first
        BY <3>1, <3>2
      <4>2. first <= j
        BY <2>0, <4>1
      <4> QED BY <3>1, <4>1, <4>2
    <3> QED BY <3>1, <3>2
  <2>2. /\ link \in Link /\ link.approved_at = Len(asked) + 1
        /\ link.artifact_id = chain[first].artifact_id
    <3>1. \A l \in Link, n \in Nat :
            LET marking == [l EXCEPT !.approved_at = n] IN
            /\ marking \in Link /\ marking.approved_at = n
            /\ marking.artifact_id = l.artifact_id
      BY DEF Link
    <3>2. Len(asked) + 1 \in Nat
      OBVIOUS
    <3> QED BY <2>1, <3>1, <3>2
  <2>3. marked = [chain EXCEPT ![first] = link]
    BY <2>0
  <2> HIDE DEF link, named
  <2>4. /\ marked \in Seq(Link) /\ Len(marked) = Len(chain) /\ marked[first] = link
        /\ \A i \in 1..Len(chain) : i # first => marked[i] = chain[i]
    BY <2>1, <2>2, <2>3
  <2>5. \A i \in 1..Len(chain) : marked[i].artifact_id = chain[i].artifact_id
    BY <2>2, <2>4
  <2>6. ASSUME NEW i \in 1..Len(marked), marked[i].approved_at > 0
        PROVE  /\ marked[i].approved_at \in 1..Len(more)
               /\ more[marked[i].approved_at].of = marked[i].artifact_id
               /\ i <= more[marked[i].approved_at].upto
               /\ \A j \in 1..(i - 1) : marked[j].artifact_id # marked[i].artifact_id
    <3>1. CASE i = first
      BY <3>1, <2>1, <2>2, <2>4, <2>5, <1>1, <1>2
    <3>2. CASE i # first
      BY <3>2, <2>4, <2>5, <2>6, <1>3 DEF ApprovedRight
    <3> QED BY <3>1, <3>2
  <2>7. ApprovedRight(marked, more)
    BY <2>6 DEF ApprovedRight
  <2> QED BY <2>4, <2>7 DEF more, call
<1> QED BY <1>4, <1>5

(* Every operation keeps it.                                               *)
LEMMA BundleStepRight == BundleInv /\ [BundleStep]_bundleVars => BundleInv'
<1> SUFFICES ASSUME BundleInv, [BundleStep]_bundleVars PROVE BundleInv'
  OBVIOUS
<1>1. ASSUME NEW link \in TraceLink, AddLink(link) PROVE BundleInv'
  <2>1. links' = Append(links, link) /\ UNCHANGED <<calls, witness>>
    BY <1>1 DEF AddLink
  <2>2. links' \in Seq(Link) /\ ApprovedRight(links', calls)
    BY <2>1, AddedRight DEF BundleInv
  <2> QED BY <2>1, <2>2 DEF BundleInv, WitnessRight
<1>2. ASSUME NEW artifact_id \in Artifacts, Approve(artifact_id) PROVE BundleInv'
  <2> DEFINE call == [of |-> artifact_id, upto |-> Len(links)]
  <2>1. calls' = Append(calls, call) /\ witness' = witness
    BY <1>2 DEF Approve
  <2>2. LET named == {i \in 1..Len(links) : links[i].artifact_id = artifact_id} IN
          \/ links' = links
          \/ \E first \in named :
               /\ \A i \in named : first <= i
               /\ links' = [links EXCEPT ![first].approved_at = Len(calls) + 1]
    BY <1>2 DEF Approve
  <2>3. links' \in Seq(Link) /\ ApprovedRight(links', Append(calls, call))
    BY <2>2, ApproveRight DEF BundleInv
  <2>4. call \in Call
    BY DEF BundleInv, Call
  <2> QED BY <2>1, <2>3, <2>4 DEF BundleInv, WitnessRight
<1>3. ASSUME NEW verdict \in WitnessVerdicts, NEW bound \in BOOLEAN,
             IssueWitness(verdict, bound)
      PROVE  BundleInv'
  <2>1. /\ UNCHANGED <<links, calls>>
        /\ witness'.issued /\ witness'.before = [calls |-> calls, links |-> links]
        /\ witness'.traceability_hash =
             [given |-> bound, of |-> IF bound THEN chain_hash(links) ELSE <<>>]
    BY <1>3 DEF IssueWitness
  <2>2. /\ witness'.before.calls = calls /\ witness'.before.links = links
        /\ witness'.traceability_hash.given => witness'.traceability_hash.of = links
    BY <2>1 DEF chain_hash
  <2> QED BY <2>1, <2>2 DEF BundleInv, WitnessRight
<1>4. CASE ChangeParts \/ UNCHANGED bundleVars
  BY <1>4 DEF ChangeParts, bundleVars, BundleInv, WitnessRight
<1> QED BY <1>1, <1>2, <1>3, <1>4 DEF BundleStep

(* In a valid bundle with a chain and a verdict that implies truth every   *)
(* link an AI proposed was approved by a call that saw it, before the      *)
(* witness was made.                                                       *)
THEOREM TruthAlwaysApproved == BundleSpec => []TruthIsApproved
<1>1. BundleInv => TruthIsApproved
  <2> SUFFICES ASSUME BundleInv, witness.issued, is_valid, traced,
                      implies_truth(witness.verdict), NEW i \in 1..Len(links),
                      links[i].requires_human_gate, ~links[i].born_approved
               PROVE  /\ i <= Len(witness.before.links)
                      /\ \E k \in 1..Len(witness.before.calls) :
                           /\ witness.before.calls[k].of = links[i].artifact_id
                           /\ i <= witness.before.calls[k].upto
                      /\ \A j \in 1..(i - 1) : links[j].artifact_id # links[i].artifact_id
    BY DEF TruthIsApproved
  <2>1. witness.before.links = links
    <3>1. witness.traceability_hash = [given |-> TRUE, of |-> links]
      BY DEF is_valid, chain_hash
    <3>2. witness.traceability_hash.given /\ witness.traceability_hash.of = links
      BY <3>1
    <3> QED BY <3>2 DEF BundleInv, WitnessRight
  <2>2. links[i].approved_at > 0
    <3>1. unapproved_ai_mappings(links) = {}
      BY DEF is_valid
    <3> QED BY <3>1 DEF unapproved_ai_mappings, human_approved
  <2>3. ApprovedRight(links, witness.before.calls)
    BY <2>1 DEF BundleInv, WitnessRight
  <2> QED BY <2>1, <2>2, <2>3 DEF ApprovedRight
<1> QED BY <1>1, BundleStart, BundleStepRight, PTL DEF BundleSpec
-----------------------------------------------------------------------------
(* Of a signed manifest.                                                   *)

Shaped(m) ==
  m = [body |-> m.body, signature |-> m.signature,
       signature_alg |-> m.signature_alg, payload_hash |-> m.payload_hash]

History(h) == h \in Seq({h[k] : k \in 1..Len(h)})

(* A seal was made by a signing of what it is over, or with a key that is  *)
(* everybody's.                                                            *)
MadeBy(seal, signing) ==
  /\ seal.with = Private(signing.by) /\ seal.over.body = signing.made.body
  /\ signing.bare = (seal.over = Bare(seal.over.body))

SealsMade(m, history) ==
  \A seal \in m.signature :
    \/ \E k \in 1..Len(history) : MadeBy(seal, history[k])
    \/ seal.with.part = "public"

(* What somebody signed carries one seal, and says how it was made.        *)
OneSeal(signing) ==
  \E seal \in signing.made.signature, alg \in {"ed25519", "hmac-sha256"} :
    /\ signing.made.signature = {seal} /\ signing.made.signature_alg = {alg}
    /\ seal.alg = alg /\ seal.with = Private(signing.by)
    /\ signing.bare = (seal.over = Bare(signing.made.body))

SealInv ==
  /\ Shaped(manifest) /\ Shaped(earlier) /\ History(signings)
  /\ SealsMade(manifest, signings) /\ SealsMade(earlier, signings)
  /\ \A k \in 1..Len(signings) : OneSeal(signings[k])

(* A signing that is added leaves those before it.                         *)
LEMMA HistoryGrows ==
  ASSUME NEW h, NEW signing, History(h)
  PROVE  /\ Len(h) \in Nat /\ Len(Append(h, signing)) = Len(h) + 1
         /\ \A k \in 1..Len(h) : Append(h, signing)[k] = h[k]
         /\ Append(h, signing)[Len(h) + 1] = signing
         /\ History(Append(h, signing))
<1> DEFINE S == {h[k] : k \in 1..Len(h)} \cup {signing}
<1>1. h \in Seq(S)
  <2>1. Len(h) \in Nat /\ h \in [1..Len(h) -> S]
    BY DEF History
  <2> QED BY <2>1
<1>2. signing \in S
  OBVIOUS
<1> HIDE DEF S
<1>3. /\ Len(h) \in Nat /\ Len(Append(h, signing)) = Len(h) + 1
      /\ \A k \in 1..Len(h) : Append(h, signing)[k] = h[k]
      /\ Append(h, signing)[Len(h) + 1] = signing
      /\ Append(h, signing) \in Seq(S)
  BY <1>1, <1>2
<1>4. History(Append(h, signing))
  <2> DEFINE t == Append(h, signing)
  <2>1. t \in Seq(S)
    BY <1>3
  <2> HIDE DEF t
  <2>2. t \in [1..Len(t) -> {t[k] : k \in 1..Len(t)}] /\ Len(t) \in Nat
    BY <2>1
  <2>3. t \in Seq({t[k] : k \in 1..Len(t)})
    BY <2>2
  <2> QED BY <2>3 DEF History, t
<1> QED BY <1>3, <1>4

(* A manifest begins without a seal.                                       *)
LEMMA SealStart == ManifestInit => SealInv
<1> SUFFICES ASSUME ManifestInit PROVE SealInv
  OBVIOUS
<1>1. PICK body \in Sayings : manifest = Unsigned(body) /\ earlier = Unsigned(body)
  BY DEF ManifestInit
<1>2. Shaped(manifest) /\ Shaped(earlier)
  BY <1>1 DEF Shaped, Unsigned
<1>3. SealsMade(manifest, signings) /\ SealsMade(earlier, signings)
  BY <1>1 DEF SealsMade, Unsigned
<1>4. signings = <<>>
  BY DEF ManifestInit
<1>5. History(signings)
  BY <1>4 DEF History
<1> QED BY <1>2, <1>3, <1>4, <1>5 DEF SealInv

(* A seal is recorded as it is made, and whoever holds it can only move it,*)
(* take it off or make one with a key that is everybody's.                 *)
LEMMA SealStep == SealInv /\ [ManifestStep]_manifestVars => SealInv'
<1> SUFFICES ASSUME SealInv, [ManifestStep]_manifestVars PROVE SealInv'
  OBVIOUS
<1> USE DEF SealInv
<1>1. ASSUME NEW signer \in Signers, NEW nacl \in BOOLEAN, Sign(signer, nacl)
      PROVE  SealInv'
  <2> DEFINE signing == [by |-> signer, made |-> sign_manifest(manifest, signer, nacl),
                         bare |-> sign_payload(manifest) = Bare(manifest.body)]
             seal == [with |-> Private(signer), alg |-> algorithm(signer, nacl),
                      over |-> sign_payload(manifest)]
  <2>1. /\ manifest' = signing.made /\ signings' = Append(signings, signing)
        /\ earlier' = earlier
    BY <1>1 DEF Sign
  <2>2. /\ signing.made.signature = {seal} /\ signing.made.signature_alg = {seal.alg}
        /\ signing.made.body = manifest.body /\ Shaped(signing.made)
    BY DEF sign_manifest, Shaped
  <2>3. /\ seal.with = Private(signing.by) /\ seal.over.body = manifest.body
        /\ seal.alg \in {"ed25519", "hmac-sha256"}
        /\ signing.bare = (seal.over = Bare(manifest.body))
    BY DEF sign_payload, algorithm
  <2> HIDE DEF signing, seal
  <2>4. OneSeal(signing) /\ MadeBy(seal, signing)
    BY <2>2, <2>3 DEF OneSeal, MadeBy
  <2>5. /\ Len(signings) \in Nat /\ Len(signings') = Len(signings) + 1
        /\ \A k \in 1..Len(signings) : signings'[k] = signings[k]
        /\ signings'[Len(signings) + 1] = signing /\ History(signings')
    BY <2>1, HistoryGrows
  <2>6. Len(signings) + 1 \in 1..Len(signings')
    BY <2>5
  <2>7. SealsMade(manifest', signings')
    BY <2>1, <2>2, <2>4, <2>5, <2>6 DEF SealsMade
  <2>8. SealsMade(earlier', signings')
    BY <2>1, <2>5 DEF SealsMade
  <2>9. \A k \in 1..Len(signings') : OneSeal(signings'[k])
    BY <2>4, <2>5
  <2> QED BY <2>1, <2>2, <2>5, <2>7, <2>8, <2>9
<1>2. CASE Keep
  BY <1>2 DEF Keep
<1>3. CASE Touch
  <2>1. /\ earlier' = earlier /\ signings' = signings
        /\ \/ \E body \in Sayings : manifest' = [manifest EXCEPT !.body = body]
           \/ manifest' = [manifest EXCEPT !.signature_alg = {}]
           \/ manifest' = [manifest EXCEPT !.payload_hash = {}]
           \/ manifest' = [earlier EXCEPT !.body = manifest.body]
           \/ \E signer \in Signers, alg \in {{}, {"hmac-sha256"}} :
                manifest' = [manifest EXCEPT !.signature = {HmacSeal(manifest, Public(signer))},
                                             !.signature_alg = alg]
    BY <1>3 DEF Touch
  <2>2. Shaped(manifest')
    BY <2>1 DEF Shaped
  <2>3. \/ manifest'.signature \in {manifest.signature, earlier.signature}
        \/ \E signer \in Signers : manifest'.signature = {HmacSeal(manifest, Public(signer))}
    BY <2>1 DEF Shaped
  <2>4. SealsMade(manifest', signings')
    <3>1. \A signer \in Signers : HmacSeal(manifest, Public(signer)).with.part = "public"
      BY DEF HmacSeal, Public
    <3> QED BY <2>1, <2>3, <3>1 DEF SealsMade
  <2> QED BY <2>1, <2>2, <2>4
<1>4. CASE UNCHANGED manifestVars
  BY <1>4 DEF manifestVars
<1> QED BY <1>1, <1>2, <1>3, <1>4 DEF ManifestStep

(* A manifest that verifies under a private key, or as Ed25519, says what  *)
(* the owner of the key signed bare of seals; and as somebody signed it,   *)
(* it verifies with the usual key if and only if it was bare then.         *)
THEOREM SealsAlwaysRight == ManifestSpec => []SealsAreRight
<1>1. ASSUME SealInv PROVE SealNamesWhatItSays
  <2> SUFFICES ASSUME NEW signer \in Signers, NEW nacl \in BOOLEAN,
                      \/ verify_manifest_signature(manifest, Private(signer), nacl)
                      \/ verified_as(manifest, nacl) = "ed25519"
                         /\ verify_manifest_signature(manifest, Public(signer), nacl)
               PROVE  Signed(signer, manifest.body)
    BY DEF SealNamesWhatItSays
  <2>1. /\ Private(signer).of = signer /\ Public(signer).of = signer
        /\ Private(signer) # Public(signer) /\ Private(signer).part = "private"
    BY DEF Private, Public
  <2>2. PICK seal \in manifest.signature :
          seal.with = Private(signer) /\ {seal.over} = verified_message(manifest)
    <3>1. CASE verify_manifest_signature(manifest, Private(signer), nacl)
      BY <2>1, <3>1 DEF verify_manifest_signature
    <3>2. CASE verified_as(manifest, nacl) = "ed25519"
               /\ verify_manifest_signature(manifest, Public(signer), nacl)
      BY <2>1, <3>2 DEF verify_manifest_signature
    <3> QED BY <3>1, <3>2
  <2>3. seal.over = Bare(manifest.body) /\ seal.over.body = manifest.body
    BY <2>2 DEF verified_message, Bare
  <2>4. PICK k \in 1..Len(signings) : MadeBy(seal, signings[k])
    BY <1>1, <2>1, <2>2 DEF SealInv, SealsMade
  <2>5. signings[k].by = signer
    BY <2>2, <2>4 DEF MadeBy, Private
  <2> QED BY <2>3, <2>4, <2>5 DEF MadeBy, Signed
<1>2. ASSUME SealInv PROVE SignedBareVerifies
  <2> SUFFICES ASSUME NEW k \in 1..Len(signings), manifest = signings[k].made
               PROVE  verify_manifest_signature(manifest, UsualKey(signings[k].by, manifest), TRUE)
                        <=> signings[k].bare
    BY DEF SignedBareVerifies
  <2> DEFINE signer == signings[k].by
  <2>1. OneSeal(signings[k])
    BY <1>2 DEF SealInv
  <2>2. PICK seal \in manifest.signature, alg \in {"ed25519", "hmac-sha256"} :
          /\ manifest.signature = {seal} /\ manifest.signature_alg = {alg}
          /\ seal.alg = alg /\ seal.with = Private(signer)
          /\ signings[k].bare = (seal.over = Bare(manifest.body))
    BY <2>1 DEF OneSeal
  <2>3. verified_as(manifest, TRUE) = alg
    BY <2>2 DEF verified_as
  <2> HIDE DEF signer
  <2>4. CASE alg = "ed25519"
    <3>1. UsualKey(signer, manifest) = Public(signer) /\ Public(signer).of = signer
      BY <2>2, <2>4 DEF UsualKey, Public
    <3>2. verify_manifest_signature(manifest, Public(signer), TRUE)
            <=> seal.over = Bare(manifest.body)
      BY <2>2, <2>3, <2>4, <3>1 DEF verify_manifest_signature, verified_message
    <3> QED BY <2>2, <3>1, <3>2 DEF signer
  <2>5. CASE alg = "hmac-sha256"
    <3>1. UsualKey(signer, manifest) = Private(signer)
      BY <2>2, <2>5 DEF UsualKey
    <3>2. verify_manifest_signature(manifest, Private(signer), TRUE)
            <=> seal.over = Bare(manifest.body)
      BY <2>2, <2>3, <2>5 DEF verify_manifest_signature, verified_message
    <3> QED BY <2>2, <3>1, <3>2 DEF signer
  <2> QED BY <2>2, <2>4, <2>5
<1> QED BY <1>1, <1>2, SealStart, SealStep, PTL DEF ManifestSpec, SealsAreRight

-----------------------------------------------------------------------------
(* Of the evidence ledger.                                                 *)

Kind == {item.kind : item \in Offered} \cup {Altered}
Content == {item.content : item \in Offered} \cup {Altered}
Item == [kind: Kind, content: Content]
Given == [content: Content, allow_branch: BOOLEAN]
Marks == [kind: Kind, created_at: Nat, payload: Given]
Digest == Seq(Marks)
Entry == [kind: Kind, created_at: Nat \cup {Altered}, payload: Given, payload_hash: Given,
          previous_hash: Digest, entry_hash: Digest]
File == [status: {"absent", "torn", "whole"}, items: Seq(Item), appended: Seq(Item),
         laundered: BOOLEAN]

LedgerShape ==
  /\ entries \in Seq(Entry) /\ appended \in Seq(Item) /\ saved \in File
  /\ by_prev \in SUBSET (Digest \X Digest)
  /\ laundered \in BOOLEAN /\ clock \in Nat /\ changes \in Nat

LastMark(digest) == digest[Len(digest)]

(* What a digest is of at its end.                                         *)
ItemOf(digest) ==
  [kind |-> LastMark(digest).kind, content |-> LastMark(digest).payload.content]

(* The successors form a tree: a child is one mark longer than its parent, *)
(* which is a child too unless it is the root, and was made before now.    *)
Tree ==
  \A edge \in by_prev :
    /\ Len(edge[2]) = Len(edge[1]) + 1
    /\ LastMark(edge[2]).created_at < clock
    /\ edge[1] = <<>> \/ \E other \in by_prev : other[2] = edge[1]

(* The list holds edges of it in the order they were made, and one of      *)
(* several below a parent only if it is marked.                            *)
OfTree ==
  /\ \A i \in 1..Len(entries) : <<entries[i].previous_hash, entries[i].entry_hash>> \in by_prev
  /\ \A i, j \in 1..Len(entries) :
       i < j => /\ entries[i].entry_hash # entries[j].entry_hash
                /\ entries[i].previous_hash # entries[j].entry_hash
  /\ \A i \in 1..Len(entries), edge \in by_prev :
       edge[1] = entries[i].previous_hash /\ edge[2] # entries[i].entry_hash =>
         LastMark(entries[i].entry_hash).payload.allow_branch

(* All of it is on the list, or something is gone.                         *)
Whole ==
  /\ by_prev = Children(entries)
  /\ ~laundered => /\ Len(appended) = Len(entries)
                   /\ \A i \in 1..Len(entries) : ItemOf(entries[i].entry_hash) = appended[i]

Gone == \E edge \in by_prev : \A i \in 1..Len(entries) : entries[i].entry_hash # edge[2]

(* A list as append makes it.                                              *)
Linked(list) ==
  \A i \in 1..Len(list) :
    list[i].previous_hash = IF i = 1 THEN <<>> ELSE list[i - 1].entry_hash

Intact(list) == \A i \in 1..Len(list) : Sealed(list[i]) /\ list[i].payload = list[i].payload_hash

Untouched ==
  changes = 0 =>
    ~laundered /\ ~saved.laundered /\ Whole /\ Linked(entries) /\ Intact(entries)

ChainInv ==
  /\ LedgerShape /\ Tree /\ OfTree /\ (Whole \/ Gone) /\ Untouched
  /\ ~saved.laundered => saved.items = saved.appended

(* The tip of a list is the root, or a child.                              *)
LEMMA TipFacts ==
  ASSUME ChainInv
  PROVE  LET tip == tip_hash(entries) IN
         /\ tip \in Digest
         /\ tip = <<>> \/ \E edge \in by_prev : edge[2] = tip
         /\ \A i \in 1..Len(entries) : entries[i].previous_hash # tip
<1> USE DEF ChainInv, LedgerShape
<1>1. CASE entries = <<>>
  BY <1>1 DEF tip_hash, Digest
<1>2. CASE entries # <<>>
  <2> DEFINE n == Len(entries)
  <2>1. n \in 1..Len(entries) /\ tip_hash(entries) = entries[n].entry_hash
    BY <1>2 DEF tip_hash
  <2>2. entries[n] \in Entry
    BY <2>1
  <2>3. <<entries[n].previous_hash, entries[n].entry_hash>> \in by_prev
    BY <2>1 DEF OfTree
  <2>4. \A i \in 1..n : i < n => entries[i].previous_hash # entries[n].entry_hash
    BY <2>1 DEF OfTree
  <2>5. entries[n].previous_hash # entries[n].entry_hash
    <3>1. entries[n].previous_hash \in Digest
      BY <2>2 DEF Entry
    <3>2. Len(entries[n].entry_hash) = Len(entries[n].previous_hash) + 1
      BY <2>3 DEF Tree
    <3> QED BY <3>1, <3>2 DEF Digest
  <2>6. \A i \in 1..n : entries[i].previous_hash # entries[n].entry_hash
    BY <2>1, <2>4, <2>5
  <2> QED BY <2>1, <2>2, <2>3, <2>6 DEF Entry
<1> QED BY <1>1, <1>2

(* The entry an item becomes.                                              *)
LEMMA EntryFacts ==
  ASSUME NEW tip \in Digest, NEW item \in Item, NEW allow_branch \in BOOLEAN, NEW time \in Nat
  PROVE  LET e == NewEntry(tip, item, allow_branch, time) IN
         /\ e \in Entry /\ e.payload = e.payload_hash /\ e.previous_hash = tip
         /\ e.entry_hash = Append(tip, Mark(item.kind, time, Payload(item.content, allow_branch)))
         /\ Sealed(e) /\ Len(e.entry_hash) = Len(tip) + 1
         /\ LastMark(e.entry_hash).created_at = time
         /\ LastMark(e.entry_hash).payload.allow_branch = allow_branch
         /\ ItemOf(e.entry_hash) = item
<1> DEFINE payload == Payload(item.content, allow_branch)
           mark == Mark(item.kind, time, payload)
           e == NewEntry(tip, item, allow_branch, time)
<1>1. payload \in Given /\ payload.content = item.content /\ payload.allow_branch = allow_branch
  BY DEF Payload, Given, Item
<1> HIDE DEF payload
<1>2. /\ mark \in Marks /\ mark.kind = item.kind /\ mark.created_at = time
      /\ mark.payload = payload
  BY <1>1 DEF Mark, Marks, Item
<1>3. /\ e.kind = item.kind /\ e.created_at = time /\ e.payload = payload
      /\ e.payload_hash = payload /\ e.previous_hash = tip /\ e.entry_hash = Append(tip, mark)
  BY DEF NewEntry, payload
<1> HIDE DEF mark
<1>4. /\ Append(tip, mark) \in Digest /\ Len(Append(tip, mark)) = Len(tip) + 1
      /\ LastMark(Append(tip, mark)) = mark
  BY <1>2 DEF Digest, LastMark
<1>5. e \in Entry
  BY <1>1, <1>4 DEF NewEntry, Entry, Item, payload, mark
<1> HIDE DEF e
<1>6. ItemOf(e.entry_hash) = item
  BY <1>1, <1>2, <1>3, <1>4 DEF ItemOf, Item
<1>7. Sealed(e)
  BY <1>3 DEF Sealed, mark
<1> QED BY <1>1, <1>2, <1>3, <1>4, <1>5, <1>6, <1>7 DEF e, mark, payload

(* What an intact list holds is what its digests are of.                   *)
LEMMA SealedItems ==
  ASSUME NEW e \in Entry, Sealed(e)
  PROVE  /\ ItemOf(e.entry_hash) = [kind |-> e.kind, content |-> e.payload_hash.content]
         /\ LastMark(e.entry_hash).payload = e.payload_hash
<1> DEFINE mark == Mark(e.kind, e.created_at, e.payload_hash)
<1>1. e.entry_hash = Append(e.previous_hash, mark) /\ e.previous_hash \in Seq(Marks)
  BY DEF Sealed, Entry, Digest
<1>2. mark.kind = e.kind /\ mark.payload = e.payload_hash
  BY DEF Mark
<1> HIDE DEF mark
<1>3. LastMark(e.entry_hash) = mark
  <2>1. e.previous_hash \in Seq(Marks \cup {mark})
    BY <1>1
  <2> QED BY <1>1, <2>1 DEF LastMark
<1> QED BY <1>2, <1>3 DEF ItemOf

(* So is what a whole list of such entries holds.                          *)
LEMMA WholeItems ==
  ASSUME ChainInv, Whole, ~laundered, \A i \in 1..Len(entries) : Sealed(entries[i]),
         \A i \in 1..Len(entries) : entries[i].payload.content = entries[i].payload_hash.content
  PROVE  Items(entries) = appended
<1>1. Len(appended) = Len(entries) /\ appended \in Seq(Item) /\ entries \in Seq(Entry)
  BY DEF Whole, ChainInv, LedgerShape
<1>2. \A i \in 1..Len(entries) :
        [kind |-> entries[i].kind, content |-> entries[i].payload.content] = appended[i]
  <2> SUFFICES ASSUME NEW i \in 1..Len(entries)
               PROVE  [kind |-> entries[i].kind, content |-> entries[i].payload.content] = appended[i]
    OBVIOUS
  <2>1. entries[i] \in Entry
    BY <1>1
  <2>2. ItemOf(entries[i].entry_hash) =
          [kind |-> entries[i].kind, content |-> entries[i].payload_hash.content]
    BY <2>1, SealedItems
  <2> QED BY <2>2 DEF Whole
<1>3. appended = [i \in 1..Len(entries) |-> appended[i]]
  BY <1>1
<1> QED BY <1>2, <1>3 DEF Items

(* A ledger begins empty.                                                  *)
LEMMA ChainStart == EvidenceInit => ChainInv
<1> SUFFICES ASSUME EvidenceInit PROVE ChainInv
  OBVIOUS
<1> USE DEF EvidenceInit
<1>1. saved \in File /\ ~saved.laundered /\ saved.items = saved.appended
  BY DEF File, NothingSaved
<1>2. /\ entries = <<>> /\ appended = <<>> /\ by_prev = {} /\ ~laundered
      /\ laundered \in BOOLEAN /\ clock \in Nat /\ changes \in Nat
  OBVIOUS
<1>3. LedgerShape
  <2>1. entries \in Seq(Entry) /\ appended \in Seq(Item)
    BY <1>2
  <2> QED BY ONLY <1>1, <1>2, <2>1 DEF LedgerShape
<1>4. Tree /\ OfTree /\ Whole /\ Linked(entries) /\ Intact(entries)
  BY <1>2 DEF Tree, OfTree, Whole, Children, Linked, Intact
<1> QED BY ONLY <1>1, <1>2, <1>3, <1>4 DEF ChainInv, Untouched

(* An entry that append adds continues the tree and the list.              *)
LEMMA AppendKeeps ==
  ASSUME ChainInv, NEW item \in Offered, NEW allow_branch \in BOOLEAN, append(item, allow_branch)
  PROVE  ChainInv'
<1> USE DEF ChainInv, LedgerShape
<1> DEFINE tip == tip_hash(entries)
           e == NewEntry(tip, item, allow_branch, clock)
           n == Len(entries) + 1
<1>1. item \in Item
  BY LedgerAssumption DEF Item, Kind, Content
<1>2. /\ entries' = Append(entries, e) /\ appended' = Append(appended, item)
      /\ by_prev' = by_prev \cup {<<tip, e.entry_hash>>} /\ clock' = clock + 1
      /\ allow_branch \/ ~HasChild(tip)
      /\ UNCHANGED <<saved, laundered, changes>>
  BY DEF append
<1>3. /\ tip \in Digest /\ (tip = <<>> \/ \E edge \in by_prev : edge[2] = tip)
      /\ \A i \in 1..Len(entries) : entries[i].previous_hash # tip
  BY TipFacts
<1>4. tip = IF n = 1 THEN <<>> ELSE entries[n - 1].entry_hash
  BY DEF tip_hash
<1> HIDE DEF tip
<1>5. /\ e \in Entry /\ e.payload = e.payload_hash /\ e.previous_hash = tip /\ Sealed(e)
      /\ Len(e.entry_hash) = Len(tip) + 1
      /\ LastMark(e.entry_hash).created_at = clock
      /\ LastMark(e.entry_hash).payload.allow_branch = allow_branch
      /\ ItemOf(e.entry_hash) = item
  BY <1>1, <1>3, EntryFacts
<1> HIDE DEF e
<1>6. e.entry_hash \in Digest
  BY <1>5 DEF Entry
<1>7. /\ entries' \in Seq(Entry) /\ Len(entries') = n /\ n \in Nat /\ n = Len(entries) + 1
      /\ \A i \in 1..Len(entries) : entries'[i] = entries[i]
      /\ entries'[n] = e
  BY <1>2, <1>5
<1>8. /\ appended' \in Seq(Item) /\ Len(appended') = Len(appended) + 1
      /\ \A i \in 1..Len(appended) : appended'[i] = appended[i]
      /\ appended'[Len(appended) + 1] = item
  BY <1>1, <1>2
<1> HIDE DEF n
<1>9. \A edge \in by_prev : edge[2] # e.entry_hash /\ edge[1] # e.entry_hash
  <2>1. \A edge \in by_prev : edge[2] # e.entry_hash
    BY <1>5 DEF Tree
  <2>2. e.entry_hash # <<>>
    BY <1>3, <1>5 DEF Digest
  <2> QED BY <2>1, <2>2 DEF Tree
<1>10. \A i \in 1..Len(entries) :
         entries[i].entry_hash # e.entry_hash /\ entries[i].previous_hash # e.entry_hash
  <2> SUFFICES ASSUME NEW i \in 1..Len(entries)
               PROVE  entries[i].entry_hash # e.entry_hash /\ entries[i].previous_hash # e.entry_hash
    OBVIOUS
  <2>1. <<entries[i].previous_hash, entries[i].entry_hash>> \in by_prev
    BY DEF OfTree
  <2> QED BY <1>9, <2>1
<1>11. LedgerShape'
  BY <1>2, <1>3, <1>6, <1>7, <1>8
<1>12. Tree'
  <2> SUFFICES ASSUME NEW edge \in by_prev'
               PROVE  /\ Len(edge[2]) = Len(edge[1]) + 1
                      /\ LastMark(edge[2]).created_at < clock'
                      /\ edge[1] = <<>> \/ \E other \in by_prev' : other[2] = edge[1]
    BY DEF Tree
  <2>1. CASE edge \in by_prev
    <3>1. LastMark(edge[2]).created_at \in Nat
      <4>1. edge[1] \in Digest /\ edge[2] \in Digest /\ Len(edge[2]) = Len(edge[1]) + 1
        BY <2>1 DEF Tree
      <4>2. Len(edge[2]) \in 1..Len(edge[2])
        BY <4>1 DEF Digest
      <4>3. edge[2][Len(edge[2])] \in Marks
        BY <4>1, <4>2 DEF Digest
      <4> QED BY <4>3 DEF LastMark, Marks
    <3>2. LastMark(edge[2]).created_at < clock
      BY <2>1 DEF Tree
    <3> QED BY <1>2, <2>1, <3>1, <3>2 DEF Tree
  <2>2. CASE edge = <<tip, e.entry_hash>>
    BY <1>2, <1>3, <1>5, <2>2
  <2> QED BY <1>2, <2>1, <2>2
<1>13. OfTree'
  <2>1. \A i \in 1..n : <<entries'[i].previous_hash, entries'[i].entry_hash>> \in by_prev'
    BY <1>2, <1>5, <1>7 DEF OfTree
  <2>2. \A i, j \in 1..n :
          i < j => /\ entries'[i].entry_hash # entries'[j].entry_hash
                   /\ entries'[i].previous_hash # entries'[j].entry_hash
    BY <1>7, <1>10 DEF OfTree
  <2>3. ASSUME NEW i \in 1..n, NEW edge \in by_prev',
               edge[1] = entries'[i].previous_hash, edge[2] # entries'[i].entry_hash
        PROVE  LastMark(entries'[i].entry_hash).payload.allow_branch
    <3>1. CASE i = n
      <4>1. edge \in by_prev /\ edge[1] = tip
        BY <1>2, <1>5, <1>7, <2>3, <3>1
      <4>2. allow_branch
        BY <1>2, <4>1 DEF HasChild
      <4> QED BY <1>5, <1>7, <3>1, <4>2
    <3>2. CASE i \in 1..Len(entries)
      <4>1. edge[1] # tip
        BY <1>3, <1>7, <2>3, <3>2
      <4>2. edge \in by_prev
        BY <1>2, <4>1
      <4> QED BY <1>7, <2>3, <3>2, <4>2 DEF OfTree
    <3> QED BY <1>7, <3>1, <3>2
  <2> QED BY <1>7, <2>1, <2>2, <2>3 DEF OfTree
<1>14. Whole => Whole'
  <2> SUFFICES ASSUME Whole PROVE Whole'
    OBVIOUS
  <2>1. Children(entries') = Children(entries) \cup {<<e.previous_hash, e.entry_hash>>}
    BY <1>7 DEF Children
  <2> QED BY <1>2, <1>5, <1>7, <1>8, <2>1 DEF Whole
<1>15. Gone => Gone'
  BY <1>2, <1>7, <1>9 DEF Gone
<1>16. Untouched'
  <2> SUFFICES ASSUME changes' = 0
               PROVE  ~laundered' /\ ~saved'.laundered /\ Whole' /\ Linked(entries') /\ Intact(entries')
    BY DEF Untouched
  <2>1. ~laundered /\ ~saved.laundered /\ Whole /\ Linked(entries) /\ Intact(entries)
    BY <1>2 DEF Untouched
  <2>2. Linked(entries')
    <3> SUFFICES ASSUME NEW i \in 1..n
                 PROVE  entries'[i].previous_hash =
                          IF i = 1 THEN <<>> ELSE entries'[i - 1].entry_hash
      BY <1>7 DEF Linked
    <3>1. i # 1 => i - 1 \in 1..Len(entries) /\ entries'[i - 1] = entries[i - 1]
      BY <1>7
    <3>2. CASE i = n
      BY <1>4, <1>5, <1>7, <3>1, <3>2
    <3>3. CASE i \in 1..Len(entries)
      BY <1>7, <2>1, <3>1, <3>3 DEF Linked
    <3> QED BY <1>7, <3>2, <3>3
  <2>3. Intact(entries')
    BY <1>5, <1>7, <2>1 DEF Intact
  <2> QED BY <1>2, <1>14, <2>1, <2>2, <2>3
<1> QED BY <1>2, <1>11, <1>12, <1>13, <1>14, <1>15, <1>16

(* A change of an entry that leaves its links leaves the tree and the list.*)
LEMMA ChangeKeeps ==
  ASSUME ChainInv, NEW i \in 1..Len(entries), NEW e \in Entry,
         e.previous_hash = entries[i].previous_hash, e.entry_hash = entries[i].entry_hash,
         entries' = [entries EXCEPT ![i] = e], changes' = changes + 1,
         UNCHANGED <<by_prev, saved, appended, laundered, clock>>
  PROVE  ChainInv'
<1> USE DEF ChainInv, LedgerShape
<1>1. /\ entries' \in Seq(Entry) /\ Len(entries') = Len(entries)
      /\ \A j \in 1..Len(entries) : /\ entries'[j].previous_hash = entries[j].previous_hash
                                    /\ entries'[j].entry_hash = entries[j].entry_hash
  OBVIOUS
<1>2. LedgerShape'
  BY <1>1
<1>3. Tree' /\ OfTree'
  BY <1>1 DEF Tree, OfTree
<1>4. Children(entries') = Children(entries)
  BY <1>1 DEF Children
<1>5. (Whole => Whole') /\ (Gone => Gone')
  BY <1>1, <1>4 DEF Whole, Gone
<1> QED BY <1>2, <1>3, <1>5 DEF Untouched

(* So a change of a payload or an entry does.                              *)
LEMMA MutationKeeps ==
  ASSUME ChainInv, NEW i \in 1..Len(entries), MutatePayload(i) \/ RewriteEntry(i)
  PROVE  ChainInv'
<1>1. entries[i] \in Entry
  BY DEF ChainInv, LedgerShape
<1>2. changes' = changes + 1 /\ UNCHANGED <<by_prev, saved, appended, laundered, clock>>
  BY DEF MutatePayload, RewriteEntry, Change
<1>3. Altered \in Kind /\ Altered \in Content
  BY DEF Kind, Content
<1>4. CASE MutatePayload(i)
  <2>1. PICK content \in {entries[i].payload.content, Altered}, allow_branch \in BOOLEAN :
          entries' = [entries EXCEPT ![i].payload = Payload(content, allow_branch)]
    BY <1>4 DEF MutatePayload
  <2> DEFINE payload == Payload(content, allow_branch)
             e == [entries[i] EXCEPT !.payload = payload]
  <2>2. payload \in Given
    BY <1>1, <1>3 DEF Payload, Given, Entry
  <2>3. entries' = [entries EXCEPT ![i] = e]
    BY <2>1
  <2> HIDE DEF payload
  <2>4. /\ e \in Entry /\ e.previous_hash = entries[i].previous_hash
        /\ e.entry_hash = entries[i].entry_hash
    BY <1>1, <2>2 DEF Entry
  <2> HIDE DEF e
  <2> QED BY <1>2, <2>3, <2>4, ChangeKeeps
<1>5. CASE RewriteEntry(i)
  <2> DEFINE payload == Payload(Altered, entries[i].payload.allow_branch)
  <2>1. PICK e \in {[entries[i] EXCEPT !.payload = payload, !.payload_hash = payload],
                    [entries[i] EXCEPT !.kind = Altered],
                    [entries[i] EXCEPT !.created_at = Altered]} :
          entries' = [entries EXCEPT ![i] = e]
    BY <1>5 DEF RewriteEntry
  <2>2. payload \in Given
    BY <1>1, <1>3 DEF Payload, Given, Entry
  <2> HIDE DEF payload
  <2>3. /\ e \in Entry /\ e.previous_hash = entries[i].previous_hash
        /\ e.entry_hash = entries[i].entry_hash
    BY <1>1, <1>3, <2>1, <2>2 DEF Entry
  <2> QED BY <1>2, <2>1, <2>3, ChangeKeeps
<1> QED BY <1>4, <1>5

(* What two sequences hold one after the other.                            *)
LEMMA Concatenated ==
  ASSUME NEW S, NEW left \in Seq(S), NEW right \in Seq(S)
  PROVE  /\ left \o right \in Seq(S) /\ Len(left \o right) = Len(left) + Len(right)
         /\ \A i \in 1..Len(left) : (left \o right)[i] = left[i]
         /\ \A i \in 1..Len(right) : (left \o right)[Len(left) + i] = right[i]
OBVIOUS

(* What a part of a sequence holds.                                        *)
LEMMA PartOf ==
  ASSUME NEW S, NEW s \in Seq(S), NEW a \in 1..(Len(s) + 1), NEW b \in (a - 1)..Len(s)
  PROVE  /\ SubSeq(s, a, b) \in Seq(S) /\ Len(SubSeq(s, a, b)) = b - a + 1
         /\ \A i \in 1..(b - a + 1) : SubSeq(s, a, b)[i] = s[(a + i) - 1]
OBVIOUS

(* A function on the first numbers is a sequence.                          *)
LEMMA FunctionIsSequence ==
  ASSUME NEW S, NEW n \in Nat, NEW f \in [1..n -> S]
  PROVE  f \in Seq(S) /\ Len(f) = n
OBVIOUS

(* An entry that is taken out is an edge that is gone, and the others stay *)
(* in their order.                                                         *)
LEMMA RemovalKeeps ==
  ASSUME ChainInv, NEW first \in 1..Len(entries), NEW last \in 1..Len(entries),
         RemoveEntries(first, last)
  PROVE  ChainInv'
<1> USE DEF ChainInv, LedgerShape
<1> DEFINE n == Len(entries) - (last - first + 1)
           at(i) == IF i < first THEN i ELSE i + (last - first + 1)
<1>1. /\ entries' = SubSeq(entries, 1, first - 1) \o SubSeq(entries, last + 1, Len(entries))
      /\ last \in first..Len(entries) /\ changes' = changes + 1
      /\ UNCHANGED <<by_prev, saved, appended, laundered, clock>>
  BY DEF RemoveEntries, Change
<1>2. /\ n \in Nat
      /\ \A i \in 1..n : at(i) \in 1..Len(entries) /\ at(i) # first
      /\ \A i, j \in 1..n : i < j => at(i) < at(j)
  BY <1>1
<1> DEFINE front == SubSeq(entries, 1, first - 1)
           back == SubSeq(entries, last + 1, Len(entries))
<1>3. /\ front \in Seq(Entry) /\ Len(front) = first - 1
      /\ \A i \in 1..(first - 1) : front[i] = entries[i]
      /\ back \in Seq(Entry) /\ Len(back) = Len(entries) - last
      /\ \A i \in 1..(Len(entries) - last) : back[i] = entries[last + i]
  <2>1. /\ 1 \in 1..(Len(entries) + 1) /\ first - 1 \in (1 - 1)..Len(entries)
        /\ last + 1 \in 1..(Len(entries) + 1)
        /\ Len(entries) \in ((last + 1) - 1)..Len(entries)
    BY <1>1
  <2>2. entries \in Seq(Entry) /\ Len(entries) \in Nat
    OBVIOUS
  <2>3. /\ front \in Seq(Entry) /\ Len(front) = (first - 1) - 1 + 1
        /\ \A i \in 1..((first - 1) - 1 + 1) : front[i] = entries[(1 + i) - 1]
    BY ONLY <2>1, <2>2, PartOf
  <2>4. /\ back \in Seq(Entry) /\ Len(back) = Len(entries) - (last + 1) + 1
        /\ \A i \in 1..(Len(entries) - (last + 1) + 1) : back[i] = entries[((last + 1) + i) - 1]
    BY ONLY <2>1, <2>2, PartOf
  <2> HIDE DEF front, back
  <2>5. first \in Nat /\ last \in Nat
    OBVIOUS
  <2> QED BY ONLY <2>2, <2>3, <2>4, <2>5
<1>4. /\ entries' \in Seq(Entry) /\ Len(entries') = (first - 1) + (Len(entries) - last)
      /\ \A i \in 1..(first - 1) : entries'[i] = front[i]
      /\ \A i \in 1..(Len(entries) - last) : entries'[(first - 1) + i] = back[i]
  <2>1. entries' = front \o back
    BY <1>1
  <2> HIDE DEF front, back
  <2>2. /\ front \o back \in Seq(Entry) /\ Len(front \o back) = Len(front) + Len(back)
        /\ \A i \in 1..Len(front) : (front \o back)[i] = front[i]
        /\ \A i \in 1..Len(back) : (front \o back)[Len(front) + i] = back[i]
    <3>1. front \in Seq(Entry) /\ back \in Seq(Entry)
      BY <1>3
    <3> QED BY ONLY <3>1, Concatenated
  <2>3. Len(front) = first - 1 /\ Len(back) = Len(entries) - last
    BY <1>3
  <2> QED BY ONLY <2>1, <2>2, <2>3
<1> HIDE DEF front, back
<1>5. entries' \in Seq(Entry) /\ Len(entries') = n
  <2>1. (first - 1) + (Len(entries) - last) = Len(entries) - (last - first + 1)
    BY <1>1
  <2> QED BY <1>4, <2>1 DEF n
<1>6. \A i \in 1..n : entries'[i] = entries[at(i)]
  <2> SUFFICES ASSUME NEW i \in 1..n PROVE entries'[i] = entries[at(i)]
    OBVIOUS
  <2>1. CASE i < first
    <3>1. i \in 1..(first - 1) /\ at(i) = i
      BY <1>1, <2>1 DEF at, n
    <3> QED BY <1>3, <1>4, <3>1
  <2>2. CASE ~(i < first)
    <3> DEFINE k == i - (first - 1)
    <3>1. k \in 1..(Len(entries) - last) /\ last + k = at(i) /\ (first - 1) + k = i
      BY <1>1, <2>2 DEF at, n
    <3> HIDE DEF k
    <3>2. entries'[(first - 1) + k] = back[k] /\ back[k] = entries[last + k]
      BY <1>3, <1>4, <3>1
    <3> QED BY <3>1, <3>2
  <2> QED BY <2>1, <2>2
<1> HIDE DEF at, n
<1>7. LedgerShape' /\ Tree'
  BY <1>1, <1>5 DEF Tree
<1>8. OfTree'
  <2>1. \A i \in 1..n : <<entries'[i].previous_hash, entries'[i].entry_hash>> \in by_prev'
    BY <1>1, <1>2, <1>6 DEF OfTree
  <2>2. ASSUME NEW i \in 1..n, NEW j \in 1..n, i < j
        PROVE  /\ entries'[i].entry_hash # entries'[j].entry_hash
               /\ entries'[i].previous_hash # entries'[j].entry_hash
    <3>1. at(i) \in 1..Len(entries) /\ at(j) \in 1..Len(entries) /\ at(i) < at(j)
      BY <1>2, <2>2
    <3>2. entries'[i] = entries[at(i)] /\ entries'[j] = entries[at(j)]
      BY <1>6
    <3> QED BY <3>1, <3>2 DEF OfTree
  <2>3. ASSUME NEW i \in 1..n, NEW edge \in by_prev',
               edge[1] = entries'[i].previous_hash, edge[2] # entries'[i].entry_hash
        PROVE  LastMark(entries'[i].entry_hash).payload.allow_branch
    <3>1. at(i) \in 1..Len(entries) /\ entries'[i] = entries[at(i)] /\ edge \in by_prev
      BY <1>1, <1>2, <1>6
    <3> QED BY <2>3, <3>1 DEF OfTree
  <2> QED BY <1>5, <2>1, <2>2, <2>3 DEF OfTree
<1>9. Gone'
  <2>1. CASE Gone
    BY <1>1, <1>2, <1>5, <1>6, <2>1 DEF Gone
  <2>2. CASE Whole
    <3>1. <<entries[first].previous_hash, entries[first].entry_hash>> \in by_prev
      BY DEF OfTree
    <3>2. \A i \in 1..n : entries'[i].entry_hash # entries[first].entry_hash
      <4> SUFFICES ASSUME NEW i \in 1..n
                   PROVE  entries'[i].entry_hash # entries[first].entry_hash
        OBVIOUS
      <4>1. at(i) \in 1..Len(entries) /\ (at(i) < first \/ first < at(i))
        BY <1>2
      <4> QED BY <1>6, <4>1 DEF OfTree
    <3> QED BY <1>1, <1>5, <3>1, <3>2 DEF Gone
  <2> QED BY <2>1, <2>2
<1> QED BY <1>1, <1>7, <1>8, <1>9 DEF Untouched

(* What is saved is what is in memory, and called laundered if that is not *)
(* what was appended.                                                      *)
LEMMA SaveKeeps ==
  ASSUME ChainInv, save
  PROVE  ChainInv'
<1> USE DEF ChainInv, LedgerShape
<1>1. PICK status \in {"whole", "torn"} :
        saved' = [status |-> status, items |-> Items(entries), appended |-> appended,
                  laundered |-> laundered \/ Items(entries) # appended]
  BY DEF save
<1>2. UNCHANGED <<entries, by_prev, appended, laundered, clock, changes>>
  BY DEF save
<1>3. Items(entries) \in Seq(Item)
  <2>1. \A i \in 1..Len(entries) :
          [kind |-> entries[i].kind, content |-> entries[i].payload.content] \in Item
    <3>1. \A i \in 1..Len(entries) : entries[i] \in Entry
      OBVIOUS
    <3> QED BY <3>1 DEF Entry, Item, Given
  <2> QED BY <2>1 DEF Items
<1>4. /\ saved' \in File /\ saved'.items = Items(entries) /\ saved'.appended = appended
      /\ (saved'.laundered <=> laundered \/ Items(entries) # appended)
  BY <1>1, <1>3 DEF File
<1>5. Untouched'
  <2>1. SUFFICES ASSUME changes = 0 PROVE ~laundered /\ ~saved'.laundered /\ Whole
                                          /\ Linked(entries) /\ Intact(entries)
    BY <1>2 DEF Untouched, Whole, Linked, Intact, Children
  <2>2. ~laundered /\ Whole /\ Linked(entries) /\ Intact(entries)
    BY <2>1 DEF Untouched
  <2>3. Items(entries) = appended
    BY <2>2, WholeItems DEF Intact
  <2> QED BY <1>4, <2>2, <2>3
<1>6. Tree' /\ OfTree' /\ (Whole => Whole') /\ (Gone => Gone')
  BY <1>2 DEF Tree, OfTree, Whole, Gone, Children
<1> QED BY <1>2, <1>4, <1>5, <1>6

(* A change in the file is one that goes through it.                       *)
LEMMA EditKeeps ==
  ASSUME ChainInv, NEW i \in 1..Len(saved.items), EditSaved(i)
  PROVE  ChainInv'
<1> USE DEF ChainInv, LedgerShape
<1>1. PICK items \in {[saved.items EXCEPT ![i].content = Altered],
                      [saved.items EXCEPT ![i].kind = Altered], SubSeq(saved.items, 1, i - 1)} :
        saved' = [saved EXCEPT !.items = items, !.laundered = TRUE]
  BY DEF EditSaved
<1>2. changes' = changes + 1 /\ UNCHANGED <<entries, by_prev, appended, laundered, clock>>
  BY DEF EditSaved, Change
<1>3. items \in Seq(Item)
  <2>1. saved.items \in Seq(Item) /\ saved.items[i] \in Item
    BY DEF File
  <2>2. SubSeq(saved.items, 1, i - 1) \in Seq(Item)
    BY <2>1
  <2> DEFINE changed == [saved.items[i] EXCEPT !.content = Altered]
             retold == [saved.items[i] EXCEPT !.kind = Altered]
  <2>3. changed \in Item /\ retold \in Item
    BY <2>1 DEF Item, Kind, Content
  <2> HIDE DEF changed, retold
  <2>4. [saved.items EXCEPT ![i] = changed] \in Seq(Item)
        /\ [saved.items EXCEPT ![i] = retold] \in Seq(Item)
    BY <2>1, <2>3
  <2> QED BY <2>2, <2>4 DEF changed, retold
<1>4. saved'.laundered /\ saved' \in File
  BY <1>1, <1>3 DEF File
<1>5. Tree' /\ OfTree' /\ (Whole => Whole') /\ (Gone => Gone')
  BY <1>2 DEF Tree, OfTree, Whole, Gone, Children
<1> QED BY <1>2, <1>4, <1>5 DEF Untouched

(* A ledger that is loaded is one that was appended to, item by item.      *)
LEMMA LoadKeeps ==
  ASSUME ChainInv, load
  PROVE  ChainInv'
<1> USE DEF ChainInv, LedgerShape
<1> DEFINE items == saved.items
           n == Len(items)
           mark(j) == Mark(items[j].kind, clock, Payload(items[j].content, TRUE))
           tip(i) == [j \in 1..i |-> mark(j)]
           list == [i \in 1..n |-> NewEntry(tip(i - 1), items[i], TRUE, clock)]
<1>1. n \in Nat /\ items \in Seq(Item) /\ \A i \in 1..n : items[i] \in Item
  BY DEF File
<1>2. /\ entries' = list /\ by_prev' = Children(list)
      /\ appended' = saved.appended /\ laundered' = saved.laundered
      /\ clock' = clock + 1 /\ UNCHANGED <<saved, changes>>
  BY DEF load
<1>3. \A i \in 1..n : mark(i) \in Marks
  BY <1>1 DEF Mark, Marks, Payload, Given, Item
<1> HIDE DEF items, mark
<1>4. \A i \in 0..n : tip(i) \in Digest /\ Len(tip(i)) = i
  <2> SUFFICES ASSUME NEW i \in 0..n PROVE tip(i) \in Digest /\ Len(tip(i)) = i
    OBVIOUS
  <2>1. i \in Nat /\ \A j \in 1..i : mark(j) \in Marks
    BY <1>1, <1>3
  <2>2. tip(i) \in [1..i -> Marks]
    BY <2>1
  <2> QED BY <2>1, <2>2 DEF Digest
<1>5. \A i \in 1..n : tip(i) = Append(tip(i - 1), mark(i))
  <2> SUFFICES ASSUME NEW i \in 1..n PROVE tip(i) = Append(tip(i - 1), mark(i))
    OBVIOUS
  <2>1. i - 1 \in 0..n /\ Len(tip(i - 1)) = i - 1 /\ tip(i - 1) \in Digest
    BY <1>1, <1>4
  <2> QED BY <1>1, <1>3, <2>1 DEF Digest
<1>6. tip(0) = <<>>
  OBVIOUS
<1> HIDE DEF tip
<1>7. \A i \in 1..n : /\ list[i] \in Entry /\ list[i].payload = list[i].payload_hash
                      /\ list[i].previous_hash = tip(i - 1) /\ list[i].entry_hash = tip(i)
                      /\ Sealed(list[i]) /\ LastMark(list[i].entry_hash).created_at = clock
                      /\ ItemOf(list[i].entry_hash) = items[i]
  <2> SUFFICES ASSUME NEW i \in 1..n
               PROVE  /\ list[i] \in Entry /\ list[i].payload = list[i].payload_hash
                      /\ list[i].previous_hash = tip(i - 1) /\ list[i].entry_hash = tip(i)
                      /\ Sealed(list[i]) /\ LastMark(list[i].entry_hash).created_at = clock
                      /\ ItemOf(list[i].entry_hash) = items[i]
    OBVIOUS
  <2>1. i - 1 \in 0..n
    BY <1>1
  <2>2. tip(i - 1) \in Digest /\ items[i] \in Item
    BY <1>1, <1>4, <2>1
  <2>3. list[i] = NewEntry(tip(i - 1), items[i], TRUE, clock)
    OBVIOUS
  <2>4. tip(i) = Append(tip(i - 1), Mark(items[i].kind, clock, Payload(items[i].content, TRUE)))
    BY <1>5 DEF mark
  <2> DEFINE before == tip(i - 1)
             e == NewEntry(before, items[i], TRUE, clock)
  <2> HIDE DEF list, before
  <2>5. /\ e \in Entry /\ e.payload = e.payload_hash /\ e.previous_hash = before
        /\ e.entry_hash = Append(before, Mark(items[i].kind, clock, Payload(items[i].content, TRUE)))
        /\ Sealed(e) /\ LastMark(e.entry_hash).created_at = clock
        /\ ItemOf(e.entry_hash) = items[i]
    <3>1. before \in Digest
      BY <2>2 DEF before
    <3>2. clock \in Nat
      OBVIOUS
    <3> DEFINE item == items[i]
    <3>3. item \in Item
      BY <2>2
    <3> HIDE DEF item
    <3>4. ASSUME NEW branch \in BOOLEAN, NEW new, new = NewEntry(before, item, branch, clock)
          PROVE  /\ new \in Entry /\ new.payload = new.payload_hash /\ new.previous_hash = before
                 /\ new.entry_hash =
                      Append(before, Mark(item.kind, clock, Payload(item.content, branch)))
                 /\ Sealed(new) /\ LastMark(new.entry_hash).created_at = clock
                 /\ ItemOf(new.entry_hash) = item
      BY ONLY <3>1, <3>2, <3>3, <3>4, EntryFacts
    <3> QED BY <3>4 DEF item
  <2> QED BY <2>3, <2>4, <2>5 DEF before
<1>8. list \in Seq(Entry) /\ Len(list) = n
  <2>1. list \in [1..n -> Entry]
    BY <1>7
  <2> HIDE DEF list
  <2> QED BY <1>1, <2>1, FunctionIsSequence
<1> HIDE DEF list, n
<1>9. \A edge \in by_prev' : \E i \in 1..n : edge[1] = tip(i - 1) /\ edge[2] = tip(i)
  BY <1>2, <1>7, <1>8 DEF Children
<1>10. by_prev' = Children(entries') /\ entries' \in Seq(Entry) /\ Len(entries') = n
  BY <1>2, <1>8
<1>11. LedgerShape'
  <2>1. \A i \in 1..n : tip(i - 1) \in Digest /\ tip(i) \in Digest
    BY <1>1, <1>4
  <2>2. by_prev' \in SUBSET (Digest \X Digest)
    BY <1>2, <1>7, <1>8, <2>1 DEF Children
  <2>3. saved.appended \in Seq(Item) /\ saved.laundered \in BOOLEAN
    BY DEF File
  <2> QED BY <1>2, <1>8, <2>2, <2>3
<1>12. Tree'
  <2> SUFFICES ASSUME NEW edge \in by_prev'
               PROVE  /\ Len(edge[2]) = Len(edge[1]) + 1
                      /\ LastMark(edge[2]).created_at < clock'
                      /\ edge[1] = <<>> \/ \E other \in by_prev' : other[2] = edge[1]
    BY DEF Tree
  <2>1. PICK i \in 1..n : edge[1] = tip(i - 1) /\ edge[2] = tip(i)
    BY <1>9
  <2>2. Len(tip(i - 1)) = i - 1 /\ Len(tip(i)) = i
    BY <1>1, <1>4
  <2>3. LastMark(edge[2]).created_at = clock
    BY <1>7, <2>1
  <2>4. CASE i = 1
    BY <1>2, <1>6, <2>1, <2>2, <2>3, <2>4
  <2>5. CASE i # 1
    <3>1. i - 1 \in 1..n
      BY <1>1, <2>5
    <3>2. <<list[i - 1].previous_hash, list[i - 1].entry_hash>> \in by_prev'
      BY <1>2, <1>8, <3>1 DEF Children
    <3>3. list[i - 1].entry_hash = tip(i - 1)
      BY <1>7, <3>1
    <3> QED BY <1>2, <2>1, <2>2, <2>3, <3>2, <3>3
  <2> QED BY <2>4, <2>5
<1>13. OfTree'
  <2>1. \A i \in 1..n : <<entries'[i].previous_hash, entries'[i].entry_hash>> \in by_prev'
    BY <1>10 DEF Children
  <2>2. \A i \in 1..n : entries'[i].previous_hash = tip(i - 1) /\ entries'[i].entry_hash = tip(i)
    BY <1>2, <1>7
  <2>3. \A i \in 1..n : Len(tip(i - 1)) = i - 1 /\ Len(tip(i)) = i
    BY <1>1, <1>4
  <2>4. \A i, j \in 1..n :
          i < j => /\ entries'[i].entry_hash # entries'[j].entry_hash
                   /\ entries'[i].previous_hash # entries'[j].entry_hash
    BY <2>2, <2>3
  <2>5. ASSUME NEW i \in 1..n, NEW edge \in by_prev', edge[1] = entries'[i].previous_hash
        PROVE  edge[2] = entries'[i].entry_hash
    <3>1. PICK j \in 1..n : edge[1] = tip(j - 1) /\ edge[2] = tip(j)
      BY <1>9
    <3>2. tip(j - 1) = tip(i - 1)
      BY <2>2, <2>5, <3>1
    <3>3. j = i
      BY <2>3, <3>2
    <3> QED BY <2>2, <3>1, <3>3
  <2> QED BY <1>10, <2>1, <2>4, <2>5 DEF OfTree
<1>14. Whole'
  <2>1. ASSUME ~laundered'
        PROVE  /\ Len(appended') = Len(entries')
               /\ \A i \in 1..Len(entries') : ItemOf(entries'[i].entry_hash) = appended'[i]
    <3>1. appended' = items
      BY <1>2, <2>1 DEF items
    <3> QED BY <1>2, <1>7, <1>8, <3>1 DEF n
  <2> QED BY <1>10, <2>1 DEF Whole
<1>15. Linked(entries') /\ Intact(entries')
  <2>1. Intact(entries')
    BY <1>2, <1>7, <1>8 DEF Intact
  <2>2. ASSUME NEW i \in 1..n
        PROVE  list[i].previous_hash = IF i = 1 THEN <<>> ELSE list[i - 1].entry_hash
    <3>1. list[i].previous_hash = tip(i - 1)
      BY <1>7
    <3>2. i # 1 => i - 1 \in 1..n
      BY <1>1
    <3> QED BY <1>6, <1>7, <3>1, <3>2
  <2> QED BY <1>2, <1>8, <2>1, <2>2 DEF Linked
<1> QED BY <1>2, <1>11, <1>12, <1>13, <1>14, <1>15 DEF Untouched

(* Every step of the ledger, its callers and the file keeps it.            *)
LEMMA ChainStep == ChainInv /\ [EvidenceStep]_evidenceVars => ChainInv'
<1>1. ASSUME ChainInv, UNCHANGED evidenceVars PROVE ChainInv'
  BY <1>1 DEF evidenceVars, ChainInv, LedgerShape, Tree, OfTree, Whole, Gone, Children,
              Untouched, Linked, Intact
<1> QED BY <1>1, AppendKeeps, MutationKeeps, RemovalKeeps, SaveKeeps, LoadKeeps, EditKeeps
        DEF EvidenceStep

(* A set of numbers has a least one.                                       *)
LEMMA LeastNumber ==
  ASSUME NEW S \in SUBSET Nat, S # {}
  PROVE  \E n \in S : \A m \in S : n <= m
<1> DEFINE Less == OpToRel(<, Nat)
<1>1. IsWellFoundedOn(Less, Nat)
  BY NatLessThanWellFounded
<1> HIDE DEF Less
<1>2. PICK n \in S : \A m \in S : <<m, n>> \notin Less
  BY <1>1, WFMin
<1>3. \A m \in S : ~(m < n)
  BY <1>2 DEF Less, OpToRel
<1> QED BY <1>2, <1>3

(* Where something is gone from a list whose links and hashes are right,   *)
(* the highest of it was made below the tip or beside an entry of the list,*)
(* which is then a marked one.                                             *)
LEMMA LossIsSeen ==
  ASSUME ChainInv, Gone, Linked(entries), \A i \in 1..Len(entries) : Sealed(entries[i])
  PROVE  LossShows
<1> USE DEF ChainInv, LedgerShape
<1> DEFINE Off == {edge \in by_prev : \A i \in 1..Len(entries) : entries[i].entry_hash # edge[2]}
           Depths == {Len(edge[2]) : edge \in Off}
<1>1. \A edge \in by_prev : edge[1] \in Digest /\ edge[2] \in Digest
  OBVIOUS
<1>2. Depths \in SUBSET Nat /\ Depths # {}
  <2>1. \A edge \in by_prev : Len(edge[2]) \in Nat
    BY <1>1 DEF Digest
  <2>2. Off # {} /\ Off \subseteq by_prev
    BY DEF Gone
  <2> HIDE DEF Off
  <2> QED BY <2>1, <2>2
<1>3. PICK n \in Depths : \A m \in Depths : n <= m
  BY <1>2, LeastNumber
<1>4. PICK edge \in Off : n = Len(edge[2])
  BY <1>3
<1>5. edge[1] = <<>> \/ \E i \in 1..Len(entries) : entries[i].entry_hash = edge[1]
  <2> SUFFICES ASSUME edge[1] # <<>> PROVE \E i \in 1..Len(entries) : entries[i].entry_hash = edge[1]
    OBVIOUS
  <2>1. PICK other \in by_prev : other[2] = edge[1]
    BY <1>4 DEF Tree
  <2>2. Len(edge[2]) = Len(other[2]) + 1 /\ Len(other[2]) \in Nat
    BY <1>1, <1>4, <2>1 DEF Tree, Digest
  <2>3. other \notin Off
    <3> HIDE DEF Off
    <3>1. ASSUME other \in Off PROVE n <= Len(other[2])
      BY <1>3, <3>1
    <3> QED BY <1>4, <2>2, <3>1
  <2> QED BY <2>1, <2>3
<1>6. CASE edge[1] = tip_hash(entries)
  BY <1>4, <1>6 DEF LossShows, HasChild
<1>7. CASE edge[1] # tip_hash(entries)
  <2>1. PICK i \in 1..Len(entries) : entries[i].previous_hash = edge[1]
    <3>1. CASE edge[1] = <<>>
      <4>1. 1 \in 1..Len(entries)
        BY <1>7, <3>1 DEF tip_hash
      <4> QED BY <3>1, <4>1 DEF Linked
    <3>2. CASE \E j \in 1..Len(entries) : entries[j].entry_hash = edge[1]
      <4>1. PICK j \in 1..Len(entries) : entries[j].entry_hash = edge[1]
        BY <3>2
      <4>2. j # Len(entries)
        BY <1>7, <4>1 DEF tip_hash
      <4>3. j + 1 \in 1..Len(entries) /\ j + 1 # 1 /\ (j + 1) - 1 = j
        BY <4>2
      <4>4. entries[j + 1].previous_hash = entries[j].entry_hash
        BY <4>3 DEF Linked
      <4> QED BY <4>1, <4>3, <4>4
    <3> QED BY <1>5, <3>1, <3>2
  <2>2. edge \in by_prev /\ edge[2] # entries[i].entry_hash
    BY <1>4
  <2>3. LastMark(entries[i].entry_hash).payload.allow_branch
    BY <2>1, <2>2 DEF OfTree
  <2>4. entries[i] \in Entry
    OBVIOUS
  <2>5. LastMark(entries[i].entry_hash).payload = entries[i].payload_hash
    BY <2>4, SealedItems
  <2> QED BY <2>1, <2>2, <2>3, <2>5 DEF LossShows
<1> QED BY <1>6, <1>7

(* A chain that verifies with the hashes of its entries holds all that was *)
(* appended, or the loss of its end shows, through any number of changes,  *)
(* saves and loads; and an untouched one is complete and takes its next    *)
(* entry.                                                                  *)
THEOREM ChainAlwaysRight == EvidenceSpec => []ChainIsRight
<1>1. ASSUME ChainInv, verify_chain(entries) = {}, ~laundered,
             \A i \in 1..Len(entries) : Sealed(entries[i])
      PROVE  Items(entries) = appended \/ LossShows
  <2>1. Linked(entries) /\ \A i \in 1..Len(entries) : payload_ok(entries[i])
    BY <1>1 DEF verify_chain, Linked
  <2>2. ASSUME NEW i \in 1..Len(entries)
        PROVE  entries[i].payload.content = entries[i].payload_hash.content
    <3>1. payload_ok(entries[i])
      BY <2>1
    <3>2. Payload(entries[i].payload.content, FALSE).content = entries[i].payload.content
      BY DEF Payload
    <3> QED BY <3>1, <3>2 DEF payload_ok
  <2>3. CASE Whole
    BY <1>1, <2>2, <2>3, WholeItems
  <2>4. CASE Gone
    BY <1>1, <2>1, <2>4, LossIsSeen
  <2> QED BY <1>1, <2>3, <2>4 DEF ChainInv
<1>2. ASSUME ChainInv, changes = 0
      PROVE  verify_chain(entries) = {} /\ Items(entries) = appended /\ ~LossShows
  <2>1. ~laundered /\ Whole /\ Linked(entries) /\ Intact(entries)
    BY <1>2 DEF ChainInv, Untouched
  <2>2. verify_chain(entries) = {}
    BY <2>1 DEF verify_chain, Linked, Intact, payload_ok
  <2>3. Items(entries) = appended
    BY <1>2, <2>1, WholeItems DEF Intact
  <2>4. \A edge \in by_prev : \E j \in 1..Len(entries) :
          edge[1] = entries[j].previous_hash /\ edge[2] = entries[j].entry_hash
    BY <2>1 DEF Whole, Children
  <2>5. ~HasChild(tip_hash(entries))
    BY <1>2, <2>4, TipFacts DEF HasChild
  <2>6. ASSUME NEW i \in 1..Len(entries), NEW j \in 1..Len(entries),
               entries[i].previous_hash = entries[j].previous_hash
        PROVE  i = j
    <3> USE DEF ChainInv, LedgerShape
    <3>1. \A k, m \in 1..Len(entries) : k < m => entries[k].previous_hash # entries[m].previous_hash
      <4> SUFFICES ASSUME NEW k \in 1..Len(entries), NEW m \in 1..Len(entries), k < m
                   PROVE  entries[k].previous_hash # entries[m].previous_hash
        OBVIOUS
      <4>1. m - 1 \in 1..Len(entries) /\ entries[m].previous_hash = entries[m - 1].entry_hash
        BY <2>1 DEF Linked
      <4>2. CASE k = m - 1
        <5>1. <<entries[k].previous_hash, entries[k].entry_hash>> \in by_prev
          BY <1>2 DEF OfTree
        <5>2. Len(entries[k].entry_hash) = Len(entries[k].previous_hash) + 1
          BY <1>2, <5>1 DEF Tree
        <5>3. entries[k].previous_hash \in Digest
          <6>1. entries[k] \in Entry
            BY <1>2
          <6> QED BY <6>1 DEF Entry
        <5> QED BY <4>1, <4>2, <5>2, <5>3 DEF Digest
      <4>3. CASE k < m - 1
        BY <1>2, <4>1, <4>3 DEF OfTree
      <4> QED BY <4>1, <4>2, <4>3
    <3> QED BY <2>6, <3>1
  <2>7. ~LossShows
    BY <2>4, <2>5, <2>6 DEF LossShows
  <2> QED BY <2>2, <2>3, <2>7
<1>3. ChainInv => ChainIsRight
  BY <1>1, <1>2 DEF ChainIsRight
<1> QED BY <1>3, ChainStart, ChainStep, PTL DEF EvidenceSpec

-----------------------------------------------------------------------------
(* Of a Merkle tree.  What a recursive function computes is proved by      *)
(* induction on the set of numbers for which it is so.                     *)

(* A set that holds 0, and n + 1 with every n, holds all numbers.          *)
LEMMA SetInduction ==
  ASSUME NEW T, 0 \in T, \A n \in Nat : n \in T => n + 1 \in T
  PROVE  Nat \subseteq T
<1> DEFINE Less == OpToRel(<, Nat)
           Rest == {n \in Nat : n \notin T}
<1>1. IsWellFoundedOn(Less, Nat)
  BY NatLessThanWellFounded
<1> HIDE DEF Less
<1>2. SUFFICES ASSUME Rest # {} PROVE FALSE
  OBVIOUS
<1>3. Rest \subseteq Nat
  OBVIOUS
<1> HIDE DEF Rest
<1>4. PICK n \in Rest : \A m \in Rest : <<m, n>> \notin Less
  BY <1>1, <1>2, <1>3, WFMin
<1>5. \A m \in Rest : ~(m < n)
  BY <1>3, <1>4 DEF Less, OpToRel
<1> QED BY <1>3, <1>5 DEF Rest

(* The least of some numbers.                                              *)
LEMMA LeastOf ==
  ASSUME NEW S \in SUBSET Nat, S # {}
  PROVE  \E i \in S : \A j \in 0..(i - 1) : j \notin S
<1> DEFINE Less == OpToRel(<, Nat)
<1>1. IsWellFoundedOn(Less, Nat)
  BY NatLessThanWellFounded
<1> HIDE DEF Less
<1>2. PICK i \in S : \A j \in S : <<j, i>> \notin Less
  BY <1>1, WFMin
<1>3. \A j \in S : ~(j < i)
  BY <1>2 DEF Less, OpToRel
<1> QED BY <1>3

(* The layers of a tree are what their definition says.                    *)
LEMMA LayersDefined ==
  ASSUME NEW list, Len(list) \in Nat
  PROVE  layers(list) =
           [k \in 0..Len(list) |->
              IF k = 0 THEN [i \in 1..Len(list) |-> _leaf(list[i])]
              ELSE parents(layers(list)[k - 1])]
<1> DEFINE bottom == [i \in 1..Len(list) |-> _leaf(list[i])]
           Tower(f, n) == f = [k \in 0..n |-> IF k = 0 THEN bottom ELSE parents(f[k - 1])]
           T == {n \in Nat : \E f : Tower(f, n)}
<1> HIDE DEF bottom
<1>1. 0 \in T
  <2> DEFINE f == [k \in 0..0 |-> bottom]
  <2>1. Tower(f, 0)
    OBVIOUS
  <2> QED BY <2>1
<1>2. ASSUME NEW n \in Nat, n \in T PROVE n + 1 \in T
  <2>1. PICK f : Tower(f, n)
    BY <1>2
  <2>2. \A k \in 0..n : f[k] = IF k = 0 THEN bottom ELSE parents(f[k - 1])
    BY <2>1
  <2> DEFINE g == [k \in 0..(n + 1) |-> IF k = n + 1 THEN parents(f[n]) ELSE f[k]]
  <2>3. \A k \in 0..n : g[k] = f[k]
    OBVIOUS
  <2>4. \A k \in 0..(n + 1) : g[k] = IF k = 0 THEN bottom ELSE parents(g[k - 1])
    <3> SUFFICES ASSUME NEW k \in 0..(n + 1)
                 PROVE  g[k] = IF k = 0 THEN bottom ELSE parents(g[k - 1])
      OBVIOUS
    <3>1. CASE k = n + 1
      <4>1. g[k - 1] = f[n] /\ g[k] = parents(f[n]) /\ k # 0
        BY <3>1
      <4> QED BY <4>1
    <3>2. CASE k \in 0..n
      <4>1. k = 0 \/ k - 1 \in 0..n
        BY <3>2
      <4> QED BY <2>2, <2>3, <3>2, <4>1
    <3> QED BY <3>1, <3>2
  <2>5. g = [k \in 0..(n + 1) |-> g[k]]
    OBVIOUS
  <2> HIDE DEF g
  <2>6. Tower(g, n + 1)
    BY <2>4, <2>5
  <2> QED BY <2>6
<1>3. PICK f : Tower(f, Len(list))
  <2> HIDE DEF T
  <2>1. Len(list) \in T
    BY <1>1, <1>2, SetInduction
  <2> QED BY <2>1 DEF T
<1>4. layers(list) =
        CHOOSE g : g = [k \in 0..Len(list) |-> IF k = 0 THEN bottom ELSE parents(g[k - 1])]
  BY DEF layers, bottom
<1>5. Tower(layers(list), Len(list))
  BY <1>3, <1>4, Zenon
<1> QED BY <1>5 DEF bottom

(* Of two neighbours one is even.                                          *)
LEMMA Halves ==
  ASSUME NEW i \in Nat \ {0}
  PROVE  (i + 1) \div 2 \in Nat \ {0} /\ i \in {2 * ((i + 1) \div 2) - 1, 2 * ((i + 1) \div 2)}
OBVIOUS

(* A layer of parents has half as many nodes as the one below it.          *)
LEMMA ParentsFacts ==
  ASSUME NEW layer, Len(layer) \in Nat \ {0}
  PROVE  /\ Len(parents(layer)) = (Len(layer) + 1) \div 2
         /\ Len(parents(layer)) \in Nat \ {0}
         /\ Len(layer) = 1 => Len(parents(layer)) = 1
         /\ Len(layer) > 1 => Len(parents(layer)) < Len(layer)
         /\ \A i \in 1..Len(parents(layer)) :
              parents(layer)[i] =
                node(layer[2 * i - 1], layer[IF 2 * i > Len(layer) THEN 2 * i - 1 ELSE 2 * i])
<1>1. Len(parents(layer)) = (Len(layer) + 1) \div 2
  BY DEF parents
<1>2. \A i \in 1..((Len(layer) + 1) \div 2) :
        parents(layer)[i] =
          node(layer[2 * i - 1], layer[IF 2 * i > Len(layer) THEN 2 * i - 1 ELSE 2 * i])
  BY DEF parents
<1> QED BY <1>1, <1>2

(* The layers of a list that is not empty have nodes, and get smaller.     *)
LEMMA LayerFacts ==
  ASSUME NEW list, Len(list) \in Nat \ {0}
  PROVE  /\ layers(list)[0] = [i \in 1..Len(list) |-> _leaf(list[i])]
         /\ Len(layers(list)[0]) = Len(list)
         /\ \A k \in 1..Len(list) : layers(list)[k] = parents(layers(list)[k - 1])
         /\ \A k \in 0..Len(list) :
              /\ Len(layers(list)[k]) \in Nat \ {0}
              /\ Len(layers(list)[k]) = 1 \/ Len(layers(list)[k]) <= Len(list) - k
<1> DEFINE up == layers(list)
           bottom == [i \in 1..Len(list) |-> _leaf(list[i])]
           Right(k) == /\ Len(up[k]) \in Nat \ {0}
                       /\ Len(up[k]) = 1 \/ Len(up[k]) <= Len(list) - k
           T == {k \in Nat : k <= Len(list) => Right(k)}
<1>1. up = [k \in 0..Len(list) |-> IF k = 0 THEN bottom ELSE parents(up[k - 1])]
  BY LayersDefined
<1>2. bottom = [i \in 1..Len(list) |-> _leaf(list[i])] /\ Len(bottom) = Len(list)
  OBVIOUS
<1> HIDE DEF up, bottom
<1>3. up[0] = bottom /\ \A k \in 1..Len(list) : up[k] = parents(up[k - 1])
  BY <1>1
<1>4. 0 \in T
  BY <1>2, <1>3
<1>5. ASSUME NEW n \in Nat, n \in T PROVE n + 1 \in T
  <2>1. SUFFICES ASSUME n + 1 <= Len(list) PROVE Right(n + 1)
    OBVIOUS
  <2>2. Right(n) /\ up[n + 1] = parents(up[n])
    BY <1>3, <1>5, <2>1
  <2>3. /\ Len(parents(up[n])) \in Nat \ {0}
        /\ Len(up[n]) = 1 => Len(parents(up[n])) = 1
        /\ Len(up[n]) > 1 => Len(parents(up[n])) < Len(up[n])
    BY <2>2, ParentsFacts
  <2>4. Len(up[n]) \in Nat \ {0} /\ (Len(up[n]) = 1 \/ Len(up[n]) <= Len(list) - n)
    BY <2>2
  <2>5. \/ Len(parents(up[n])) = 1
        \/ Len(parents(up[n])) <= Len(list) - (n + 1)
    <3> DEFINE m == Len(up[n])
               p == Len(parents(up[n]))
    <3>1. p \in Nat /\ m \in Nat /\ (m = 1 => p = 1) /\ (m > 1 => p < m)
      BY <2>3, <2>4
    <3>2. (m = 1 \/ m <= Len(list) - n) /\ m # 0
      BY <2>4
    <3> HIDE DEF m, p
    <3>3. p = 1 \/ p <= Len(list) - (n + 1)
      BY <3>1, <3>2
    <3> QED BY <3>3 DEF p
  <2> QED BY <2>2, <2>3, <2>5
<1>6. \A k \in 0..Len(list) : Right(k)
  <2> HIDE DEF Right
  <2>1. Nat \subseteq T
    <3> HIDE DEF T
    <3> QED BY <1>4, <1>5, SetInduction
  <2> QED BY <2>1
<1> QED BY <1>2, <1>3, <1>6 DEF up

(* So one of them has one node, and the first of them is the top.          *)
LEMMA HeightFacts ==
  ASSUME NEW list, Len(list) \in Nat \ {0}
  PROVE  /\ height(list) \in 0..Len(list)
         /\ Len(layers(list)[height(list)]) = 1
         /\ \A k \in 0..(height(list) - 1) : Len(layers(list)[k]) # 1
<1> DEFINE S == {k \in 0..Len(list) : Len(layers(list)[k]) = 1}
<1>1. Len(list) \in S
  <2>1. /\ Len(layers(list)[Len(list)]) \in Nat \ {0}
        /\ \/ Len(layers(list)[Len(list)]) = 1
           \/ Len(layers(list)[Len(list)]) <= Len(list) - Len(list)
    <3>1. Len(list) \in 0..Len(list)
      OBVIOUS
    <3> QED BY <3>1, LayerFacts, Zenon
  <2> QED BY <2>1
<1>2. S \in SUBSET Nat
  OBVIOUS
<1> HIDE DEF S
<1>3. PICK h \in S : \A j \in 0..(h - 1) : j \notin S
  BY <1>1, <1>2, LeastOf
<1>4. /\ h \in 0..Len(list) /\ Len(layers(list)[h]) = 1
      /\ \A k \in 0..(h - 1) : Len(layers(list)[k]) # 1
  BY <1>3 DEF S
<1> QED BY <1>4, Zenon DEF height

-----------------------------------------------------------------------------
(* One layer pads another if it begins with it and adds nodes of it only.  *)
Pads(long, short) ==
  /\ Len(short) <= Len(long)
  /\ \A i \in 1..Len(short) : long[i] = short[i]
  /\ \A i \in 1..Len(long) : \E j \in 1..Len(short) : long[i] = short[j]

(* A node names its two children, and is not the hash of a leaf.           *)
LEMMA NodeFacts ==
  ASSUME NEW a, NEW b, NEW c, NEW d
  PROVE  /\ node(a, b) = node(c, d) => a = c /\ b = d
         /\ _leaf(a) = _leaf(c) => a = c
         /\ _leaf(a) # node(c, d) /\ _leaf(a) # <<"empty">> /\ node(a, b) # <<"empty">>
BY DEF node, _leaf

(* What pads among the parents pads among the children.                    *)
LEMMA PadsDown ==
  ASSUME NEW long, NEW short, Len(long) \in Nat \ {0}, Len(short) \in Nat \ {0},
         Len(short) <= Len(long), Pads(parents(long), parents(short))
  PROVE  Pads(long, short)
<1> DEFINE right(layer, i) == IF 2 * i > Len(layer) THEN 2 * i - 1 ELSE 2 * i
<1>1. ASSUME NEW i \in 1..Len(parents(long)), NEW j \in 1..Len(parents(short)),
             parents(long)[i] = parents(short)[j]
      PROVE  /\ long[2 * i - 1] = short[2 * j - 1]
             /\ long[right(long, i)] = short[right(short, j)]
  BY <1>1, ParentsFacts, NodeFacts
<1>2. ASSUME NEW layer, Len(layer) \in Nat \ {0}, NEW i \in 1..Len(layer)
      PROVE  /\ (i + 1) \div 2 \in 1..Len(parents(layer))
             /\ i \in {2 * ((i + 1) \div 2) - 1, right(layer, (i + 1) \div 2)}
  <2> DEFINE p == (i + 1) \div 2
             m == (Len(layer) + 1) \div 2
  <2>1. Len(parents(layer)) = m
    BY <1>2, ParentsFacts
  <2>2. /\ p \in Nat \ {0} /\ i \in {2 * p - 1, 2 * p}
        /\ m \in Nat \ {0} /\ Len(layer) \in {2 * m - 1, 2 * m}
    BY <1>2, Halves
  <2> HIDE DEF p, m
  <2>3. p \in 1..m
    BY <1>2, <2>2
  <2>4. i \in {2 * p - 1, right(layer, p)}
    BY <1>2, <2>2
  <2> QED BY <2>1, <2>3, <2>4 DEF p
<1>3. ASSUME NEW layer, Len(layer) \in Nat \ {0}, NEW i \in 1..Len(parents(layer))
      PROVE  2 * i - 1 \in 1..Len(layer) /\ right(layer, i) \in 1..Len(layer)
  <2> DEFINE m == (Len(layer) + 1) \div 2
  <2>1. Len(parents(layer)) = m
    BY <1>3, ParentsFacts
  <2>2. m \in Nat \ {0} /\ Len(layer) \in {2 * m - 1, 2 * m}
    BY <1>3, Halves
  <2> HIDE DEF m
  <2> QED BY <1>3, <2>1, <2>2
<1>4. ASSUME NEW i \in 1..Len(short) PROVE long[i] = short[i]
  <2> DEFINE p == (i + 1) \div 2
  <2>1. p \in 1..Len(parents(short)) /\ i \in {2 * p - 1, right(short, p)}
    BY <1>2
  <2>2. parents(long)[p] = parents(short)[p] /\ p \in 1..Len(parents(long))
    BY <2>1, ParentsFacts DEF Pads
  <2>3. long[2 * p - 1] = short[2 * p - 1] /\ long[right(long, p)] = short[right(short, p)]
    BY <1>1, <2>1, <2>2
  <2>4. i = 2 * p - 1 \/ (i = right(short, p) /\ i = right(long, p))
    BY <2>1
  <2> QED BY <2>3, <2>4
<1>5. ASSUME NEW i \in 1..Len(long) PROVE \E j \in 1..Len(short) : long[i] = short[j]
  <2> DEFINE p == (i + 1) \div 2
  <2>1. p \in 1..Len(parents(long)) /\ i \in {2 * p - 1, right(long, p)}
    BY <1>2
  <2>2. PICK q \in 1..Len(parents(short)) : parents(long)[p] = parents(short)[q]
    BY <2>1 DEF Pads
  <2>3. long[2 * p - 1] = short[2 * q - 1] /\ long[right(long, p)] = short[right(short, q)]
    BY <1>1, <2>1, <2>2
  <2>4. 2 * q - 1 \in 1..Len(short) /\ right(short, q) \in 1..Len(short)
    BY <1>3, <2>2
  <2> HIDE DEF right, p
  <2> QED BY <2>1, <2>3, <2>4
<1> QED BY <1>4, <1>5 DEF Pads

(* The layer of the leaves, and a layer above it.                          *)
LEMMA LeafLayer ==
  ASSUME NEW list, Len(list) \in Nat \ {0}, NEW i \in 1..Len(list)
  PROVE  layers(list)[0][i] = _leaf(list[i])
BY LayerFacts

LEMMA LayerUp ==
  ASSUME NEW list, Len(list) \in Nat \ {0}, NEW k \in 1..Len(list)
  PROVE  /\ k - 1 \in 0..Len(list)
         /\ layers(list)[k] = parents(layers(list)[k - 1])
         /\ Len(layers(list)[k - 1]) \in Nat \ {0}
         /\ \E right : layers(list)[k][1] = node(layers(list)[k - 1][1], right)
<1>1. k - 1 \in 0..Len(list) /\ k \in 0..Len(list)
  OBVIOUS
<1>2. layers(list)[k] = parents(layers(list)[k - 1])
  <2>1. \A j \in 1..Len(list) : layers(list)[j] = parents(layers(list)[j - 1])
    BY LayerFacts, Zenon
  <2> QED BY <2>1
<1>3. Len(layers(list)[k - 1]) \in Nat \ {0} /\ Len(layers(list)[k]) \in Nat \ {0}
  BY <1>1, LayerFacts, Zenon
<1> DEFINE p == layers(list)[k - 1]
<1>4. Len(p) \in Nat \ {0} /\ 1 \in 1..Len(parents(p))
  BY <1>2, <1>3
<1> HIDE DEF p
<1>5. parents(p)[1] = node(p[2 * 1 - 1], p[IF 2 * 1 > Len(p) THEN 2 * 1 - 1 ELSE 2 * 1])
  BY <1>4, ParentsFacts, Zenon
<1>6. 2 * 1 - 1 = 1
  OBVIOUS
<1>7. \E right : parents(p)[1] = node(p[1], right)
  BY <1>5, <1>6, Zenon
<1> QED BY <1>1, <1>2, <1>3, <1>7 DEF p

(* Of two lists the shorter has the smaller layers.                        *)
LEMMA SmallerLayers ==
  ASSUME NEW a, NEW b, Len(a) \in Nat \ {0}, Len(b) \in Nat \ {0}, Len(a) <= Len(b)
  PROVE  \A k \in 0..Len(a) : Len(layers(a)[k]) <= Len(layers(b)[k])
<1> DEFINE T == {k \in Nat : k <= Len(a) => Len(layers(a)[k]) <= Len(layers(b)[k])}
<1>1. 0 \in T
  BY LayerFacts
<1>2. ASSUME NEW n \in Nat, n \in T PROVE n + 1 \in T
  <2>1. SUFFICES ASSUME n + 1 <= Len(a)
                 PROVE  Len(layers(a)[n + 1]) <= Len(layers(b)[n + 1])
    OBVIOUS
  <2> DEFINE p == layers(a)[n]
             q == layers(b)[n]
  <2>2. Len(p) <= Len(q)
    BY <1>2, <2>1
  <2>3. n \in 0..Len(a) /\ n \in 0..Len(b) /\ n + 1 \in 1..Len(a) /\ n + 1 \in 1..Len(b)
    BY <2>1
  <2>4. Len(p) \in Nat \ {0} /\ Len(q) \in Nat \ {0}
    BY <2>3, LayerFacts, Zenon
  <2>5. layers(a)[n + 1] = parents(p) /\ layers(b)[n + 1] = parents(q)
    <3>1. (n + 1) - 1 = n
      OBVIOUS
    <3> QED BY <2>3, <3>1, LayerUp
  <2> HIDE DEF p, q
  <2>6. Len(parents(p)) = (Len(p) + 1) \div 2 /\ Len(parents(q)) = (Len(q) + 1) \div 2
    BY <2>4, ParentsFacts
  <2> QED BY <2>2, <2>4, <2>5, <2>6
<1>3. Nat \subseteq T
  <2> HIDE DEF T
  <2> QED BY <1>1, <1>2, SetInduction
<1> QED BY <1>3

(* Lists with one root have trees of one height: the first nodes of their  *)
(* layers are the same from the top down, and no node is a leaf.           *)
LEMMA NoHigher ==
  ASSUME NEW a, NEW b, Len(a) \in Nat \ {0}, Len(b) \in Nat \ {0},
         layers(a)[height(a)][1] = layers(b)[height(b)][1]
  PROVE  height(b) <= height(a)
<1> DEFINE g == height(a)
           h == height(b)
           T == {k \in Nat : k <= g /\ k <= h => layers(a)[g - k][1] = layers(b)[h - k][1]}
<1>1. g \in 0..Len(a) /\ h \in 0..Len(b)
  BY HeightFacts
<1> HIDE DEF g, h
<1>2. 0 \in T
  BY <1>1 DEF g, h
<1>3. ASSUME NEW n \in Nat, n \in T PROVE n + 1 \in T
  <2>1. SUFFICES ASSUME n + 1 <= g, n + 1 <= h
                 PROVE  layers(a)[g - (n + 1)][1] = layers(b)[h - (n + 1)][1]
    OBVIOUS
  <2>2. layers(a)[g - n][1] = layers(b)[h - n][1]
    BY <1>1, <1>3, <2>1
  <2>3. /\ g - n \in 1..Len(a) /\ h - n \in 1..Len(b)
        /\ (g - n) - 1 = g - (n + 1) /\ (h - n) - 1 = h - (n + 1)
    BY <1>1, <2>1
  <2> DEFINE p == layers(a)[g - (n + 1)]
             q == layers(b)[h - (n + 1)]
  <2> HIDE DEF p, q
  <2>4. PICK r : layers(a)[g - n][1] = node(p[1], r)
    <3>1. \E r : layers(a)[g - n][1] = node(layers(a)[(g - n) - 1][1], r)
      BY <2>3, LayerUp
    <3> QED BY <2>3, <3>1, Zenon DEF p
  <2>5. PICK s : layers(b)[h - n][1] = node(q[1], s)
    <3>1. \E s : layers(b)[h - n][1] = node(layers(b)[(h - n) - 1][1], s)
      BY <2>3, LayerUp
    <3> QED BY <2>3, <3>1, Zenon DEF q
  <2>6. node(p[1], r) = node(q[1], s)
    BY <2>2, <2>4, <2>5
  <2>7. p[1] = q[1]
    BY <2>6, NodeFacts
  <2> QED BY <2>7 DEF p, q
<1>4. Nat \subseteq T
  <2> HIDE DEF T
  <2> QED BY <1>2, <1>3, SetInduction
<1>5. SUFFICES ASSUME g < h PROVE FALSE
  BY <1>1 DEF g, h
<1>6. layers(a)[0][1] = layers(b)[h - g][1]
  <2>1. g \in T
    BY <1>1, <1>4
  <2>2. g - g = 0
    BY <1>1
  <2> QED BY <1>1, <1>5, <2>1, <2>2
<1>7. layers(a)[0][1] = _leaf(a[1])
  BY LeafLayer
<1>8. \E left, right : layers(b)[h - g][1] = node(left, right)
  <2>1. h - g \in 1..Len(b)
    BY <1>1, <1>5
  <2> QED BY <2>1, LayerUp
<1>9. PICK left, right : _leaf(a[1]) = node(left, right)
  BY <1>6, <1>7, <1>8, Zenon
<1> QED BY <1>9, NodeFacts

(* So the longer pads the shorter in every layer, down to the leaves.      *)
LEMMA PadsToTheLeaves ==
  ASSUME NEW long, NEW short, Len(long) \in Nat \ {0}, Len(short) \in Nat \ {0},
         Len(short) <= Len(long),
         layers(long)[height(long)][1] = layers(short)[height(short)][1]
  PROVE  Pads(long, short)
<1> DEFINE h == height(short)
           T == {k \in Nat : k <= h => Pads(layers(long)[h - k], layers(short)[h - k])}
<1>1. height(long) = h /\ h \in 0..Len(short) /\ h \in 0..Len(long)
  <2>1. height(short) <= height(long) /\ height(long) <= height(short)
    BY NoHigher
  <2>2. height(short) \in 0..Len(short) /\ height(long) \in 0..Len(long)
    BY HeightFacts
  <2> QED BY <2>1, <2>2
<1>2. /\ Len(layers(long)[h]) = 1 /\ Len(layers(short)[h]) = 1
      /\ layers(long)[h][1] = layers(short)[h][1]
  BY <1>1, HeightFacts
<1> HIDE DEF h
<1>3. 0 \in T
  <2>1. Pads(layers(long)[h], layers(short)[h])
    BY <1>2 DEF Pads
  <2>2. h - 0 = h
    BY <1>1
  <2> QED BY <2>1, <2>2
<1>4. ASSUME NEW n \in Nat, n \in T PROVE n + 1 \in T
  <2>1. SUFFICES ASSUME n + 1 <= h
                 PROVE  Pads(layers(long)[h - (n + 1)], layers(short)[h - (n + 1)])
    OBVIOUS
  <2>2. Pads(layers(long)[h - n], layers(short)[h - n])
    BY <1>1, <1>4, <2>1
  <2> DEFINE p == layers(long)[h - (n + 1)]
             q == layers(short)[h - (n + 1)]
  <2>3. /\ h - n \in 1..Len(long) /\ h - n \in 1..Len(short)
        /\ h - (n + 1) \in 0..Len(short) /\ (h - n) - 1 = h - (n + 1)
    BY <1>1, <2>1
  <2>4. /\ layers(long)[h - n] = parents(p) /\ Len(p) \in Nat \ {0}
        /\ layers(short)[h - n] = parents(q) /\ Len(q) \in Nat \ {0}
    BY <2>3, LayerUp
  <2>5. Len(q) <= Len(p)
    BY <2>3, SmallerLayers
  <2> HIDE DEF p, q
  <2>6. Pads(parents(p), parents(q))
    BY <2>2, <2>4
  <2>7. Pads(p, q)
    BY <2>4, <2>5, <2>6, PadsDown
  <2> QED BY <2>7 DEF p, q
<1>5. Nat \subseteq T
  <2> HIDE DEF T
  <2> QED BY <1>3, <1>4, SetInduction
<1>6. Pads(layers(long)[0], layers(short)[0])
  <2>1. h \in T /\ h - h = 0
    BY <1>1, <1>5
  <2> QED BY <1>1, <2>1
<1>7. /\ Len(layers(long)[0]) = Len(long) /\ Len(layers(short)[0]) = Len(short)
  BY LayerFacts
<1>8. ASSUME NEW i \in 1..Len(long), NEW j \in 1..Len(short),
             layers(long)[0][i] = layers(short)[0][j]
      PROVE  long[i] = short[j]
  <2>1. layers(long)[0][i] = _leaf(long[i]) /\ layers(short)[0][j] = _leaf(short[j])
    BY LeafLayer
  <2>2. _leaf(long[i]) = _leaf(short[j])
    BY <1>8, <2>1
  <2> QED BY <2>2, NodeFacts
<1>9. ASSUME NEW i \in 1..Len(short) PROVE long[i] = short[i]
  <2>1. i \in 1..Len(long) /\ layers(long)[0][i] = layers(short)[0][i]
    BY <1>6, <1>7 DEF Pads
  <2> QED BY <1>8, <2>1
<1>10. ASSUME NEW i \in 1..Len(long) PROVE \E j \in 1..Len(short) : long[i] = short[j]
  <2>1. PICK j \in 1..Len(short) : layers(long)[0][i] = layers(short)[0][j]
    BY <1>6, <1>7 DEF Pads
  <2> QED BY <1>8, <2>1
<1> QED BY <1>9, <1>10 DEF Pads

(* The root of a list that is not empty is no hash of nothing.             *)
LEMMA RootFacts ==
  ASSUME NEW list, Len(list) \in Nat \ {0}, list # <<>>
  PROVE  root(list) = layers(list)[height(list)][1] /\ root(list) # <<"empty">>
<1>1. root(list) = layers(list)[height(list)][1]
  BY DEF root
<1>2. height(list) \in 0..Len(list)
  BY HeightFacts
<1>3. CASE height(list) = 0
  <2>1. layers(list)[0][1] = _leaf(list[1])
    BY LeafLayer
  <2> QED BY <1>1, <1>3, <2>1 DEF _leaf
<1>4. CASE height(list) # 0
  <2>1. height(list) \in 1..Len(list)
    BY <1>2, <1>4
  <2>2. \E left, right : layers(list)[height(list)][1] = node(left, right)
    BY <2>1, LayerUp
  <2> QED BY <1>1, <2>2 DEF node
<1> QED BY <1>3, <1>4

(* Of two lists with one root the longer pads the shorter.                 *)
LEMMA OneRoot ==
  ASSUME NEW long, NEW short, Len(long) \in Nat \ {0}, long # <<>>,
         Len(short) \in Nat, Len(short) = 0 => short = <<>>, Len(short) # 0 => short # <<>>,
         Len(short) <= Len(long), root(short) = root(long)
  PROVE  Pads(long, short)
<1>1. root(long) = layers(long)[height(long)][1] /\ root(long) # <<"empty">>
  BY RootFacts
<1>2. short # <<>>
  BY <1>1 DEF root
<1>3. Len(short) \in Nat \ {0}
  BY <1>2
<1>4. root(short) = layers(short)[height(short)][1]
  BY <1>2, <1>3, RootFacts
<1> QED BY <1>1, <1>3, <1>4, PadsToTheLeaves

-----------------------------------------------------------------------------
(* The indices of a proof are what their definition says.                  *)
LEMMA IndicesDefined ==
  ASSUME NEW list, Len(list) \in Nat, NEW index
  PROVE  indices(list, index) =
           [k \in 0..Len(list) |->
              IF k = 0 THEN index ELSE indices(list, index)[k - 1] \div 2]
<1> DEFINE Run(f, n) == f = [k \in 0..n |-> IF k = 0 THEN index ELSE f[k - 1] \div 2]
           T == {n \in Nat : \E f : Run(f, n)}
<1>1. 0 \in T
  <2> DEFINE f == [k \in 0..0 |-> index]
  <2>1. Run(f, 0)
    OBVIOUS
  <2> QED BY <2>1
<1>2. ASSUME NEW n \in Nat, n \in T PROVE n + 1 \in T
  <2>1. PICK f : Run(f, n)
    BY <1>2
  <2>2. \A k \in 0..n : f[k] = IF k = 0 THEN index ELSE f[k - 1] \div 2
    BY <2>1
  <2> DEFINE g == [k \in 0..(n + 1) |-> IF k = n + 1 THEN f[n] \div 2 ELSE f[k]]
  <2>3. \A k \in 0..n : g[k] = f[k]
    OBVIOUS
  <2>4. \A k \in 0..(n + 1) : g[k] = IF k = 0 THEN index ELSE g[k - 1] \div 2
    <3> SUFFICES ASSUME NEW k \in 0..(n + 1)
                 PROVE  g[k] = IF k = 0 THEN index ELSE g[k - 1] \div 2
      OBVIOUS
    <3>1. CASE k = n + 1
      <4>1. g[k - 1] = f[n] /\ g[k] = f[n] \div 2 /\ k # 0
        BY <3>1
      <4> QED BY <4>1
    <3>2. CASE k \in 0..n
      <4>1. k = 0 \/ k - 1 \in 0..n
        BY <3>2
      <4> QED BY <2>2, <2>3, <3>2, <4>1
    <3> QED BY <3>1, <3>2
  <2>5. g = [k \in 0..(n + 1) |-> g[k]]
    OBVIOUS
  <2> HIDE DEF g
  <2>6. Run(g, n + 1)
    BY <2>4, <2>5
  <2> QED BY <2>6
<1>3. PICK f : Run(f, Len(list))
  <2> HIDE DEF T
  <2>1. Len(list) \in T
    BY <1>1, <1>2, SetInduction
  <2> QED BY <2>1 DEF T
<1>4. indices(list, index) =
        CHOOSE g : g = [k \in 0..Len(list) |-> IF k = 0 THEN index ELSE g[k - 1] \div 2]
  BY DEF indices
<1> QED BY <1>3, <1>4, Zenon

(* The hash a step of a path climbs to.                                    *)
Above(step, hash) ==
  IF step.side = "R" THEN node(hash, step.hash) ELSE node(step.hash, hash)

(* The hashes climbed to are what their definition says.                   *)
LEMMA ClimbDefined ==
  ASSUME NEW leaf, NEW path, Len(path) \in Nat
  PROVE  /\ climb(leaf, path)[0] = _leaf(leaf)
         /\ \A k \in 1..Len(path) :
              climb(leaf, path)[k] = Above(path[k], climb(leaf, path)[k - 1])
<1> DEFINE start == _leaf(leaf)
           Run(f, n) == f = [k \in 0..n |-> IF k = 0 THEN start ELSE Above(path[k], f[k - 1])]
           T == {n \in Nat : \E f : Run(f, n)}
<1> HIDE DEF start
<1>1. 0 \in T
  <2> DEFINE f == [k \in 0..0 |-> start]
  <2>1. Run(f, 0)
    OBVIOUS
  <2> QED BY <2>1
<1>2. ASSUME NEW n \in Nat, n \in T PROVE n + 1 \in T
  <2>1. PICK f : Run(f, n)
    BY <1>2
  <2>2. \A k \in 0..n : f[k] = IF k = 0 THEN start ELSE Above(path[k], f[k - 1])
    BY <2>1
  <2> DEFINE g == [k \in 0..(n + 1) |-> IF k = n + 1 THEN Above(path[k], f[n]) ELSE f[k]]
  <2>3. \A k \in 0..n : g[k] = f[k]
    OBVIOUS
  <2>4. \A k \in 0..(n + 1) : g[k] = IF k = 0 THEN start ELSE Above(path[k], g[k - 1])
    <3> SUFFICES ASSUME NEW k \in 0..(n + 1)
                 PROVE  g[k] = IF k = 0 THEN start ELSE Above(path[k], g[k - 1])
      OBVIOUS
    <3>1. CASE k = n + 1
      <4>1. g[k - 1] = f[n] /\ g[k] = Above(path[k], f[n]) /\ k # 0
        BY <3>1
      <4> QED BY <4>1
    <3>2. CASE k \in 0..n
      <4>1. k = 0 \/ k - 1 \in 0..n
        BY <3>2
      <4> QED BY <2>2, <2>3, <3>2, <4>1
    <3> QED BY <3>1, <3>2
  <2>5. g = [k \in 0..(n + 1) |-> g[k]]
    OBVIOUS
  <2> HIDE DEF g
  <2>6. Run(g, n + 1)
    BY <2>4, <2>5
  <2> QED BY <2>6
<1>3. PICK f : Run(f, Len(path))
  <2> HIDE DEF T
  <2>1. Len(path) \in T
    BY <1>1, <1>2, SetInduction
  <2> QED BY <2>1 DEF T
<1>4. climb(leaf, path) =
        CHOOSE g : g = [k \in 0..Len(path) |->
                          IF k = 0 THEN start ELSE Above(path[k], g[k - 1])]
  BY DEF climb, Above, start
<1> HIDE DEF T
<1>5. climb(leaf, path) =
        [k \in 0..Len(path) |->
           IF k = 0 THEN start ELSE Above(path[k], climb(leaf, path)[k - 1])]
  BY <1>3, <1>4, Zenon
<1> QED BY <1>5 DEF start

(* Two leaves that one path leads to one hash are one leaf.                *)
LEMMA ClimbsMeet ==
  ASSUME NEW x, NEW y, NEW path, Len(path) \in Nat,
         climb(x, path)[Len(path)] = climb(y, path)[Len(path)]
  PROVE  x = y
<1> DEFINE T == {k \in Nat : k <= Len(path) /\ climb(x, path)[k] = climb(y, path)[k] => x = y}
<1>1. 0 \in T
  <2>1. climb(x, path)[0] = _leaf(x) /\ climb(y, path)[0] = _leaf(y)
    BY ClimbDefined
  <2>2. _leaf(x) = _leaf(y) => x = y
    BY NodeFacts
  <2> QED BY <2>1, <2>2
<1>2. ASSUME NEW n \in Nat, n \in T PROVE n + 1 \in T
  <2>1. SUFFICES ASSUME n + 1 <= Len(path), climb(x, path)[n + 1] = climb(y, path)[n + 1]
                 PROVE  x = y
    OBVIOUS
  <2> DEFINE p == climb(x, path)[n]
             q == climb(y, path)[n]
             step == path[n + 1]
  <2>2. n + 1 \in 1..Len(path) /\ (n + 1) - 1 = n
    BY <2>1
  <2>3. climb(x, path)[n + 1] = Above(step, p) /\ climb(y, path)[n + 1] = Above(step, q)
    BY <2>2, ClimbDefined
  <2>4. Above(step, p) = Above(step, q)
    BY <2>1, <2>3
  <2>5. n <= Len(path) /\ (p = q => x = y)
    BY <1>2, <2>1
  <2> HIDE DEF p, q, step
  <2>6. p = q
    BY <2>4, NodeFacts DEF Above
  <2> QED BY <2>5, <2>6
<1>3. Nat \subseteq T
  <2> HIDE DEF T
  <2> QED BY <1>1, <1>2, SetInduction
<1> QED BY <1>3

(* What is left of a half.                                                 *)
LEMMA HalfFacts ==
  ASSUME NEW i \in Nat
  PROVE  /\ i \div 2 \in Nat
         /\ \/ i % 2 = 1 /\ i = 2 * (i \div 2) + 1
            \/ i % 2 = 0 /\ i = 2 * (i \div 2)
OBVIOUS

(* A sibling leads from a node to its parent.                              *)
LEMMA SiblingFacts ==
  ASSUME NEW layer, Len(layer) \in Nat \ {0}, NEW i \in 0..(Len(layer) - 1)
  PROVE  /\ i \div 2 \in 0..(Len(parents(layer)) - 1)
         /\ Above(sibling(layer, i), layer[i + 1]) = parents(layer)[(i \div 2) + 1]
<1> DEFINE m == (Len(layer) + 1) \div 2
           d == i \div 2
<1>1. Len(parents(layer)) = m
  BY ParentsFacts
<1>2. m \in Nat \ {0} /\ Len(layer) \in {2 * m - 1, 2 * m}
  BY Halves
<1>3. d \in Nat /\ ((i % 2 = 1 /\ i = 2 * d + 1) \/ (i % 2 = 0 /\ i = 2 * d))
  <2>1. i \in Nat
    OBVIOUS
  <2> QED BY <2>1, HalfFacts
<1> HIDE DEF m, d
<1>4. d \in 0..(m - 1) /\ d + 1 \in 1..m
  BY <1>2, <1>3
<1>5. /\ 2 * (d + 1) - 1 = 2 * d + 1 /\ 2 * (d + 1) = 2 * d + 2
  BY <1>3
<1>6. parents(layer)[d + 1] =
        node(layer[2 * d + 1],
             layer[IF 2 * d + 2 > Len(layer) THEN 2 * d + 1 ELSE 2 * d + 2])
  BY <1>1, <1>4, <1>5, ParentsFacts
<1>7. CASE i % 2 = 1 /\ i = 2 * d + 1
  <2>1. ~(2 * d + 2 > Len(layer)) /\ i + 1 = 2 * d + 2
    BY <1>3, <1>7
  <2>2. parents(layer)[d + 1] = node(layer[i], layer[i + 1])
    BY <1>6, <1>7, <2>1
  <2>3. sibling(layer, i) = [side |-> "L", hash |-> layer[i]]
    BY <1>7 DEF sibling
  <2>4. Above(sibling(layer, i), layer[i + 1]) = node(layer[i], layer[i + 1])
    BY <2>3 DEF Above
  <2> QED BY <1>1, <1>4, <2>2, <2>4 DEF d
<1>8. CASE i % 2 = 0 /\ i = 2 * d
  <2> DEFINE s == IF i + 2 > Len(layer) THEN i + 1 ELSE i + 2
  <2>1. parents(layer)[d + 1] = node(layer[i + 1], layer[s])
    BY <1>6, <1>8
  <2>2. sibling(layer, i) = [side |-> "R", hash |-> layer[s]]
    BY <1>8 DEF sibling
  <2> HIDE DEF s
  <2>3. Above(sibling(layer, i), layer[i + 1]) = node(layer[i + 1], layer[s])
    BY <2>2 DEF Above
  <2> QED BY <1>1, <1>4, <2>1, <2>3 DEF d
<1> QED BY <1>3, <1>7, <1>8

(* The proof of a position leads from its leaf to the root.                *)
LEMMA ProofClimbs ==
  ASSUME NEW list, Len(list) \in Nat \ {0}, list # <<>>, NEW i \in 1..Len(list)
  PROVE  /\ Len(proof(list, i - 1)) \in Nat
         /\ verify_proof(list[i], proof(list, i - 1), root(list))
<1> DEFINE h == height(list)
           up == layers(list)
           idx == indices(list, i - 1)
           path == proof(list, i - 1)
           way == climb(list[i], path)
           At(k) == idx[k] \in 0..(Len(up[k]) - 1) /\ way[k] = up[k][idx[k] + 1]
           T == {k \in Nat : k <= h => At(k)}
<1>1. h \in 0..Len(list) /\ Len(up[h]) = 1
  BY HeightFacts
<1>2. Len(path) = h /\ \A k \in 1..h : path[k] = sibling(up[k - 1], idx[k - 1])
  <2>1. path = [k \in 1..h |-> sibling(up[k - 1], idx[k - 1])]
    BY DEF proof
  <2> HIDE DEF path, h, up, idx
  <2> QED BY <1>1, <2>1
<1>3. idx[0] = i - 1 /\ \A k \in 1..Len(list) : idx[k] = idx[k - 1] \div 2
  BY IndicesDefined
<1>4. way[0] = _leaf(list[i]) /\ \A k \in 1..h : way[k] = Above(path[k], way[k - 1])
  <2>1. Len(path) \in Nat
    BY <1>1, <1>2
  <2> QED BY <1>2, <2>1, ClimbDefined
<1>5. Len(up[0]) = Len(list) /\ up[0][i] = _leaf(list[i])
  BY LayerFacts, LeafLayer
<1> HIDE DEF path, h, way, idx
<1>6. 0 \in T
  <2>1. idx[0] + 1 = i /\ idx[0] \in 0..(Len(list) - 1)
    BY <1>3
  <2> QED BY <1>3, <1>4, <1>5, <2>1
<1>7. ASSUME NEW n \in Nat, n \in T PROVE n + 1 \in T
  <2>1. SUFFICES ASSUME n + 1 <= h PROVE At(n + 1)
    OBVIOUS
  <2>2. n + 1 \in 1..h /\ n + 1 \in 1..Len(list) /\ (n + 1) - 1 = n /\ At(n)
    BY <1>1, <1>7, <2>1
  <2>3. up[n + 1] = parents(up[n]) /\ Len(up[n]) \in Nat \ {0}
    BY <2>2, LayerUp
  <2>4. path[n + 1] = sibling(up[n], idx[n]) /\ idx[n + 1] = idx[n] \div 2
    BY <1>2, <1>3, <2>2
  <2>5. way[n + 1] = Above(sibling(up[n], idx[n]), up[n][idx[n] + 1])
    BY <1>4, <2>2, <2>4
  <2> HIDE DEF up
  <2>6. /\ idx[n] \div 2 \in 0..(Len(parents(up[n])) - 1)
        /\ Above(sibling(up[n], idx[n]), up[n][idx[n] + 1]) =
             parents(up[n])[(idx[n] \div 2) + 1]
    BY <2>2, <2>3, SiblingFacts
  <2> QED BY <2>3, <2>4, <2>5, <2>6
<1>8. At(h)
  <2>1. Nat \subseteq T
    <3> HIDE DEF T
    <3> QED BY <1>6, <1>7, SetInduction
  <2> HIDE DEF At
  <2>2. h \in Nat /\ h <= h
    BY <1>1
  <2> QED BY <2>1, <2>2
<1>9. way[h] = up[h][1]
  <2>1. idx[h] + 1 = 1
    BY <1>1, <1>8
  <2> QED BY <1>8, <2>1
<1>10. root(list) = up[h][1]
  BY RootFacts DEF h
<1> QED BY <1>1, <1>2, <1>9, <1>10 DEF verify_proof, way, path

(* The children of a node of a layer are nodes of the layer below.         *)
LEMMA ChildrenAreBelow ==
  ASSUME NEW layer, Len(layer) \in Nat \ {0}, NEW j \in 1..Len(parents(layer))
  PROVE  \E a, b \in 1..Len(layer) : parents(layer)[j] = node(layer[a], layer[b])
<1> DEFINE m == (Len(layer) + 1) \div 2
           a == 2 * j - 1
           b == IF 2 * j > Len(layer) THEN 2 * j - 1 ELSE 2 * j
<1>1. Len(parents(layer)) = m /\ parents(layer)[j] = node(layer[a], layer[b])
  BY ParentsFacts
<1>2. m \in Nat \ {0} /\ Len(layer) \in {2 * m - 1, 2 * m}
  BY Halves
<1> HIDE DEF m
<1>3. a \in 1..Len(layer) /\ b \in 1..Len(layer)
  BY <1>1, <1>2
<1> QED BY <1>1, <1>3, Zenon

(* A path that verifies, whoever made it up, is as long as the tree is     *)
(* high and leads from one of its leaves: climbing down from the root, the *)
(* path and the tree part nowhere, and end together because no leaf is a   *)
(* node.                                                                   *)
THEOREM ProofsAreOfLeaves ==
  ASSUME NEW list, Len(list) \in Nat \ {0}, list # <<>>,
         NEW x, NEW path, Len(path) \in Nat, verify_proof(x, path, root(list))
  PROVE  Len(path) = height(list) /\ \E i \in 1..Len(list) : x = list[i]
<1> DEFINE h == height(list)
           n == Len(path)
           up == layers(list)
           way == climb(x, path)
           Meet(k) == \E j \in 1..Len(up[h - k]) : way[n - k] = up[h - k][j]
           T == {k \in Nat : k <= n /\ k <= h => Meet(k)}
<1>1. h \in 0..Len(list) /\ Len(up[h]) = 1 /\ n \in Nat
  BY HeightFacts
<1>2. way[n] = up[h][1]
  BY RootFacts DEF verify_proof
<1>3. way[0] = _leaf(x) /\ \A k \in 1..n : way[k] = Above(path[k], way[k - 1])
  BY ClimbDefined
<1>4. ASSUME NEW k \in 1..n
      PROVE  \E other : way[k] \in {node(way[k - 1], other), node(other, way[k - 1])}
  BY <1>3 DEF Above
<1>5. ASSUME NEW k \in 1..Len(list)
      PROVE  /\ k - 1 \in 0..Len(list) /\ up[k] = parents(up[k - 1])
             /\ Len(up[k - 1]) \in Nat \ {0}
  BY LayerUp
<1>6. ASSUME NEW i \in 1..Len(list) PROVE up[0][i] = _leaf(list[i])
  BY LeafLayer
<1>7. Len(up[0]) = Len(list)
  BY LayerFacts
<1> HIDE DEF h, n, up, way
<1>8. 0 \in T
  <2>1. n - 0 = n /\ h - 0 = h /\ 1 \in 1..Len(up[h])
    BY <1>1
  <2>2. Meet(0)
    BY <1>2, <2>1
  <2> QED BY <2>2
<1>9. ASSUME NEW k \in 0..h, k <= n, Meet(k), k < h
      PROVE  /\ \E a, b \in 1..Len(up[h - (k + 1)]) :
                  way[n - k] = node(up[h - (k + 1)][a], up[h - (k + 1)][b])
             /\ k < n => Meet(k + 1)
  <2>1. h - k \in 1..Len(list) /\ (h - k) - 1 = h - (k + 1)
    BY <1>1, <1>9
  <2> DEFINE below == up[h - (k + 1)]
  <2>2. up[h - k] = parents(below) /\ Len(below) \in Nat \ {0}
    BY <1>5, <2>1
  <2>3. PICK j \in 1..Len(parents(below)) : way[n - k] = parents(below)[j]
    BY <1>9, <2>2
  <2> HIDE DEF below
  <2>4. PICK a \in 1..Len(below), b \in 1..Len(below) :
          way[n - k] = node(below[a], below[b])
    BY <2>2, <2>3, ChildrenAreBelow
  <2>5. ASSUME k < n PROVE \E c \in 1..Len(below) : way[n - (k + 1)] = below[c]
    <3>1. n - k \in 1..n /\ (n - k) - 1 = n - (k + 1)
      BY <1>1, <2>5
    <3>2. PICK other : way[n - k] \in {node(way[n - (k + 1)], other),
                                       node(other, way[n - (k + 1)])}
      BY <1>4, <3>1
    <3>3. way[n - (k + 1)] \in {below[a], below[b]}
      <4>1. CASE way[n - k] = node(way[n - (k + 1)], other)
        <5>1. node(way[n - (k + 1)], other) = node(below[a], below[b])
          BY <2>4, <4>1
        <5>2. way[n - (k + 1)] = below[a]
          BY <5>1, NodeFacts
        <5> QED BY <5>2
      <4>2. CASE way[n - k] = node(other, way[n - (k + 1)])
        <5>1. node(other, way[n - (k + 1)]) = node(below[a], below[b])
          BY <2>4, <4>2
        <5>2. way[n - (k + 1)] = below[b]
          BY <5>1, NodeFacts
        <5> QED BY <5>2
      <4> QED BY <3>2, <4>1, <4>2
    <3> QED BY <3>3
  <2> QED BY <2>4, <2>5 DEF below
<1>10. ASSUME NEW k \in Nat, k \in T PROVE k + 1 \in T
  <2>1. SUFFICES ASSUME k + 1 <= n, k + 1 <= h PROVE Meet(k + 1)
    OBVIOUS
  <2> HIDE DEF Meet
  <2>2. k \in 0..h /\ k < n /\ k < h /\ k <= n /\ Meet(k)
    BY <1>1, <1>10, <2>1
  <2> QED BY <1>9, <2>2
<1>11. \A k \in Nat : k <= n /\ k <= h => Meet(k)
  <2>1. Nat \subseteq T
    <3> HIDE DEF T
    <3> QED BY <1>8, <1>10, SetInduction
  <2> HIDE DEF Meet
  <2> QED BY <2>1
<1>12. ~(n < h)
  <2>1. SUFFICES ASSUME n < h PROVE FALSE
    OBVIOUS
  <2>2. n \in 0..h /\ n <= n /\ n - n = 0 /\ Meet(n)
    <3> HIDE DEF Meet
    <3> QED BY <1>1, <1>11, <2>1
  <2>3. PICK a, b \in 1..Len(up[h - (n + 1)]) :
          way[n - n] = node(up[h - (n + 1)][a], up[h - (n + 1)][b])
    <3> HIDE DEF Meet
    <3> QED BY <1>9, <2>1, <2>2
  <2>4. _leaf(x) = node(up[h - (n + 1)][a], up[h - (n + 1)][b])
    BY <1>3, <2>2, <2>3
  <2> QED BY <2>4, NodeFacts
<1>13. PICK j \in 1..Len(list) : way[n - h] = _leaf(list[j])
  <2>1. h \in Nat /\ h <= n /\ h <= h /\ h - h = 0
    BY <1>1, <1>12
  <2>2. Meet(h)
    <3> HIDE DEF Meet
    <3> QED BY <1>11, <2>1
  <2> QED BY <1>6, <1>7, <2>1, <2>2
<1>14. n = h
  <2>1. SUFFICES ASSUME h < n PROVE FALSE
    BY <1>1, <1>12
  <2>2. n - h \in 1..n
    BY <1>1, <2>1
  <2>3. PICK other : way[n - h] \in {node(way[n - h - 1], other), node(other, way[n - h - 1])}
    BY <1>4, <2>2
  <2>4. PICK left, right : _leaf(list[j]) = node(left, right)
    BY <1>13, <2>3
  <2> QED BY <2>4, NodeFacts
<1>15. x = list[j]
  <2>1. _leaf(x) = _leaf(list[j])
    BY <1>1, <1>3, <1>13, <1>14
  <2> QED BY <2>1, NodeFacts
<1> QED BY <1>14, <1>15 DEF h, n

(* Every list of leaves is a sequence.                                     *)
LEMMA ListFacts ==
  ASSUME ManifestAssumption, NEW list \in Lists
  PROVE  /\ list \in Seq(Leaves) /\ Len(list) \in Nat
         /\ Len(list) = 0 <=> list = <<>>
<1>1. PICK n \in 0..MaxLeaves : list \in [1..n -> Leaves]
  BY DEF Lists
<1>2. n \in Nat
  BY ManifestAssumption DEF ManifestAssumption
<1> QED BY <1>1, <1>2

(* The leaves of the tree stay a list of leaves.                           *)
LEMMA LeavesStay == ManifestSpec => [](leaves \in Lists)
<1>1. ManifestInit => leaves \in Lists
  BY DEF ManifestInit
<1>2. leaves \in Lists /\ [ManifestStep]_manifestVars => (leaves \in Lists)'
  <2> SUFFICES ASSUME leaves \in Lists, [ManifestStep]_manifestVars PROVE leaves' = leaves
    BY DEF Lists
  <2> QED BY DEF ManifestStep, Sign, Keep, Touch, manifestVars
<1> QED BY <1>1, <1>2, PTL DEF ManifestSpec

(* A root names the leaves of its tree, however many there are: a proof    *)
(* verifies for the leaf at its position alone, and of two lists with one  *)
(* root the longer begins with the shorter and repeats it.                 *)
THEOREM RootAlwaysNamesLeaves == ManifestSpec => []RootNamesLeaves
<1>1. leaves \in Lists => RootNamesLeaves
  <2> SUFFICES ASSUME leaves \in Lists, leaves # <<>> PROVE RootNamesLeaves
    BY DEF RootNamesLeaves
  <2>1. leaves \in Seq(Leaves) /\ Len(leaves) \in Nat \ {0}
    BY ListFacts, ManifestAssumption
  <2>2. ASSUME NEW i \in 1..Len(leaves), NEW x \in Leaves
        PROVE  verify_proof(x, proof(leaves, i - 1), root(leaves)) <=> x = leaves[i]
    <3> DEFINE path == proof(leaves, i - 1)
    <3>1. Len(path) \in Nat /\ verify_proof(leaves[i], path, root(leaves))
      BY <2>1, ProofClimbs
    <3> HIDE DEF path
    <3>2. ASSUME verify_proof(x, path, root(leaves)) PROVE x = leaves[i]
      <4>1. climb(x, path)[Len(path)] = climb(leaves[i], path)[Len(path)]
        BY <3>1, <3>2 DEF verify_proof
      <4> QED BY <3>1, <4>1, ClimbsMeet
    <3> QED BY <3>1, <3>2 DEF path
  <2>3. ASSUME NEW other \in Lists, Len(other) <= Len(leaves), root(other) = root(leaves)
        PROVE  /\ SubSeq(leaves, 1, Len(other)) = other
               /\ \A i \in 1..Len(leaves) : \E j \in 1..Len(other) : leaves[i] = other[j]
    <3>1. other \in Seq(Leaves) /\ Len(other) \in Nat /\ (Len(other) = 0 <=> other = <<>>)
      BY ListFacts, ManifestAssumption
    <3>2. Pads(leaves, other)
      BY <2>1, <2>3, <3>1, OneRoot
    <3>3. SubSeq(leaves, 1, Len(other)) = other
      BY <2>1, <2>3, <3>1, <3>2 DEF Pads
    <3> QED BY <3>2, <3>3 DEF Pads
  <2> QED BY <2>2, <2>3 DEF RootNamesLeaves
<1> QED BY <1>1, LeavesStay, PTL
=============================================================================
