---------------------------- MODULE HumanReview ----------------------------
(***************************************************************************)
(* Witnesses and their human review: generate_witness and                  *)
(* add_human_attestation of witness.py, the witness hash, and the command  *)
(* "mvpc attest", which reads a witness file, seals an attestation into    *)
(* what it read and writes the result over the file or to another one.     *)
(* Nothing locks the file: several reviewers may attest at once, one may   *)
(* be interrupted, and somebody may edit the file by hand.                 *)
(***************************************************************************)
EXTENDS Naturals, Sequences, FiniteSets

CONSTANTS
  Paths,       \* files a witness may be in
  Reviewers,   \* people who run "mvpc attest", one command at a time
  MaxAttests,  \* bound: commands run
  MaxEdits     \* bound: witness files edited by hand

ASSUME ReviewAssumption == MaxAttests \in Nat /\ MaxEdits \in Nat

VARIABLES
  witness_file,  \* what each path holds
  reviewer,      \* where each reviewer's command is, and what it read
  made,          \* history: the attestations that commands made
  edited         \* edits by hand so far

reviewVars == <<witness_file, reviewer, made, edited>>

Attestation == [signer: Reviewers, number: Nat, accepted: BOOLEAN]

(* The obligation to have a human review, and the finding that there was   *)
(* none.                                                                   *)
OpenPoints == {"Human review required", "HUMAN_ATTESTATION_MISSING"}

(* What the hash of a witness is taken of, as far as a review concerns it. *)
Body == [open: SUBSET OpenPoints, human_attestations: Seq(Attestation)]

(* A witness with the hash it carries; "issued" and "genuine" are history: *)
(* the body the audit gave it, and whether only commands touched it since. *)
Witness == [body: Body, witness_hash: Body, issued: Body, genuine: BOOLEAN]

(* A file is empty while it is written, and garbled by two writers.        *)
Holding(status, w) == [status |-> status, witness |-> w]

verify_witness_hash(w) == w.witness_hash = w.body

recompute_hash(w) == [w EXCEPT !.witness_hash = w.body]

-----------------------------------------------------------------------------
(* What generate_witness makes of a claim: a sign-off it carries counts,   *)
(* whatever it says.                                                       *)
generate_witness(require_human_signoff, signoff, missing) ==
  LET obliged == require_human_signoff /\ signoff = <<>>
      body == [open |-> (IF obliged THEN {"Human review required"} ELSE {})
                          \cup (IF missing THEN {"HUMAN_ATTESTATION_MISSING"} ELSE {}),
               human_attestations |-> signoff]
  IN [body |-> body, witness_hash |-> body, issued |-> body, genuine |-> TRUE]

(* Mutation: any attestation settles the open points.                      *)
add_any_attestation(w, a) ==
  recompute_hash([w EXCEPT !.body.human_attestations = Append(@, a), !.body.open = {}])

(* add_human_attestation: only an acceptance settles them, and the witness *)
(* is sealed anew without a look at the seal it had.                       *)
add_human_attestation(w, a) ==
  LET body == [open |-> IF a.accepted THEN {} ELSE w.body.open,
               human_attestations |-> Append(w.body.human_attestations, a)]
  IN recompute_hash([w EXCEPT !.body = body])

Idle == [at |-> "idle"]

(* json.load of the file, which fails unless it holds a witness.           *)
ReadWitness(r, from, to) ==
  /\ reviewer[r].at = "idle"
  /\ witness_file[from].status = "whole"
  /\ reviewer' = [reviewer EXCEPT ![r] =
       [at |-> "read", to |-> to, held |-> witness_file[from].witness]]
  /\ UNCHANGED <<witness_file, made, edited>>

(* The attestation is added to what was read; open(..., "w") empties the   *)
(* file before it is written.                                              *)
OpenOutput(r, accepted) ==
  LET a == [signer |-> r, number |-> Cardinality(made) + 1, accepted |-> accepted]
      to == reviewer[r].to
  IN
  /\ reviewer[r].at = "read"
  /\ Cardinality(made) < MaxAttests
  /\ made' = made \cup {a}
  /\ witness_file' = [witness_file EXCEPT ![to].status = "empty"]
  /\ reviewer' = [reviewer EXCEPT ![r] =
       [at |-> "opened", to |-> to, held |-> add_human_attestation(reviewer[r].held, a)]]
  /\ UNCHANGED edited

(* write, over what another command wrote since: the longer text of the    *)
(* two sticks out at the end.                                              *)
WriteWitness(r) ==
  LET to == reviewer[r].to IN
  /\ reviewer[r].at = "opened"
  /\ \E status \in {"whole"} \cup (IF witness_file[to].status = "empty" THEN {} ELSE {"garbled"}) :
       witness_file' = [witness_file EXCEPT ![to] = Holding(status, reviewer[r].held)]
  /\ reviewer' = [reviewer EXCEPT ![r] = Idle]
  /\ UNCHANGED <<made, edited>>

(* A command is interrupted, and leaves the file as it is.                 *)
Interrupt(r) ==
  /\ reviewer[r].at # "idle"
  /\ reviewer' = [reviewer EXCEPT ![r] = Idle]
  /\ UNCHANGED <<witness_file, made, edited>>

(* Somebody drops an open point, or an attestation, with an editor.        *)
EditWitness(p) ==
  LET body == witness_file[p].witness.body IN
  /\ witness_file[p].status = "whole" /\ edited < MaxEdits
  /\ \E changed \in {[body EXCEPT !.open = {}], [body EXCEPT !.human_attestations = <<>>]} :
       /\ changed # body
       /\ witness_file' = [witness_file EXCEPT ![p].witness =
            [@ EXCEPT !.body = changed, !.genuine = FALSE]]
  /\ edited' = edited + 1
  /\ UNCHANGED <<reviewer, made>>

(* Every path holds the witness of an audit, or nothing yet; the claim may *)
(* carry the sign-off of some reviewer from before.                        *)
Signoffs == {<<>>} \cup {<<[signer |-> r, number |-> 0, accepted |-> a]>> :
                          r \in Reviewers, a \in BOOLEAN}

Generated == {generate_witness(require, signoff, missing) :
                require \in BOOLEAN, signoff \in Signoffs, missing \in BOOLEAN}

Nothing == generate_witness(FALSE, <<>>, FALSE)

ReviewInit ==
  /\ \E kept \in SUBSET Paths, w \in [Paths -> Generated] :
       witness_file = [p \in Paths |->
         IF p \in kept THEN Holding("whole", w[p]) ELSE Holding("absent", Nothing)]
  /\ reviewer = [r \in Reviewers |-> Idle]
  /\ made = {}
  /\ edited = 0

ReviewNext ==
  \/ \E r \in Reviewers :
       \/ \E from, to \in Paths : ReadWitness(r, from, to)
       \/ \E accepted \in BOOLEAN : OpenOutput(r, accepted)
       \/ WriteWitness(r) \/ Interrupt(r)
  \/ \E p \in Paths : EditWitness(p)

ReviewSpec == ReviewInit /\ [][ReviewNext]_reviewVars

-----------------------------------------------------------------------------
Statuses == {"absent", "empty", "whole", "garbled"}

(* The shape of the state.                                                 *)
ReviewTypeOK ==
  /\ witness_file \in [Paths -> [status: Statuses, witness: Witness]]
  /\ \A r \in Reviewers :
       reviewer[r] \in {Idle} \cup [at: {"read", "opened"}, to: Paths, held: Witness]
  /\ made \subseteq Attestation
  /\ edited \in 0..MaxEdits

Attestations(body) == {body.human_attestations[i] : i \in 1..Len(body.human_attestations)}

(* An open point of a witness is settled by a reviewer and by nobody else. *)
Earned(w) ==
  w.genuine =>
    /\ verify_witness_hash(w)
    /\ Attestations(w.body) \subseteq Attestations(w.issued) \cup made
    /\ w.body.open # w.issued.open => \E a \in Attestations(w.body) \cap made : a.accepted

(* "Human attestation (mvpc attest) when policy or flags require it": a    *)
(* witness whose review was required and is no longer, in any file nobody  *)
(* edited, carries an acceptance that some "mvpc attest" made, and every   *)
(* attestation it carries was made; whatever commands overlapped or were   *)
(* interrupted.                                                            *)
ReviewIsEarned ==
  \A p \in Paths : witness_file[p].status = "whole" => Earned(witness_file[p].witness)

=============================================================================
