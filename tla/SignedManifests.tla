-------------------------- MODULE SignedManifests --------------------------
(***************************************************************************)
(* hardening/crypto_integrity.py: manifests that are signed, handed on and *)
(* verified - with Ed25519 where PyNaCl is installed, with HMAC elsewhere  *)
(* -, and Merkle trees over a list of leaves.  What a manifest says is one *)
(* value; a hash and a signature stand for what they are of, and nobody    *)
(* makes a signature without the key it is made with.  A private key is    *)
(* its owner's, a public one everybody's.  A set of one value or none      *)
(* stands for a key of a dictionary.                                       *)
(***************************************************************************)
EXTENDS Naturals, Sequences

CONSTANTS
  Signers,     \* key pairs, each [name, algorithm]
  Sayings,     \* what a manifest may say
  Leaves,      \* values of leaves
  MaxLeaves,   \* bound: leaves of a tree
  MaxSigns,    \* bound: times a manifest is signed
  MaxTouches   \* bound: changes of it by its holders

ASSUME ManifestAssumption == {MaxLeaves, MaxSigns, MaxTouches} \subseteq Nat

VARIABLES
  manifest,   \* body, signature, signature_alg, payload_hash
  earlier,    \* a copy of it a holder kept
  signings,   \* history: who signed, the manifest it made, and whether of one bare of seals
  touches,
  leaves      \* the leaves of a Merkle tree

manifestVars == <<manifest, earlier, signings, touches, leaves>>

-----------------------------------------------------------------------------
(* sign_manifest leaves the old signature and the name of the key out of   *)
(* what it signs, but neither the algorithm nor the hash of the payload.   *)
sign_payload(m) == [body |-> m.body, alg |-> m.signature_alg, hash |-> m.payload_hash]

(* verify_manifest_signature leaves all four out.                          *)
Bare(body) == [body |-> body, alg |-> {}, hash |-> {}]

algorithm(signer, nacl) ==
  IF signer.algorithm = "ed25519" /\ nacl THEN "ed25519" ELSE "hmac-sha256"

Private(signer) == [of |-> signer, part |-> "private"]

Public(signer) == [of |-> signer, part |-> "public"]

sign_manifest(m, signer, nacl) ==
  LET alg == algorithm(signer, nacl) IN
  [body |-> m.body,
   signature |-> {[with |-> Private(signer), alg |-> alg, over |-> sign_payload(m)]},
   signature_alg |-> {alg}, payload_hash |-> {sign_payload(m)}]

(* Mutation: the signature is held against the hash in the manifest.       *)
verified_message_stored(m) == IF m.payload_hash = {} THEN {Bare(m.body)} ELSE m.payload_hash

verified_message(m) == {Bare(m.body)}

(* The manifest says how it is verified, and anything it says but Ed25519, *)
(* or PyNaCl missing, means HMAC.                                          *)
verified_as(m, nacl) ==
  IF m.signature_alg = {"ed25519"} /\ nacl THEN "ed25519" ELSE "hmac-sha256"

(* An Ed25519 signature answers to the public key of the one it was made   *)
(* with, an HMAC to the very key, whichever is passed.                     *)
verify_manifest_signature(m, key, nacl) ==
  LET alg == verified_as(m, nacl) IN
  \E s \in m.signature :
    /\ s.alg = alg
    /\ IF alg = "ed25519" THEN s.with = Private(key.of) /\ key = Public(key.of) ELSE s.with = key
    /\ {s.over} = verified_message(m)

-----------------------------------------------------------------------------
Sign(signer, nacl) ==
  /\ Len(signings) < MaxSigns
  /\ manifest' = sign_manifest(manifest, signer, nacl)
  /\ signings' = Append(signings,
       [by |-> signer, made |-> sign_manifest(manifest, signer, nacl),
        bare |-> sign_payload(manifest) = Bare(manifest.body)])
  /\ UNCHANGED <<earlier, touches, leaves>>

Keep ==
  /\ earlier # manifest
  /\ earlier' = manifest
  /\ UNCHANGED <<manifest, signings, touches, leaves>>

(* hmac_sign with a key everybody has, of what the manifest says.          *)
HmacSeal(m, key) == [with |-> key, alg |-> "hmac-sha256", over |-> Bare(m.body)]

(* A holder changes what it says, drops a part of its seal, puts the seal  *)
(* of the copy on it, or one of its own.                                   *)
Touch ==
  /\ touches < MaxTouches /\ touches' = touches + 1
  /\ \/ \E body \in Sayings : manifest' = [manifest EXCEPT !.body = body]
     \/ manifest' = [manifest EXCEPT !.signature_alg = {}]
     \/ manifest' = [manifest EXCEPT !.payload_hash = {}]
     \/ manifest' = [earlier EXCEPT !.body = manifest.body]
     \/ \E signer \in Signers, alg \in {{}, {"hmac-sha256"}} :
          manifest' = [manifest EXCEPT !.signature = {HmacSeal(manifest, Public(signer))},
                                       !.signature_alg = alg]
  /\ manifest' # manifest
  /\ UNCHANGED <<earlier, signings, leaves>>

Unsigned(body) == [body |-> body, signature |-> {}, signature_alg |-> {}, payload_hash |-> {}]

Lists == UNION {[1..n -> Leaves] : n \in 0..MaxLeaves}

(* A tree is built of its leaves and never changed.                        *)
ManifestInit ==
  /\ \E body \in Sayings : manifest = Unsigned(body) /\ earlier = Unsigned(body)
  /\ signings = <<>>
  /\ touches = 0
  /\ leaves \in Lists

ManifestStep ==
  \/ \E signer \in Signers, nacl \in BOOLEAN : Sign(signer, nacl)
  \/ Keep \/ Touch

ManifestSpec == ManifestInit /\ [][ManifestStep]_manifestVars

-----------------------------------------------------------------------------
(* MerkleTree._build: layer by layer; an odd node out is paired with       *)
(* itself.                                                                 *)
_leaf(x) == <<"leaf", x>>

node(left, right) == <<"node", left, right>>

(* Mutation: an odd node out goes up as it is.                             *)
parents_promoted(layer) ==
  [i \in 1..((Len(layer) + 1) \div 2) |->
     IF 2 * i > Len(layer) THEN layer[2 * i - 1] ELSE node(layer[2 * i - 1], layer[2 * i])]

parents(layer) ==
  [i \in 1..((Len(layer) + 1) \div 2) |->
     node(layer[2 * i - 1], layer[IF 2 * i > Len(layer) THEN 2 * i - 1 ELSE 2 * i])]

(* The layers from the leaves up, which are built until one has one node.  *)
layers(list) ==
  LET layer[k \in 0..Len(list)] ==
        IF k = 0 THEN [i \in 1..Len(list) |-> _leaf(list[i])] ELSE parents(layer[k - 1])
  IN layer

height(list) ==
  CHOOSE h \in 0..Len(list) :
    /\ Len(layers(list)[h]) = 1
    /\ \A k \in 0..(h - 1) : Len(layers(list)[k]) # 1

root(list) == IF list = <<>> THEN <<"empty">> ELSE layers(list)[height(list)][1]

(* proof: the sibling in every layer below the root, at an index that      *)
(* counts from 0 and is halved from layer to layer.                        *)
indices(list, index) ==
  LET idx[k \in 0..Len(list)] == IF k = 0 THEN index ELSE idx[k - 1] \div 2 IN idx

sibling(layer, idx) ==
  IF idx % 2 = 1 THEN [side |-> "L", hash |-> layer[idx]]
  ELSE [side |-> "R", hash |-> layer[IF idx + 2 > Len(layer) THEN idx + 1 ELSE idx + 2]]

proof(list, index) ==
  [k \in 1..height(list) |-> sibling(layers(list)[k - 1], indices(list, index)[k - 1])]

(* verify_proof: the hash of a leaf, and those it is climbed to on a path. *)
climb(leaf, path) ==
  LET h[k \in 0..Len(path)] ==
        IF k = 0 THEN _leaf(leaf)
        ELSE IF path[k].side = "R" THEN node(h[k - 1], path[k].hash)
        ELSE node(path[k].hash, h[k - 1])
  IN h

verify_proof(leaf, path, top) == climb(leaf, path)[Len(path)] = top

-----------------------------------------------------------------------------
(* The key the tests verify with: the public one, or the secret of an HMAC.*)
UsualKey(signer, m) == IF m.signature_alg = {"ed25519"} THEN Public(signer) ELSE Private(signer)

Signed(signer, body) ==
  \E k \in 1..Len(signings) :
    signings[k].by = signer /\ signings[k].made.body = body /\ signings[k].bare

(* Whoever changed a manifest or moved seals between its versions: if it   *)
(* verifies under a private key, or as Ed25519, the owner of the key       *)
(* signed what it says when it carried no seal.                            *)
SealNamesWhatItSays ==
  \A signer \in Signers, nacl \in BOOLEAN :
    (\/ verify_manifest_signature(manifest, Private(signer), nacl)
     \/ verified_as(manifest, nacl) = "ed25519"
        /\ verify_manifest_signature(manifest, Public(signer), nacl))
    => Signed(signer, manifest.body)

(* A manifest as somebody signed it verifies with the usual key if it      *)
(* carried no seal before and does not if it did, as one that is signed    *)
(* anew does until a holder takes its old seal off.                        *)
SignedBareVerifies ==
  \A k \in 1..Len(signings) :
    manifest = signings[k].made =>
      (verify_manifest_signature(manifest, UsualKey(signings[k].by, manifest), TRUE)
         <=> signings[k].bare)

SealsAreRight == SealNamesWhatItSays /\ SignedBareVerifies

(* A root names its leaves: a proof of a position verifies for the leaf at *)
(* it and no other, and lists of one length have one root only if they are *)
(* equal.  Of two lists with one root the longer begins with the shorter   *)
(* and adds leaves of it only: the padding of odd layers hides repeats.    *)
RootNamesLeaves ==
  leaves # <<>> =>
    LET top == root(leaves) IN
    /\ \A i \in 1..Len(leaves), x \in Leaves :
         verify_proof(x, proof(leaves, i - 1), top) <=> x = leaves[i]
    /\ \A other \in Lists :
         Len(other) <= Len(leaves) /\ root(other) = top =>
           /\ SubSeq(leaves, 1, Len(other)) = other
           /\ \A i \in 1..Len(leaves) : \E j \in 1..Len(other) : leaves[i] = other[j]
=============================================================================
