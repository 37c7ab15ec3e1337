-------------------------- MODULE ExternalArtifacts --------------------------
(***************************************************************************)
(* "mvpc verify artifact" (external_artifacts/cli_support.py, verify.py):  *)
(* processes that read one artifact file, run the gates of its schema and  *)
(* write a witness bundle that others may keep.  The artifact changes, the *)
(* processes overlap and die.  The name of a bundle is derived from the    *)
(* hash of the artifact, here the artifact itself, unless the caller gives *)
(* a file.  An open truncates the file; what is written next goes where    *)
(* the process stands in it, over or after whatever another put there.     *)
(***************************************************************************)
EXTENDS Integers, ArtifactGates

CONSTANTS
  Verifiers,    \* processes
  Texts,        \* JSON objects the artifact may hold at first
  NewTexts,     \* and later
  Requests,     \* what a caller may ask for
  MaxRewrites,  \* bound: changes of the artifact
  MaxCrashes    \* bound: processes that die or cannot write

(* A path holds a JSON object, or a file that is not there, not UTF-8 or   *)
(* not such an object.                                                     *)
Json(text) == <<"json", text>>

Unreadable == {<<"missing">>, <<"undecodable">>, <<"malformed">>}

(* "output" is the name derived from the content, in whichever directory,  *)
(* or a file the caller chose.                                             *)
Request == [policy: Policy, output: {"derived", "file"}, overwrite: BOOLEAN]

ASSUME ExternalAssumption ==
  /\ NewTexts \subseteq Texts
  /\ Requests \subseteq Request /\ Requests # {}
  /\ MaxRewrites \in Nat /\ MaxCrashes \in Nat
  /\ \A text \in Texts :
       /\ Len(text.claims) \in Nat
       /\ ~text.document_provenance.there => text.document_provenance.repo = NoRepo

VARIABLES
  artifact,   \* what the path holds
  store,      \* the files written, by name
  pc, req,    \* each process: where it stands, what it was asked
  bundle,     \* the result it has computed
  exit,       \* the exit code it returned, -1 before and if it raised
  edits, crashes

artifactVars == <<artifact, store, pc, req, bundle, exit, edits, crashes>>

(* What a file holds: nothing since the process that opened it last, a     *)
(* part of a bundle or a mixture, or a bundle.                             *)
Empty(v) == [state |-> "empty", of |-> <<v>>]
Torn == [state |-> "torn", of |-> <<>>]
Whole(b) == [state |-> "whole", of |-> <<b>>]

Exists(name) == name \in DOMAIN store

StoreWith(name, file) == [n \in DOMAIN store \cup {name} |-> IF n = name THEN file ELSE store[n]]

-----------------------------------------------------------------------------
verify_artifact_file(text, policy) ==
  [text |-> text, policy |-> policy, verdict |-> Verdict(text, policy)]

(* A process, or the next one after it has ended.                          *)
Begin(v) ==
  /\ pc[v] \in {"idle", "done", "raised"}
  /\ \E r \in Requests : req' = [req EXCEPT ![v] = r]
  /\ pc' = [pc EXCEPT ![v] = "load"]
  /\ bundle' = [bundle EXCEPT ![v] = <<>>]
  /\ exit' = [exit EXCEPT ![v] = -1]
  /\ UNCHANGED <<artifact, store, edits, crashes>>

Exit(v, code) ==
  /\ exit' = [exit EXCEPT ![v] = code]
  /\ pc' = [pc EXCEPT ![v] = "done"]

(* No local file, no JSON object, or a schema that no adapter has.         *)
RefuseArtifact(v) ==
  /\ pc[v] = "load"
  /\ \/ artifact[1] \in {"missing", "malformed"}
     \/ artifact[1] = "json" /\ artifact[2].schema \notin Schemas
  /\ Exit(v, 2)
  /\ UNCHANGED <<artifact, store, req, bundle, edits, crashes>>

(* The decoding error is not one of those that are reported.               *)
LoadRaises(v) ==
  /\ pc[v] = "load" /\ artifact[1] = "undecodable"
  /\ pc' = [pc EXCEPT ![v] = "raised"]
  /\ UNCHANGED <<artifact, store, req, bundle, exit, edits, crashes>>

Verify(v) ==
  /\ pc[v] = "load"
  /\ artifact[1] = "json" /\ artifact[2].schema \in Schemas
  /\ bundle' = [bundle EXCEPT ![v] = <<verify_artifact_file(artifact[2], req[v].policy)>>]
  /\ pc' = [pc EXCEPT ![v] = "check"]
  /\ UNCHANGED <<artifact, store, req, exit, edits, crashes>>

(* Mutation: the name is derived from the file, read once more.            *)
OutputPathOfFile(v) ==
  IF req[v].output # "derived" THEN <<"file">>
  ELSE <<"derived", IF artifact[1] = "json" THEN artifact[2] ELSE bundle[v][1].text>>

OutputPath(v) ==
  IF req[v].output = "derived" THEN <<"derived", bundle[v][1].text>> ELSE <<"file">>

(* Mutation: the error is recorded but does not end the run.               *)
RefuseOutputAndGoOn(v) ==
  /\ pc[v] = "check"
  /\ Exists(OutputPath(v)) /\ ~req[v].overwrite
  /\ exit' = [exit EXCEPT ![v] = 2]
  /\ pc' = [pc EXCEPT ![v] = "open"]
  /\ UNCHANGED <<artifact, store, req, bundle, edits, crashes>>

RefuseOutput(v) ==
  /\ pc[v] = "check"
  /\ Exists(OutputPath(v)) /\ ~req[v].overwrite
  /\ Exit(v, 2)
  /\ UNCHANGED <<artifact, store, req, bundle, edits, crashes>>

(* Mutation: a file that is not a bundle is taken for a free name.         *)
AcceptAnyUnfinished(v) ==
  /\ pc[v] = "check"
  /\ \/ req[v].overwrite
     \/ Exists(OutputPath(v)) => store[OutputPath(v)].state # "whole"
  /\ pc' = [pc EXCEPT ![v] = "open"]
  /\ UNCHANGED <<artifact, store, req, bundle, exit, edits, crashes>>

AcceptOutput(v) ==
  /\ pc[v] = "check"
  /\ ~Exists(OutputPath(v)) \/ req[v].overwrite
  /\ pc' = [pc EXCEPT ![v] = "open"]
  /\ UNCHANGED <<artifact, store, req, bundle, exit, edits, crashes>>

OpenBundle(v) ==
  /\ pc[v] = "open"
  /\ store' = StoreWith(OutputPath(v), Empty(v))
  /\ pc' = [pc EXCEPT ![v] = "write"]
  /\ UNCHANGED <<artifact, req, bundle, exit, edits, crashes>>

(* If another process opened the file since, or wrote to it, the two texts *)
(* may cover each other or mix.                                            *)
WriteBundle(v) ==
  /\ pc[v] = "write"
  /\ \E file \in {Whole(bundle[v][1]), Torn} :
       /\ file = Torn => store[OutputPath(v)] # Empty(v)
       /\ store' = StoreWith(OutputPath(v), file)
  /\ Exit(v, IF bundle[v][1].verdict = "passed" THEN 0 ELSE 1)
  /\ UNCHANGED <<artifact, req, bundle, edits, crashes>>

Die(v) ==
  /\ pc[v] \in {"load", "check", "open", "write"}
  /\ crashes < MaxCrashes
  /\ crashes' = crashes + 1
  /\ pc' = [pc EXCEPT ![v] = "raised"]
  /\ \/ UNCHANGED store
     \/ pc[v] = "write" /\ store' = StoreWith(OutputPath(v), Torn)
  /\ UNCHANGED <<artifact, req, bundle, exit, edits>>

EditArtifact ==
  /\ edits < MaxRewrites
  /\ \E c \in {Json(text) : text \in NewTexts} \cup Unreadable :
       artifact' = c
  /\ edits' = edits + 1
  /\ UNCHANGED <<store, pc, req, bundle, exit, crashes>>

ExternalInit ==
  /\ \E text \in Texts : artifact = Json(text)
  /\ store = [n \in {} |-> {}]
  /\ pc = [v \in Verifiers |-> "idle"]
  /\ req = [v \in Verifiers |-> CHOOSE r \in Requests : TRUE]
  /\ bundle = [v \in Verifiers |-> <<>>]
  /\ exit = [v \in Verifiers |-> -1]
  /\ edits = 0 /\ crashes = 0

VerifierStep(v) ==
  \/ Begin(v) \/ RefuseArtifact(v) \/ LoadRaises(v) \/ Verify(v)
  \/ RefuseOutput(v) \/ AcceptOutput(v) \/ OpenBundle(v) \/ WriteBundle(v)
  \/ Die(v)

ExternalNext == EditArtifact \/ \E v \in Verifiers : VerifierStep(v)

ExternalSpec == ExternalInit /\ [][ExternalNext]_artifactVars

-----------------------------------------------------------------------------
(* The results a process can have, and the shape of every variable.        *)
Judgements ==
  {verify_artifact_file(text, r.policy) :
     text \in {t \in Texts : t.schema \in Schemas}, r \in Requests}

(* A process has a code when it is done and at no other time.              *)
ExternalTypeOK ==
  /\ artifact \in {Json(text) : text \in Texts} \cup Unreadable
  /\ \A n \in DOMAIN store : store[n].state \in {"empty", "torn", "whole"}
  /\ pc \in [Verifiers -> {"idle", "load", "check", "open", "write", "done", "raised"}]
  /\ req \in [Verifiers -> Requests]
  /\ bundle \in [Verifiers -> {<<>>} \cup {<<b>> : b \in Judgements}]
  /\ exit \in [Verifiers -> {-1, 0, 1, 2}]
  /\ \A v \in Verifiers : exit[v] # -1 <=> pc[v] = "done"
  /\ edits \in 0..MaxRewrites /\ crashes \in 0..MaxCrashes

(* What the documentation asks of one claim of an artifact.                *)
Vouched(text, policy, c) ==
  /\ c.claim_id # ""
  /\ policy.match => Agrees(text, c)
  /\ IF text.schema = "leibniz"
     THEN /\ c.named /\ c.provenance.there /\ c.status \in LeibnizStatuses
          /\ c.status = "proved" =>
               /\ c.verified
               /\ c.project_check \in {"passed", "not_applicable"}
               /\ c.declaration_check \in {"passed", "not_applicable"}
     ELSE /\ c.locators /\ c.status \in ResNovaStatuses
          /\ c.status = "derived" => Derived(c)
          /\ c.status = "empirically_supported" => EmpiricallySupported(c)
          /\ c.status = "conditional" => c.assumptions
          /\ c.status = "open" => Open(c)
          /\ c.status = "refuted" => Refuted(c)

Admissible(text, policy) ==
  LET prov == resolve_document_provenance(text) IN
  /\ text.listed
  /\ prov.repo # NoRepo /\ prov.commit_ok
  /\ policy.expected \in {NoRepo, prov.repo}
  /\ text.schema = "leibniz" => Objects(text) = 1..Len(text.claims)
  /\ \A i \in Objects(text) : Vouched(text, policy, text.claims[i])
  /\ \A i, j \in Objects(text) : text.claims[i].claim_id = text.claims[j].claim_id => i = j

(* A passing verdict means "exactly this": the artifact satisfied schema,  *)
(* provenance and evidence gates.  However the twelve gates and their      *)
(* not_applicable answers add up, exit code 0 goes to the artifacts whose  *)
(* claims are all vouched for, of the text that was read.                  *)
PassedIsAdmissible ==
  \A v \in Verifiers :
    exit[v] \in {0, 1} =>
      (exit[v] = 0 <=> Admissible(bundle[v][1].text, bundle[v][1].policy))

(* No claim hides behind another: an artifact that says where it is from   *)
(* passes if and only if every claim of it would pass alone and no two     *)
(* have one name.                                                          *)
Alone(text, i) ==
  [schema |-> text.schema, listed |-> text.listed, claims |-> <<text.claims[i]>>,
   document_provenance |-> text.document_provenance, generation_ok |-> text.generation_ok]

NoClaimHides ==
  \A v \in Verifiers :
    exit[v] \in {0, 1} =>
      LET text == bundle[v][1].text
          policy == bundle[v][1].policy
      IN text.listed /\ text.document_provenance.there /\ Len(text.claims) > 0 =>
           (exit[v] = 0 <=>
              /\ \A i \in 1..Len(text.claims) : Verdict(Alone(text, i), policy) = "passed"
              /\ \A i, j \in Objects(text) :
                   text.claims[i].claim_id = text.claims[j].claim_id => i = j)

(* "Running against different input never collides with a prior bundle for *)
(* different content": whatever the artifact changes into meanwhile and    *)
(* however processes overlap, a bundle under a derived name is about the   *)
(* text of that name.                                                      *)
NamesTellTheText ==
  \A n \in DOMAIN store :
    n[1] = "derived" /\ store[n].state = "whole" => store[n].of[1].text = n[2]

(* A file that a dead process left unfinished, or two left torn, keeps its *)
(* name: no run without --overwrite gets past it or repairs it.            *)
Abandoned(n) ==
  /\ Exists(n) /\ store[n].state # "whole"
  /\ \A v \in Verifiers : pc[v] \in {"open", "write"} => OutputPath(v) # n

UnfinishedStays ==
  [][\A n \in DOMAIN store :
       Abandoned(n) =>
         \/ Abandoned(n)'
         \/ \E v \in Verifiers : pc'[v] = "open" /\ req[v].overwrite /\ OutputPath(v) = n]_artifactVars
=============================================================================
