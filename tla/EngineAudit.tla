----------------------------- MODULE EngineAudit -----------------------------
(***************************************************************************)
(* "mvpc verify": VerificationEngine.verify_artifact of                    *)
(* src/src/mvpc/engine.py, with the intake guard and the IntegritySession  *)
(* of security.py and the attestation policy of policy.py.  The session    *)
(* hashes the verifier package up to three times and the artifact twice;   *)
(* between the hashes the file is read once for the backend's scan, once   *)
(* for the evidence hash, once by the native tool and once for the Newton  *)
(* rules.  Meanwhile an editor may save, delete and recreate the file and  *)
(* an installer may replace the package.  A hash stands for what it is of. *)
(***************************************************************************)
EXTENDS Naturals, NativeBackends

CONSTANTS
  Texts,       \* contents the file may have, as the record below
  Backends,    \* backends the registry may pick for the path
  Packages,    \* states of the installed mvpc package
  MaxEdits,    \* bound: changes of the file while it is audited
  MaxUpdates   \* bound: changes of the package meanwhile

(* What a run tells apart in a text: whether the intake guard lets it in,  *)
(* whether the backend's scan and the Newton rules find no violation, and  *)
(* what the native tool answers.                                           *)
Text == [admissible: BOOLEAN, scan_ok: BOOLEAN, newton_ok: BOOLEAN,
         native: Answers]

ASSUME EngineAssumption ==
  /\ Texts \subseteq Text /\ Texts # {}
  /\ Backends \subseteq {"lean", "rocq", "isabelle", "python", "generic"}
  /\ Packages # {}
  /\ MaxEdits \in Nat /\ MaxUpdates \in Nat

VARIABLES
  file,      \* the artifact: whether it is there, and its text
  package,   \* the installed verifier
  config,    \* the engine's settings and the backend of the path
  phase,     \* where verify_artifact is
  run,       \* its locals
  state,     \* the claim's attestation state, or why there is none
  edits, updates

engineVars == <<file, package, config, phase, run, state, edits, updates>>

Levels == {"PERMISSIVE", "DEFAULT", "STRICT"}

(* The text of the file, as a set so that a missing file reads as {}.      *)
Contents == IF file.there THEN {file.text} ELSE {}

-----------------------------------------------------------------------------
(* Mutation: PERMISSIVE forgets static analysis.                           *)
attest_native_only(level, violations, has_native, has_static) ==
  IF violations # {} THEN "REJECTED"
  ELSE IF has_native THEN "VERIFIED"
  ELSE IF level = "STRICT" THEN "REJECTED"
  ELSE IF level = "DEFAULT" /\ has_static THEN "CONDITIONAL"
  ELSE "UNVERIFIED"

(* Mutation: a branch of the policy returns nothing.                       *)
attest_without_default(level, violations, has_native, has_static) ==
  IF violations # {} THEN "REJECTED"
  ELSE IF has_native THEN "VERIFIED"
  ELSE IF has_static THEN "CONDITIONAL"
  ELSE "None"

(* evaluate_attestation: what was found, which checks were listed.         *)
evaluate_attestation(level, violations, has_native, has_static) ==
  IF violations # {} THEN "REJECTED"
  ELSE IF level = "STRICT" THEN IF has_native THEN "VERIFIED" ELSE "REJECTED"
  ELSE IF has_native \/ (level = "PERMISSIVE" /\ has_static) THEN "VERIFIED"
  ELSE IF level = "DEFAULT" /\ has_static THEN "CONDITIONAL"
  ELSE "UNVERIFIED"

(* The generic hasher lists neither check, whatever it found.              *)
has_static == config.backend # "generic"

(***************************************************************************)
(* The locals of a run.  "read" and "ran_under" are history: the texts and *)
(* packages the checks saw.  "watched" is session.artifact_path, "before"  *)
(* and "after" the artifact's hashes, "hashed" that of the first evidence, *)
(* and "kernel" what the native tool said.                                 *)
(***************************************************************************)
NoRun == [violations |-> {}, has_native |-> FALSE, watched |-> FALSE,
          before |-> {}, hashed |-> {}, kernel |-> {},
          system |-> {}, mid |-> {}, read |-> {}, ran_under |-> {}]

Found(r, code, found) ==
  [r EXCEPT !.violations = @ \cup (IF found THEN {code} ELSE {})]

(* A check sees the file as it is now, in the process of this package.     *)
Seen(r) == [r EXCEPT !.read = @ \cup Contents, !.ran_under = @ \cup {package}]

Step(from, to, r) ==
  /\ phase = from
  /\ phase' = to
  /\ run' = r
  /\ UNCHANGED <<file, package, config, edits, updates>>

-----------------------------------------------------------------------------
(* validate_intake: a claim is REJECTED before any seal is taken.          *)
AdmitArtifact ==
  /\ Step("intake", "sealing", run)
  /\ file.there /\ file.text.admissible
  /\ UNCHANGED state

BlockAtIntake ==
  /\ Step("intake", "done", Found(run, "INTAKE_BLOCKED", TRUE))
  /\ ~(file.there /\ file.text.admissible)
  /\ state' = "REJECTED"

(* IntegritySession.begin: whether there is a file to watch is decided     *)
(* before the package is hashed, the file is hashed after it.              *)
SealSystem ==
  /\ Step("sealing", "sealed_system",
          [run EXCEPT !.watched = file.there, !.system = {package}])
  /\ UNCHANGED state

SealArtifact ==
  /\ Step("sealed_system", "scanning",
          [run EXCEPT !.before = IF run.watched THEN Contents ELSE {}])
  /\ UNCHANGED state

(* run_static_analysis: a file that cannot be opened is a warning.  Lean's *)
(* returns at once, the others go on to hash the file.                     *)
ScanStatic ==
  /\ Step("scanning",
          IF Contents = {} /\ config.backend = "lean" THEN "native" ELSE "hashing",
          Found(Seen(run), "STATIC", \E t \in Contents : ~t.scan_ok))
  /\ UNCHANGED state

HashEvidence ==
  /\ Contents # {}
  /\ Step("hashing", "native", [Seen(run) EXCEPT !.hashed = Contents])
  /\ UNCHANGED state

(* hash_file raises on a file that is gone: there is no claim.             *)
HashRaises ==
  /\ \/ phase = "hashing"
     \/ phase = "native_done" /\ config.backend = "lean" /\ run.kernel # {"none"}
  /\ Contents = {}
  /\ Step(phase, "done", run)
  /\ state' = "RAISED"

SkipNative ==
  /\ Step("native", "newton", run)
  /\ UNCHANGED state

(***************************************************************************)
(* run_native_verification, for which audit lists "Native Verification"    *)
(* whatever comes of it.  On a missing file Lean's only warns; the other   *)
(* tools fail, or as ever give no answer, and Isabelle's builds on.        *)
(***************************************************************************)
RunNative ==
  LET backend == config.backend IN
  /\ backend # "generic"
  /\ \E of_file \in IF Contents # {} THEN {file.text.native}
                    ELSE IF backend = "lean" THEN {} ELSE {"rejects", "none"},
        answer \in Answers :
       /\ answer \in AnswersTo(backend, of_file)
       /\ Step("native", "native_done",
               Found([Seen(run) EXCEPT !.has_native = TRUE, !.kernel = {answer}],
                     "NATIVE", NativeViolation(backend, answer)))
  /\ UNCHANGED state

LeanReadError ==
  /\ config.backend = "lean" /\ Contents = {}
  /\ Step("native", "newton", [Seen(run) EXCEPT !.has_native = TRUE])
  /\ UNCHANGED state

(* The native evidence hash; only Lean's is taken outside the try block,   *)
(* and it is not taken when Lean gave no answer.                           *)
HashNative ==
  /\ config.backend # "lean" \/ run.kernel = {"none"} \/ Contents # {}
  /\ Step("native_done", "newton", run)
  /\ UNCHANGED state

(* The text read last is given to the Newton rules, here and again inside  *)
(* evaluate_attestation, and so is the statement the caller may have made  *)
(* about the file; a file that cannot be read is the empty text.           *)
ScanNewton(statement_ok) ==
  /\ Step("newton", "mid",
          Found(Seen(run), "NEWTON",
                ~statement_ok \/ \E t \in Contents : ~t.newton_ok))
  /\ UNCHANGED state

(* The mid-run check rejects whether or not integrity is enforced.         *)
CheckMid ==
  /\ config.mid_run_integrity_check
  /\ Step("mid", "finalizing",
          Found([run EXCEPT !.mid = {package}],
                "SYSTEM_INTEGRITY_FAILURE", {package} # run.system))
  /\ UNCHANGED state

SkipMid ==
  /\ ~config.mid_run_integrity_check
  /\ Step("mid", "finalizing", run)
  /\ UNCHANGED state

(* Mutation: only the mid-run sample counts.                               *)
intact_midway(r) == r.mid \subseteq r.system

(* Mutation: a mid-run sample that was not taken counts as a failed one.   *)
intact_if_sampled(r) == {package} = r.system /\ r.mid = r.system

(* finalize, the package first.  system_intact needs every sample to agree.*)
system_intact(r) == {package} = r.system /\ r.mid \subseteq r.system

FinalizeSystem ==
  /\ Step("finalizing", "finalizing_artifact",
          Found(run, "SYSTEM_INTEGRITY_FAILURE",
                config.enforce_system_integrity /\ ~system_intact(run)))
  /\ UNCHANGED state

(* Mutation: the last hash is compared with the one in the evidence.       *)
evidence_ok(r) == r.watched => Contents = r.hashed

(* artifact_ok is None, which is no mutation, when nothing was watched, or *)
(* when a watched file was missing at both hashes.                         *)
artifact_ok(r) == r.watched => Contents = r.before

FinalizeArtifact ==
  /\ Step("finalizing_artifact", "deciding",
          Found(run, "ARTIFACT_MUTATION", ~artifact_ok(run)))
  /\ UNCHANGED state

Attest ==
  /\ Step("deciding", "done", run)
  /\ state' = evaluate_attestation(config.level, run.violations,
                                   run.has_native, has_static)

-----------------------------------------------------------------------------
(* The environment, while a run is under way.                              *)
EditFile ==
  /\ phase # "done" /\ edits < MaxEdits
  /\ \/ \E t \in Texts : file' = [there |-> TRUE, text |-> t]
     \/ file' = [file EXCEPT !.there = FALSE]
  /\ file' # file
  /\ edits' = edits + 1
  /\ UNCHANGED <<package, config, phase, run, state, updates>>

UpdatePackage ==
  /\ phase # "done" /\ updates < MaxUpdates
  /\ package' \in Packages \ {package}
  /\ updates' = updates + 1
  /\ UNCHANGED <<file, config, phase, run, state, edits>>

EngineInit ==
  /\ file \in [there: BOOLEAN, text: Texts]
  /\ package \in Packages
  /\ config \in [level: Levels, backend: Backends,
                 enforce_system_integrity: BOOLEAN,
                 mid_run_integrity_check: BOOLEAN]
  /\ phase = "intake"
  /\ run = NoRun
  /\ state = "PENDING"
  /\ edits = 0 /\ updates = 0

EngineStep ==
  \/ AdmitArtifact \/ BlockAtIntake \/ SealSystem \/ SealArtifact
  \/ ScanStatic \/ HashEvidence \/ HashRaises
  \/ SkipNative \/ RunNative \/ LeanReadError \/ HashNative
  \/ \E statement_ok \in BOOLEAN : ScanNewton(statement_ok)
  \/ CheckMid \/ SkipMid
  \/ FinalizeSystem \/ FinalizeArtifact \/ Attest

EngineNext == EngineStep \/ EditFile \/ UpdatePackage

EngineSpec == EngineInit /\ [][EngineNext]_engineVars

-----------------------------------------------------------------------------
Phases == {"intake", "sealing", "sealed_system", "scanning", "hashing", "native",
           "native_done", "newton", "mid", "finalizing", "finalizing_artifact",
           "deciding", "done"}

Codes == {"INTAKE_BLOCKED", "STATIC", "NATIVE", "NEWTON",
          "SYSTEM_INTEGRITY_FAILURE", "ARTIFACT_MUTATION"}

Attestations == {"VERIFIED", "CONDITIONAL", "UNVERIFIED", "REJECTED"}

(* The shape of the engine's state.                                        *)
EngineTypeOK ==
  /\ file \in [there: BOOLEAN, text: Texts]
  /\ package \in Packages
  /\ config \in [level: Levels, backend: Backends,
                 enforce_system_integrity: BOOLEAN,
                 mid_run_integrity_check: BOOLEAN]
  /\ phase \in Phases
  /\ run \in [violations: SUBSET Codes, has_native: BOOLEAN, watched: BOOLEAN,
              before: SUBSET Texts, hashed: SUBSET Texts, kernel: SUBSET Answers,
              system: SUBSET Packages, mid: SUBSET Packages,
              read: SUBSET Texts, ran_under: SUBSET Packages]
  /\ state \in Attestations \cup {"PENDING", "RAISED"}
  /\ edits \in 0..MaxEdits
  /\ updates \in 0..MaxUpdates

Accepted == state \in Attestations \ {"REJECTED"}

(* One change of the file while it is audited, wherever it falls, cannot   *)
(* yield a claim about a mixture: every check read the text that was       *)
(* sealed, and the evidence the witness names it by is the hash of it.     *)
OneEditIsCaught ==
  Accepted /\ edits <= 1 => run.read \subseteq run.before /\ run.hashed \subseteq run.before

(* One change of the package meanwhile cannot either: every check of an    *)
(* accepted claim ran under the sealed package, be the last sample         *)
(* enforced or only the one at mid-run taken.                              *)
OneUpdateIsCaught ==
  /\ Accepted /\ updates <= 1
  /\ config.enforce_system_integrity \/ config.mid_run_integrity_check
  => run.ran_under \subseteq run.system

(* The seals raise no false alarm: a mutation is reported only of a file,  *)
(* and a corrupted verifier only of a package, that did change.            *)
AlarmsAreReal ==
  /\ "ARTIFACT_MUTATION" \in run.violations => edits > 0
  /\ "SYSTEM_INTEGRITY_FAILURE" \in run.violations => updates > 0

(* The levels are an order: on the same findings and coverage a stricter   *)
(* policy never attests more than a more permissive one.                   *)
Rank == [REJECTED |-> 0, UNVERIFIED |-> 1, CONDITIONAL |-> 2, VERIFIED |-> 3]

StricterAttestsLess ==
  LET attested(level) ==
        Rank[evaluate_attestation(level, run.violations, run.has_native, has_static)]
  IN attested("STRICT") <= attested("DEFAULT")
     /\ attested("DEFAULT") <= attested("PERMISSIVE")

(* Under the policy that wants a native verification, a VERIFIED claim of  *)
(* a formal backend was accepted by its tool, or by Isabelle's the         *)
(* sessions beside it: "A named formal checker accepted a theorem under    *)
(* captured assumptions".                                                  *)
VerifiedMeansChecked ==
  state = "VERIFIED" /\ config.level = "STRICT" /\ config.backend \in FormalBackends
    => run.kernel # {} /\ run.kernel \subseteq {"accepts", "accepts_some"}
=============================================================================
