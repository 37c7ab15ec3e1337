------------------------- MODULE EngineAuditProofs -------------------------
(***************************************************************************)
(* Proofs about EngineAudit, for any texts, backends, packages and bounds. *)
(* One change of the file after it was sealed leaves the file different    *)
(* from its seal until finalize looks; one change before that is part of   *)
(* what is sealed.  A file that was gone when the session looked for one   *)
(* to watch had been there at intake, so that was the change.              *)
(* And about Preflight, for any number of findings: the scores and the     *)
(* thresholds they are held against only ever reward a file that is no     *)
(* worse (NoWorse).                                                        *)
(***************************************************************************)
EXTENDS MCEngineAudit, TLAPS

BeforeSeal == phase \in {"intake", "sealing", "sealed_system"}

UnderSeal == phase \in {"scanning", "hashing", "native", "native_done", "newton", "mid",
                        "finalizing", "finalizing_artifact"}

SealedTextOnly == run.read \subseteq run.before /\ run.hashed \subseteq run.before

(* What the session knows of the artifact, at most one change on.          *)
ArtifactInv ==
  /\ BeforeSeal => run.read = {} /\ run.hashed = {} /\ run.before = {}
  /\ phase = "sealing" /\ edits = 0 => file.there
  /\ phase = "sealed_system" /\ ~run.watched => edits > 0 /\ (edits = 1 => ~file.there)
  /\ UnderSeal /\ edits = 0 => run.watched
  /\ UnderSeal /\ edits <= 1 =>
       \/ Contents = run.before /\ SealedTextOnly
       \/ edits = 1 /\ run.watched /\ Contents # run.before
  /\ phase = "deciding" /\ edits <= 1 => SealedTextOnly \/ run.violations # {}
  /\ "ARTIFACT_MUTATION" \in run.violations => edits > 0

(* ... and of the package.                                                 *)
PackageInv ==
  /\ phase \in {"intake", "sealing"} => run.ran_under = {}
  /\ phase \notin {"intake", "sealing", "done"} /\ updates = 0 => run.system = {package}
  /\ phase \in {"sealed_system", "scanning", "hashing", "native", "native_done", "newton", "mid"}
       /\ updates <= 1 =>
       \/ run.system = {package} /\ run.ran_under \subseteq run.system
       \/ updates = 1 /\ run.system # {package}
  /\ phase = "finalizing" /\ updates <= 1 =>
       \/ run.ran_under \subseteq run.system
       \/ ~config.mid_run_integrity_check /\ updates = 1 /\ run.system # {package}
       \/ run.violations # {}
  /\ phase \in {"finalizing_artifact", "deciding"} /\ updates <= 1
       /\ (config.enforce_system_integrity \/ config.mid_run_integrity_check) =>
       run.ran_under \subseteq run.system \/ run.violations # {}
  /\ updates = 0 => run.mid \subseteq {package}
  /\ "SYSTEM_INTEGRITY_FAILURE" \in run.violations => updates > 0

EngineInv ==
  /\ EngineTypeOK
  /\ phase # "done" => state = "PENDING"
  /\ ArtifactInv /\ PackageInv
  /\ OneEditIsCaught /\ OneUpdateIsCaught

-----------------------------------------------------------------------------
(* What a check saw of a file is one of the texts, or nothing.             *)
LEMMA ContentsType ==
  ASSUME EngineTypeOK
  PROVE  Contents \in SUBSET Texts
BY DEF EngineTypeOK, Contents

(* The state of the engine keeps its shape.                                *)
LEMMA TypeStep ==
  ASSUME EngineTypeOK, [EngineNext]_engineVars
  PROVE  EngineTypeOK'
<1> USE ContentsType, EngineAssumption DEF EngineTypeOK, Step, Phases
<1>1. CASE AdmitArtifact BY <1>1 DEF AdmitArtifact
<1>2. CASE BlockAtIntake BY <1>2 DEF BlockAtIntake, Found, Codes, Attestations
<1>3. CASE SealSystem BY <1>3 DEF SealSystem
<1>4. CASE SealArtifact BY <1>4 DEF SealArtifact
<1>5. CASE ScanStatic BY <1>5 DEF ScanStatic, Found, Seen, Codes
<1>6. CASE HashEvidence BY <1>6 DEF HashEvidence, Seen
<1>7. CASE HashRaises BY <1>7 DEF HashRaises
<1>8. CASE SkipNative BY <1>8 DEF SkipNative
<1>9. CASE RunNative
  <2>1. PICK answer \in Answers :
          Step("native", "native_done",
            Found([Seen(run) EXCEPT !.has_native = TRUE, !.kernel = {answer}],
                  "NATIVE", NativeViolation(config.backend, answer)))
    BY <1>9 DEF RunNative
  <2> QED BY <1>9, <2>1 DEF RunNative, Found, Seen, Codes
<1>10. CASE LeanReadError BY <1>10 DEF LeanReadError, Seen
<1>11. CASE HashNative BY <1>11 DEF HashNative
<1>12. ASSUME NEW statement_ok \in BOOLEAN, ScanNewton(statement_ok) PROVE EngineTypeOK'
  BY <1>12 DEF ScanNewton, Found, Seen, Codes
<1>13. CASE CheckMid BY <1>13 DEF CheckMid, Found, Codes
<1>14. CASE SkipMid BY <1>14 DEF SkipMid
<1>15. CASE FinalizeSystem BY <1>15 DEF FinalizeSystem, Found, Codes
<1>16. CASE FinalizeArtifact BY <1>16 DEF FinalizeArtifact, Found, Codes
<1>17. CASE Attest
  <2>1. state' \in Attestations
    BY ONLY <1>17 DEF Attest, evaluate_attestation, Attestations
  <2> QED BY <1>17, <2>1 DEF Attest
<1>18. CASE EditFile
  <2>1. file' \in [there: BOOLEAN, text: Texts]
    <3>1. CASE \E t \in Texts : file' = [there |-> TRUE, text |-> t]
      BY <3>1
    <3>2. CASE file' = [file EXCEPT !.there = FALSE]
      BY <3>2
    <3> QED BY <1>18, <3>1, <3>2 DEF EditFile
  <2>2. edits' \in 0..MaxEdits
    BY <1>18 DEF EditFile
  <2> QED BY <1>18, <2>1, <2>2 DEF EditFile
<1>19. CASE UpdatePackage BY <1>19 DEF UpdatePackage
<1>20. CASE UNCHANGED engineVars BY <1>20 DEF engineVars
<1> QED
  BY <1>1, <1>2, <1>3, <1>4, <1>5, <1>6, <1>7, <1>8, <1>9, <1>10, <1>11, <1>12, <1>13,
     <1>14, <1>15, <1>16, <1>17, <1>18, <1>19, <1>20 DEF EngineNext, EngineStep

(* Any change of the file changes what a hash of it is.                    *)
LEMMA EditChanges ==
  ASSUME EngineTypeOK, EditFile
  PROVE  Contents' # Contents /\ edits' = edits + 1 /\ edits \in Nat
<1> USE DEF EngineTypeOK
<1>1. file \in [there: BOOLEAN, text: Texts] /\ file' # file
  BY DEF EditFile
<1>2. CASE \E t \in Texts : file' = [there |-> TRUE, text |-> t]
  <2>1. PICK t \in Texts : file' = [there |-> TRUE, text |-> t]
    BY <1>2
  <2>2. Contents' = {t}
    BY <2>1 DEF Contents
  <2>3. file.there => file.text # t
    BY <1>1, <2>1
  <2> QED BY <2>2, <2>3 DEF Contents, EditFile
<1>3. CASE file' = [file EXCEPT !.there = FALSE]
  <2>1. file.there
    BY <1>1, <1>3
  <2>2. Contents' = {} /\ Contents = {file.text}
    BY <1>1, <1>3, <2>1 DEF Contents
  <2> QED BY <2>2 DEF EditFile
<1> QED BY <1>2, <1>3 DEF EditFile

(* What the session knows of the artifact holds after every step.          *)
LEMMA ArtifactStep ==
  ASSUME EngineInv, [EngineNext]_engineVars
  PROVE  ArtifactInv'
<1> USE ContentsType, EngineAssumption
    DEF EngineInv, EngineTypeOK, ArtifactInv, Step, BeforeSeal, UnderSeal, SealedTextOnly
<1>1. CASE AdmitArtifact BY <1>1 DEF AdmitArtifact
<1>2. CASE BlockAtIntake BY <1>2 DEF BlockAtIntake, Found
<1>3. CASE SealSystem BY <1>3 DEF SealSystem
<1>4. CASE SealArtifact BY <1>4 DEF SealArtifact, Contents
<1>5. CASE ScanStatic BY <1>5 DEF ScanStatic, Found, Seen, Contents
<1>6. CASE HashEvidence BY <1>6 DEF HashEvidence, Seen, Contents
<1>7. CASE HashRaises BY <1>7 DEF HashRaises, Contents
<1>8. CASE SkipNative BY <1>8 DEF SkipNative, Contents
<1>9. CASE RunNative BY <1>9 DEF RunNative, Found, Seen, Contents
<1>10. CASE LeanReadError BY <1>10 DEF LeanReadError, Seen, Contents
<1>11. CASE HashNative BY <1>11 DEF HashNative, Contents
<1>12. ASSUME NEW statement_ok \in BOOLEAN, ScanNewton(statement_ok) PROVE ArtifactInv'
  BY <1>12 DEF ScanNewton, Found, Seen, Contents
<1>13. CASE CheckMid BY <1>13 DEF CheckMid, Found, Contents
<1>14. CASE SkipMid BY <1>14 DEF SkipMid, Contents
<1>15. CASE FinalizeSystem BY <1>15 DEF FinalizeSystem, Found, Contents
<1>16. CASE FinalizeArtifact BY <1>16 DEF FinalizeArtifact, Found, artifact_ok, Contents
<1>17. CASE Attest BY <1>17 DEF Attest
<1>18. CASE EditFile
  <2>1. Contents' # Contents /\ edits' = edits + 1
        /\ phase' = phase /\ run' = run /\ (edits = 0 => edits' = 1)
    BY <1>18, EditChanges DEF EditFile
  <2> QED BY <1>18, <2>1 DEF EditFile
<1>19. CASE UpdatePackage BY <1>19 DEF UpdatePackage, Contents
<1>20. CASE UNCHANGED engineVars BY <1>20 DEF engineVars, Contents
<1> QED
  BY <1>1, <1>2, <1>3, <1>4, <1>5, <1>6, <1>7, <1>8, <1>9, <1>10, <1>11, <1>12, <1>13,
     <1>14, <1>15, <1>16, <1>17, <1>18, <1>19, <1>20 DEF EngineNext, EngineStep

(* ... and what it knows of the package.                                   *)
LEMMA PackageStep ==
  ASSUME EngineInv, [EngineNext]_engineVars
  PROVE  PackageInv'
<1> USE EngineAssumption DEF EngineInv, EngineTypeOK, PackageInv, Step
<1>1. CASE AdmitArtifact BY <1>1 DEF AdmitArtifact
<1>2. CASE BlockAtIntake BY <1>2 DEF BlockAtIntake, Found
<1>3. CASE SealSystem BY <1>3 DEF SealSystem
<1>4. CASE SealArtifact BY <1>4 DEF SealArtifact
<1>5. CASE ScanStatic BY <1>5 DEF ScanStatic, Found, Seen
<1>6. CASE HashEvidence BY <1>6 DEF HashEvidence, Seen
<1>7. CASE HashRaises BY <1>7 DEF HashRaises
<1>8. CASE SkipNative BY <1>8 DEF SkipNative
<1>9. CASE RunNative BY <1>9 DEF RunNative, Found, Seen
<1>10. CASE LeanReadError BY <1>10 DEF LeanReadError, Seen
<1>11. CASE HashNative BY <1>11 DEF HashNative
<1>12. ASSUME NEW statement_ok \in BOOLEAN, ScanNewton(statement_ok) PROVE PackageInv'
  BY <1>12 DEF ScanNewton, Found, Seen
<1>13. CASE CheckMid BY <1>13 DEF CheckMid, Found
<1>14. CASE SkipMid BY <1>14 DEF SkipMid
<1>15. CASE FinalizeSystem BY <1>15 DEF FinalizeSystem, Found, system_intact
<1>16. CASE FinalizeArtifact BY <1>16 DEF FinalizeArtifact, Found
<1>17. CASE Attest BY <1>17 DEF Attest
<1>18. CASE EditFile BY <1>18 DEF EditFile
<1>19. CASE UpdatePackage BY <1>19 DEF UpdatePackage
<1>20. CASE UNCHANGED engineVars BY <1>20 DEF engineVars
<1> QED
  BY <1>1, <1>2, <1>3, <1>4, <1>5, <1>6, <1>7, <1>8, <1>9, <1>10, <1>11, <1>12, <1>13,
     <1>14, <1>15, <1>16, <1>17, <1>18, <1>19, <1>20 DEF EngineNext, EngineStep

(* What an accepted claim rests on was settled when it was attested.       *)
LEMMA VerdictStep ==
  ASSUME EngineInv, [EngineNext]_engineVars
  PROVE  /\ phase' # "done" => state' = "PENDING"
         /\ OneEditIsCaught' /\ OneUpdateIsCaught'
<1> USE DEF EngineInv, EngineTypeOK, OneEditIsCaught, OneUpdateIsCaught, Accepted, Attestations
<1>1. CASE Attest
  <2>1. run.violations # {} => state' = "REJECTED"
    BY ONLY <1>1 DEF Attest, evaluate_attestation
  <2>2. phase = "deciding" /\ run' = run /\ config' = config /\ edits' = edits
        /\ updates' = updates /\ phase' = "done"
    BY <1>1 DEF Attest, Step
  <2>3. Accepted' => run.violations = {}
    BY <2>1
  <2>4. Accepted' /\ edits <= 1 => SealedTextOnly
    BY <2>2, <2>3 DEF ArtifactInv
  <2>5. Accepted' /\ updates <= 1
          /\ (config.enforce_system_integrity \/ config.mid_run_integrity_check)
          => run.ran_under \subseteq run.system
    BY <2>2, <2>3 DEF PackageInv
  <2> QED BY <2>2, <2>4, <2>5 DEF SealedTextOnly
<1>2. CASE BlockAtIntake \/ HashRaises
  BY <1>2 DEF BlockAtIntake, HashRaises, Step
<1>3. CASE UNCHANGED engineVars
  BY <1>3 DEF engineVars
<1>4. CASE ~(Attest \/ BlockAtIntake \/ HashRaises \/ UNCHANGED engineVars)
  <2>1. phase # "done" /\ state' = state
    BY <1>4 DEF EngineNext, EngineStep, AdmitArtifact, SealSystem, SealArtifact, ScanStatic,
       HashEvidence, SkipNative, RunNative, LeanReadError, HashNative, ScanNewton, CheckMid,
       SkipMid, FinalizeSystem, FinalizeArtifact, EditFile, UpdatePackage, Step
  <2> QED BY <2>1
<1> QED BY <1>1, <1>2, <1>3, <1>4

(* A run starts with nothing sealed and nothing seen.                      *)
LEMMA InitInv == EngineInit => EngineInv
<1> SUFFICES ASSUME EngineInit PROVE EngineInv
  OBVIOUS
<1>1. EngineTypeOK
  BY EngineAssumption DEF EngineInit, EngineTypeOK, NoRun, Phases
<1>2. ArtifactInv /\ PackageInv
  BY DEF EngineInit, ArtifactInv, PackageInv, NoRun, BeforeSeal, UnderSeal
<1>3. OneEditIsCaught /\ OneUpdateIsCaught
  BY DEF EngineInit, OneEditIsCaught, OneUpdateIsCaught, Accepted, Attestations
<1> QED BY <1>1, <1>2, <1>3 DEF EngineInit, EngineInv

(* The invariant holds of every run.                                       *)
LEMMA Invariance == EngineSpec => []EngineInv
<1>1. EngineInv /\ [EngineNext]_engineVars => EngineInv'
  BY TypeStep, ArtifactStep, PackageStep, VerdictStep DEF EngineInv
<1> QED BY <1>1, InitInv, PTL DEF EngineSpec

(* The state of the engine keeps its shape.                                *)
THEOREM EngineTypeCorrect == EngineSpec => []EngineTypeOK
<1>1. EngineInv => EngineTypeOK
  BY DEF EngineInv
<1> QED BY <1>1, Invariance, PTL

(* One change of the file while it is audited, wherever it falls, cannot   *)
(* yield an accepted claim about a mixture of texts.                       *)
THEOREM OneEditCannotMix == EngineSpec => []OneEditIsCaught
<1>1. EngineInv => OneEditIsCaught
  BY DEF EngineInv
<1> QED BY <1>1, Invariance, PTL

(* One change of the package cannot yield a claim whose checks ran under a *)
(* package that was not sealed, with either of the two checks configured.  *)
THEOREM OneUpdateCannotMix == EngineSpec => []OneUpdateIsCaught
<1>1. EngineInv => OneUpdateIsCaught
  BY DEF EngineInv
<1> QED BY <1>1, Invariance, PTL

(* A mutation or a corrupted verifier is reported only of one that changed.*)
THEOREM SealsAlarmRightly == EngineSpec => []AlarmsAreReal
<1>1. EngineInv => AlarmsAreReal
  <2>1. ASSUME EngineInv, "ARTIFACT_MUTATION" \in run.violations PROVE edits > 0
    BY <2>1 DEF EngineInv, ArtifactInv
  <2>2. ASSUME EngineInv, "SYSTEM_INTEGRITY_FAILURE" \in run.violations PROVE updates > 0
    BY <2>2 DEF EngineInv, PackageInv
  <2> QED BY <2>1, <2>2 DEF AlarmsAreReal
<1> QED BY <1>1, Invariance, PTL

(* The policy levels are an order of strictness: whatever was found, and   *)
(* whichever checks were listed, a stricter level never attests more.      *)
THEOREM LevelsAreOrdered == EngineSpec => []StricterAttestsLess
<1>1. EngineInv => StricterAttestsLess
  <2>1. SUFFICES ASSUME run.has_native \in BOOLEAN PROVE StricterAttestsLess
    BY DEF EngineInv, EngineTypeOK
  <2> QED BY DEF StricterAttestsLess, evaluate_attestation, Rank, has_static
<1> QED BY <1>1, Invariance, PTL

-----------------------------------------------------------------------------
(* Of preflight.  A file is no worse than another if it has every merit of *)
(* it and no other fault.                                                  *)
NoWorse(d, c) ==
  /\ c.admitted => d.admitted
  /\ c.lake => d.lake
  /\ c.tool => d.tool
  /\ d.newton <= c.newton
  /\ \A f \in Merits : f \in c.text => f \in d.text
  /\ \A f \in Faults : f \in d.text => f \in c.text
  /\ "imports" \in d.text <=> "imports" \in c.text

(* What a scoring rule adds or takes off.                                  *)
LEMMA PointsFacts ==
  ASSUME NEW a \in BOOLEAN, NEW b \in BOOLEAN, NEW n \in Nat, a => b
  PROVE  Points(a, n) \in 0..n /\ Points(b, n) \in 0..n /\ Points(a, n) <= Points(b, n)
BY DEF Points

LEMMA ClampedFacts ==
  ASSUME NEW s \in Int, NEW t \in Int, s <= t
  PROVE  /\ Clamped(s) \in 0..100 /\ Clamped(s) <= Clamped(t)
         /\ \A bound \in 0..100 : s <= bound => Clamped(s) <= bound
BY DEF Clamped

(* A finding of the Newton rules costs, whatever else is found.            *)
LEMMA CappedFacts ==
  ASSUME NEW s \in Int, NEW t \in Int, s <= t,
         NEW m \in Nat, NEW n \in Nat, n <= m
  PROVE  /\ newton_capped(s, m) \in Int /\ newton_capped(t, n) \in Int
         /\ newton_capped(s, m) <= newton_capped(t, n)
         /\ newton_capped(s, m) <= s
         /\ m > 0 => newton_capped(s, m) <= 35
BY DEF newton_capped

(* No rule gives a worse file a better score.                              *)
LEMMA LeanScores ==
  ASSUME NEW c \in Case, NEW d \in Case, NoWorse(d, c)
  PROVE  /\ _score_lean(c) \in 0..100 /\ _score_lean(c) <= _score_lean(d)
         /\ c.newton > 0 => _score_lean(c) <= 35
         /\ "imports" \in c.text /\ ~c.lake => _score_lean(c) <= 50
<1> DEFINE Raw(e) == 40 + Points("theorem" \in e.text, 20)
                        - Points("hole" \in e.text, 25)
                        - Points("axiom" \in e.text, 20)
                        + Points(e.lake, 25)
                        - Points("imports" \in e.text /\ ~e.lake, 10)
<1>1. /\ "theorem" \in c.text => "theorem" \in d.text
      /\ "hole" \in d.text => "hole" \in c.text
      /\ "axiom" \in d.text => "axiom" \in c.text
      /\ c.lake \in BOOLEAN /\ d.lake \in BOOLEAN /\ (c.lake => d.lake)
      /\ "imports" \in d.text <=> "imports" \in c.text
  BY DEF NoWorse, Case, Merits, Faults
<1>2. Raw(c) \in Int /\ Raw(d) \in Int /\ Raw(c) <= Raw(d)
  BY <1>1 DEF Points
<1>3. "imports" \in c.text /\ ~c.lake => Raw(c) <= 50
  BY DEF Points
<1> HIDE DEF Raw
<1>4. c.newton \in Nat /\ d.newton \in Nat /\ d.newton <= c.newton
  BY DEF NoWorse, Case
<1> DEFINE s == newton_capped(Raw(c), c.newton)
           t == newton_capped(Raw(d), d.newton)
<1>5. /\ s \in Int /\ t \in Int /\ s <= t /\ s <= Raw(c)
      /\ c.newton > 0 => s <= 35
  BY <1>2, <1>4, CappedFacts
<1>6. _score_lean(c) = Clamped(s) /\ _score_lean(d) = Clamped(t)
  BY DEF _score_lean, Raw
<1> HIDE DEF s, t
<1>7. "imports" \in c.text /\ ~c.lake => s <= 50
  BY <1>2, <1>3, <1>5
<1> QED BY <1>5, <1>6, <1>7, ClampedFacts

LEMMA OtherScores ==
  ASSUME NEW c \in Case, NEW d \in Case, NoWorse(d, c)
  PROVE  /\ _score_coq(c) \in 0..100 /\ _score_coq(c) <= _score_coq(d)
         /\ _score_isabelle(c) \in 0..100 /\ _score_isabelle(c) <= _score_isabelle(d)
         /\ _score_python(c) \in 0..100 /\ _score_python(c) <= _score_python(d)
<1>1. /\ \A f \in Merits : f \in c.text => f \in d.text
      /\ \A f \in Faults : f \in d.text => f \in c.text
  BY DEF NoWorse
<1>2. /\ "theorem" \in c.text => "theorem" \in d.text
      /\ "header" \in c.text => "header" \in d.text
      /\ "qed" \in c.text => "qed" \in d.text
      /\ "claim" \in c.text => "claim" \in d.text
      /\ "def" \in c.text => "def" \in d.text
      /\ "hole" \in d.text => "hole" \in c.text
      /\ "axiom" \in d.text => "axiom" \in c.text
      /\ "eval" \in d.text => "eval" \in c.text
  BY <1>1 DEF Merits, Faults
<1>3. _score_coq(c) \in 0..100 /\ _score_coq(c) <= _score_coq(d)
  BY <1>2 DEF _score_coq, Points, Clamped
<1>4. _score_isabelle(c) \in 0..100 /\ _score_isabelle(c) <= _score_isabelle(d)
  BY <1>2 DEF _score_isabelle, Points, Clamped
<1>5. _score_python(c) \in 0..100 /\ _score_python(c) <= _score_python(d)
  BY <1>2 DEF _score_python, Points, Clamped
<1> QED BY <1>3, <1>4, <1>5

(* The order of the verdicts.                                              *)
LEMMA ReadinessFacts ==
  /\ Readiness["blocked"] = 0 /\ Readiness["generic_only"] = 1
  /\ Readiness["template_suggested"] = 2 /\ Readiness["needs_project_context"] = 3
  /\ Readiness["ready_for_deep_audit"] = 4
BY DEF Readiness

(* A file that is no worse is no less ready, whatever backend it goes to.  *)
LEMMA ReadyNoLess ==
  ASSUME NEW backend \in DOMAIN Scored, NEW c \in Case, NEW d \in Case, NoWorse(d, c)
  PROVE  Readiness[readiness(backend, c)] <= Readiness[readiness(backend, d)]
<1> USE ReadinessFacts
<1>1. /\ c.admitted \in BOOLEAN /\ d.admitted \in BOOLEAN /\ (c.admitted => d.admitted)
      /\ c.tool \in BOOLEAN /\ d.tool \in BOOLEAN /\ (c.tool => d.tool)
  BY DEF NoWorse, Case
<1>2. NoWorse(d, d)
  BY DEF NoWorse, Case
<1>3. CASE backend = "lean"
  <2>1. _score_lean(c) \in Nat /\ _score_lean(d) \in Nat /\ _score_lean(c) <= _score_lean(d)
    BY <1>2, LeanScores
  <2> QED BY <1>1, <1>3, <2>1 DEF readiness
<1>4. CASE backend = "coq"
  <2>1. _score_coq(c) \in Nat /\ _score_coq(d) \in Nat /\ _score_coq(c) <= _score_coq(d)
    BY <1>2, OtherScores
  <2> QED BY <1>1, <1>4, <2>1 DEF readiness
<1>5. CASE backend = "isabelle"
  <2>1. /\ _score_isabelle(c) \in Nat /\ _score_isabelle(d) \in Nat
        /\ _score_isabelle(c) <= _score_isabelle(d)
    BY <1>2, OtherScores
  <2> QED BY <1>1, <1>5, <2>1 DEF readiness
<1>6. CASE backend = "python"
  <2>1. /\ _score_python(c) \in Nat /\ _score_python(d) \in Nat
        /\ _score_python(c) <= _score_python(d)
    BY <1>2, OtherScores
  <2> QED BY <1>1, <1>6, <2>1 DEF readiness
<1>7. CASE backend = "generic"
  BY <1>1, <1>7 DEF readiness
<1> QED BY <1>3, <1>4, <1>5, <1>6, <1>7 DEF Scored

(* One thing put right makes a file no worse.                              *)
LEMMA ImprovementsAreNoWorse ==
  ASSUME NEW backend \in DOMAIN Scored, NEW c \in CasesOf(backend),
         NEW d \in Improvements(backend, c)
  PROVE  c \in Case /\ d \in Case /\ NoWorse(d, c)
<1>1. Scored[backend] \subseteq Merits \cup Faults \cup {"imports"}
  BY DEF Scored, Merits, Faults
<1>2. /\ c \in Case
      /\ backend # "lean" => ~c.lake
  BY <1>1, PreflightAssumption DEF CasesOf, Case, PreflightAssumption
<1>3. c.newton \in Nat /\ c.text \subseteq Merits \cup Faults \cup {"imports"}
  BY <1>2 DEF Case
<1>4. CASE d = [c EXCEPT !.admitted = TRUE]
  <2>1. d.text = c.text /\ d.newton = c.newton /\ d.lake = c.lake /\ d.tool = c.tool
    BY <1>2, <1>4 DEF Case
  <2>2. d \in Case /\ (c.admitted => d.admitted)
    BY <1>2, <1>4 DEF Case
  <2> QED BY <1>2, <1>3, <2>1, <2>2 DEF NoWorse
<1>5. CASE d = [c EXCEPT !.lake = backend = "lean"]
  <2>1. d.admitted = c.admitted /\ d.text = c.text /\ d.newton = c.newton /\ d.tool = c.tool
    BY <1>2, <1>5 DEF Case
  <2>2. d \in Case /\ (c.lake => d.lake)
    BY <1>2, <1>5 DEF Case
  <2> QED BY <1>2, <1>3, <2>1, <2>2 DEF NoWorse
<1>6. CASE d = [c EXCEPT !.tool = TRUE]
  <2>1. d.admitted = c.admitted /\ d.text = c.text /\ d.newton = c.newton /\ d.lake = c.lake
    BY <1>2, <1>6 DEF Case
  <2>2. d \in Case /\ (c.tool => d.tool)
    BY <1>2, <1>6 DEF Case
  <2> QED BY <1>2, <1>3, <2>1, <2>2 DEF NoWorse
<1>7. CASE d = [c EXCEPT !.newton = IF @ = 0 THEN 0 ELSE @ - 1]
  BY <1>2, <1>3, <1>7 DEF Case, NoWorse
<1>8. ASSUME NEW f \in Scored[backend] \cap Merits, d = [c EXCEPT !.text = @ \cup {f}]
      PROVE  d \in Case /\ NoWorse(d, c)
  <2>1. f \notin Faults /\ f # "imports" /\ f \in Merits
    BY DEF Merits, Faults
  <2> QED BY <1>2, <1>3, <1>8, <2>1 DEF Case, NoWorse
<1>9. ASSUME NEW f \in Faults, d = [c EXCEPT !.text = @ \ {f}]
      PROVE  d \in Case /\ NoWorse(d, c)
  <2>1. f \notin Merits /\ f # "imports"
    BY DEF Merits, Faults
  <2> QED BY <1>2, <1>3, <1>9, <2>1 DEF Case, NoWorse
<1> QED BY <1>2, <1>4, <1>5, <1>6, <1>7, <1>8, <1>9 DEF Improvements

(* Preflight never finds a file less ready for one thing put right, and    *)
(* never takes a Lean file with a vacuous proof, or with imports and no    *)
(* Lake project, for ready.                                                *)
THEOREM ReadinessEarned ==
  ASSUME NEW backend \in DOMAIN Scored
  PROVE  ReadinessIsEarned(backend)
<1> SUFFICES ASSUME NEW c \in CasesOf(backend)
             PROVE  /\ \A better \in Improvements(backend, c) :
                         Readiness[readiness(backend, c)] <=
                           Readiness[readiness(backend, better)]
                    /\ backend = "lean" /\ c.newton > 0 =>
                         Readiness[readiness(backend, c)] <= Readiness.template_suggested
                    /\ backend = "lean" /\ "imports" \in c.text /\ ~c.lake =>
                         readiness(backend, c) # "ready_for_deep_audit"
  BY DEF ReadinessIsEarned
<1>1. \A better \in Improvements(backend, c) :
        Readiness[readiness(backend, c)] <= Readiness[readiness(backend, better)]
  BY ImprovementsAreNoWorse, ReadyNoLess
<1>2. c \in Case /\ NoWorse(c, c)
  <2>1. Scored[backend] \subseteq Merits \cup Faults \cup {"imports"}
    BY DEF Scored, Merits, Faults
  <2> QED BY <2>1, PreflightAssumption DEF CasesOf, Case, PreflightAssumption, NoWorse
<1>3. ASSUME backend = "lean", c.newton > 0
      PROVE  Readiness[readiness(backend, c)] <= Readiness.template_suggested
  <2>1. _score_lean(c) \in 0..100 /\ _score_lean(c) <= 35
    BY <1>2, <1>3, LeanScores
  <2>2. readiness(backend, c) \in {"blocked", "template_suggested"}
    BY <1>3, <2>1 DEF readiness
  <2> QED BY <2>2, ReadinessFacts
<1>4. ASSUME backend = "lean", "imports" \in c.text, ~c.lake
      PROVE  readiness(backend, c) # "ready_for_deep_audit"
  <2>1. _score_lean(c) \in 0..100 /\ _score_lean(c) <= 50
    BY <1>2, <1>4, LeanScores
  <2> QED BY <1>4, <2>1 DEF readiness
<1> QED BY <1>1, <1>3, <1>4

(* So it is for any number of findings, before any audit.                  *)
THEOREM PreflightAlwaysMonotone == EngineSpec => []PreflightIsMonotone
<1>1. PreflightIsMonotone
  BY ReadinessEarned DEF PreflightIsMonotone
<1> QED BY <1>1, PTL
=============================================================================
