----------------------------- MODULE Preflight -----------------------------
(***************************************************************************)
(* "mvpc preflight": run_preflight of preflight.py ranks how ready a file  *)
(* is for an audit, by a score of its text that the rules of one backend   *)
(* give, and by the tools and the project around it.  It keeps no state.   *)
(* A text is the set of the features the rules look for and the number of  *)
(* findings of the Newton rules in it.                                     *)
(***************************************************************************)
EXTENDS Integers

CONSTANT MaxFindings   \* bound: findings of the Newton rules in a text

ASSUME PreflightAssumption == MaxFindings \in Nat

Merits == {"theorem", "header", "qed", "claim", "def"}
Faults == {"hole", "axiom", "eval"}

(* What the rules of a backend look at; "hole" is sorry, admit, Admitted   *)
(* or oops.                                                                *)
Scored == [lean |-> {"theorem", "hole", "axiom", "imports"},
           coq |-> {"theorem", "qed", "hole", "axiom"},
           isabelle |-> {"header", "theorem", "hole", "axiom"},
           python |-> {"claim", "def", "eval"},
           generic |-> {}]

(* A file as preflight sees it: let in by intake or not, with a Lake       *)
(* project beside or above it, and its backend's tool installed.           *)
Case == [admitted: BOOLEAN, text: SUBSET (Merits \cup Faults \cup {"imports"}),
         newton: Nat, lake: BOOLEAN, tool: BOOLEAN]

Points(applies, n) == IF applies THEN n ELSE 0

Clamped(score) == IF score < 0 THEN 0 ELSE IF score > 100 THEN 100 ELSE score

-----------------------------------------------------------------------------
(* Mutation: the findings are taken off, and nothing is capped.            *)
newton_uncapped(score, n) == score - 40 * n

(* Findings of the Newton rules are taken off; what is left is capped.     *)
newton_capped(score, n) ==
  IF n > 0 /\ score - 40 * n > 35 THEN 35 ELSE score - 40 * n

_score_lean(c) ==
  Clamped(newton_capped(40 + Points("theorem" \in c.text, 20)
                           - Points("hole" \in c.text, 25)
                           - Points("axiom" \in c.text, 20)
                           + Points(c.lake, 25)
                           - Points("imports" \in c.text /\ ~c.lake, 10),
                        c.newton))

_score_coq(c) ==
  Clamped(45 + Points("theorem" \in c.text, 25) - Points("hole" \in c.text, 25)
             - Points("axiom" \in c.text, 15) + Points("qed" \in c.text, 15))

_score_isabelle(c) ==
  Clamped(45 + Points("header" \in c.text, 15) + Points("theorem" \in c.text, 20)
             - Points("hole" \in c.text, 25) - Points("axiom" \in c.text, 20))

_score_python(c) ==
  Clamped(35 + Points("claim" \in c.text, 40) - Points("eval" \in c.text, 30)
             + Points("def" \in c.text, 10))

(* run_preflight: in the Lean branch a low score has the last word.        *)
readiness(backend, c) ==
  LET deep(ready) == IF ready THEN "ready_for_deep_audit" ELSE "needs_project_context" IN
  IF ~c.admitted THEN "blocked"
  ELSE CASE backend = "lean" -> IF _score_lean(c) < 40 THEN "template_suggested"
                                ELSE deep(c.tool /\ _score_lean(c) >= 60)
         [] backend = "coq" -> deep(c.tool /\ _score_coq(c) >= 50)
         [] backend = "isabelle" -> deep(c.tool /\ _score_isabelle(c) >= 50)
         [] backend = "python" -> IF _score_python(c) >= 60 THEN "ready_for_deep_audit"
                                  ELSE "template_suggested"
         [] backend = "generic" -> "generic_only"

-----------------------------------------------------------------------------
Readiness == [blocked |-> 0, generic_only |-> 1, template_suggested |-> 2,
              needs_project_context |-> 3, ready_for_deep_audit |-> 4]

CasesOf(backend) ==
  {c \in [admitted: BOOLEAN, text: SUBSET Scored[backend], newton: 0..MaxFindings,
          lake: BOOLEAN, tool: BOOLEAN] :
     backend # "lean" => c.newton = 0 /\ ~c.lake}

(* One thing about a file is put right.                                    *)
Improvements(backend, c) ==
  {[c EXCEPT !.admitted = TRUE], [c EXCEPT !.lake = backend = "lean"],
   [c EXCEPT !.tool = TRUE], [c EXCEPT !.newton = IF @ = 0 THEN 0 ELSE @ - 1]}
  \cup {[c EXCEPT !.text = @ \cup {f}] : f \in Scored[backend] \cap Merits}
  \cup {[c EXCEPT !.text = @ \ {f}] : f \in Faults}

(* "Assurance is proportional to structure + tools": putting right one     *)
(* thing about a file never makes it less ready, though scores are added   *)
(* up, clamped and capped and thresholds differ by backend; a Lean file    *)
(* with a vacuous proof is sent to a template whatever else speaks for it, *)
(* and one that imports without a Lake project is not ready.               *)
ReadinessIsEarned(backend) ==
  \A c \in CasesOf(backend) :
    /\ \A better \in Improvements(backend, c) :
         Readiness[readiness(backend, c)] <= Readiness[readiness(backend, better)]
    /\ backend = "lean" /\ c.newton > 0 =>
         Readiness[readiness(backend, c)] <= Readiness.template_suggested
    /\ backend = "lean" /\ "imports" \in c.text /\ ~c.lake =>
         readiness(backend, c) # "ready_for_deep_audit"
=============================================================================
