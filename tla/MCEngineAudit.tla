---------------------------- MODULE MCEngineAudit ----------------------------
(* Instances of EngineAudit for TLC: a sound text and texts that differ    *)
(* from it in what one of the checks looks at.                             *)
EXTENDS EngineAudit, Preflight

SoundText == [admissible |-> TRUE, scan_ok |-> TRUE, newton_ok |-> TRUE,
              native |-> "accepts"]

AuditTexts ==
  {SoundText,
   [SoundText EXCEPT !.scan_ok = FALSE, !.newton_ok = FALSE],
   [SoundText EXCEPT !.native = "rejects"],
   [SoundText EXCEPT !.admissible = FALSE, !.native = "none"]}

(* Preflight keeps no state, so what it promises of every file, whichever  *)
(* backend that goes to, is evaluated in some of the first states only.    *)
PreflightIsMonotone ==
  phase = "intake" /\ ~file.there /\ config.level = "DEFAULT" /\ edits = 0 =>
    \A backend \in DOMAIN Scored : ReadinessIsEarned(backend)

(* Rocq, Isabelle and Python take every branch of this model alike.        *)
AuditBackends == {"lean", "rocq", "generic"}

(* A tool that times out, or an Isabelle theory with no session file.      *)
Unanswered == {[SoundText EXCEPT !.native = "none"]}

Isabelle == {"isabelle"}
=============================================================================
