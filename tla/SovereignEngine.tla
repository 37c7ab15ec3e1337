-------------------------- MODULE SovereignEngine --------------------------
(***************************************************************************)
(* The repository has its heuristic pipeline twice: as the base pipeline   *)
(* of nexus_pipeline.py, and as SovereignNexusEngine of                    *)
(* sovereign_engine.py, with drivers, audits and registries of its own.    *)
(* Here is what each of the two certifies of a claim, its polynomials and  *)
(* its physics included, to compare them.                                  *)
(***************************************************************************)
EXTENDS HardenedPipeline

(* What comes with a claim.  Its variables have dimensions both registries *)
(* know, a symbol that only SI_REGISTRY of phys/si_units.py has ("symbol": *)
(* x, t, I, T, E or P), or neither; its trajectory breaks a bound of the   *)
(* claim ("unsafe"), or only the fixed limit of kinetic energy ("fast").   *)
Physics ==
  [requires_si_checking: BOOLEAN, requires_cps_bounds: BOOLEAN,
   variables: {"known", "symbol", "unknown"},
   motion: {"none", "safe", "fast", "unsafe"},
   polynomials: {"none", "member", "other"}]

verify_ideal_membership(physics) == physics.polynomials # "other"

-----------------------------------------------------------------------------
(* Mutation: the drivers do not ask the Newton rules and the syntax bars.  *)
scan_result_by_safe_verify(c) ==
  [heuristic_pass |-> c.text.clean /\ c.backend \in c.text.marked,
   has_unverified_axioms |-> ~c.text.clean,
   verdicts |-> {"EVIDENCE_SUPPORTED"}]

(* _scan_result of the driver of a backend.  Which verdict an objection    *)
(* brings depends on the rule: the Newton rules reject.                    *)
scan_result(c) ==
  LET has_bad == c.backend \in c.text.barred \/ ~c.text.clean
      syntax_ok == c.backend \in c.text.marked
  IN [heuristic_pass |-> ~has_bad /\ syntax_ok,
      has_unverified_axioms |-> has_bad,
      verdicts |-> IF has_bad THEN {"EVIDENCE_SUPPORTED", "INCONCLUSIVE", "REJECTED"}
                   ELSE IF syntax_ok THEN {"EVIDENCE_SUPPORTED"} ELSE {"REJECTED"}]

(* SafeVerifyAxiomAuditor: without an objection, text that lacks syntax    *)
(* was rejected, and that fails as well.                                   *)
audit_scan(v) ==
  ~v.has_unverified_axioms /\ (v.heuristic_pass \/ v.verdicts # {"REJECTED"})

(* verify_physical_realization with the engine's own registry.             *)
engine_units(physics) == physics.requires_si_checking => physics.variables = "known"

(* audit_hybrid_trajectory: no bound counts unless the claim asks for it.  *)
engine_motion(physics) == physics.requires_cps_bounds => physics.motion # "unsafe"

process_and_verify(formal, raw, physics) ==
  LET v == scan_result(process_raw_claim(formal, raw)) IN
  /\ v.heuristic_pass /\ ~v.has_unverified_axioms
  /\ audit_scan(v)
  /\ verify_ideal_membership(physics)
  /\ engine_units(physics) /\ engine_motion(physics)

-----------------------------------------------------------------------------
(* What run_pipeline goes on to ask the bridge of cps_realization.py,      *)
(* which audits every trajectory it gets.                                  *)
bridge_units(physics) == physics.requires_si_checking => physics.variables # "unknown"
bridge_motion(physics) == physics.motion \notin {"fast", "unsafe"}

overall_status(formal, raw, physics) ==
  /\ run_pipeline(formal, raw).passed
  /\ verify_ideal_membership(physics)
  /\ bridge_units(physics) /\ bridge_motion(physics)

-----------------------------------------------------------------------------
(* The two pipelines pass the same claims, but for a symbol that one       *)
(* registry lacks, and a trajectory only the bridge objects to: one beyond *)
(* the fixed energy limit, or beyond bounds the claim does not ask for.    *)
(* Neither lets a text pass that the other one stops.                      *)
EnginesAgree ==
  at = "repaired" =>
    \A physics \in Physics :
      LET engine == process_and_verify(claim.formal_code, claim, physics)
          pipeline == overall_status(claim.formal_code, claim, physics)
      IN /\ pipeline /\ ~engine =>
              physics.requires_si_checking /\ physics.variables = "symbol"
         /\ engine /\ ~pipeline =>
              \/ physics.motion = "fast"
              \/ physics.motion = "unsafe" /\ ~physics.requires_cps_bounds
=============================================================================
