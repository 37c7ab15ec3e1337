------------------------- MODULE MCHardenedPipeline -------------------------
(* Instances of HardenedPipeline for TLC.                                  *)
EXTENDS SovereignEngine

Plain(frozen, clean, marked, kernels) ==
  [zones |-> "none", balanced |-> TRUE, frozen |-> frozen, body |-> "",
   clean |-> clean, marked |-> marked, barred |-> {}, accepted_by |-> kernels]

Zoned(zones, frozen, body, clean) ==
  [zones |-> zones, balanced |-> TRUE, frozen |-> frozen, body |-> body,
   clean |-> clean, marked |-> {"lean4", "isabelle"},
   barred |-> IF clean THEN {} ELSE {"lean4", "isabelle"},
   accepted_by |-> {"lean"}]

(* Kernels accept a file that says nothing.                                *)
EmptyText == Plain("", TRUE, {}, Kernels)

Wrong == Plain("wrong", TRUE, {"lean4"}, {})

(* A Lean theorem proved, left to sorry in a block, and a weaker one in    *)
(* its place; the same with a value zone, and with a zone that is not      *)
(* closed.  A Lean text the Newton scan objects to, one without a theorem, *)
(* a theory with an unsafe marker, a Coq source.                           *)
PipelineTexts ==
  {EmptyText, Wrong,
   Zoned("block", "theorem", "proof", TRUE),
   Zoned("block", "theorem", "sorry", FALSE),
   Zoned("block", "theorem", "axiom", FALSE),
   Zoned("block", "weaker", "proof", TRUE),
   Zoned("value", "theorem", "sorry", FALSE),
   [Zoned("block", "theorem", "sorry", FALSE) EXCEPT !.balanced = FALSE],
   [Plain("vacuous", TRUE, {"lean4"}, {"lean"}) EXCEPT !.barred = {"lean4"}],
   Plain("imports", TRUE, {}, {"lean"}),
   Plain("theory", FALSE, {"isabelle"}, {"isabelle"}),
   Plain("coq", TRUE, {"rocq"}, {"rocq"})}

ClaimsWith(formals, headers, backends, panels, repairs, motions) ==
  [formal_code: formals, header_code: headers, backend: backends,
   panel: panels, repair: repairs, motion: motions]

(* Every text under Lean and the default panel; repairs switched off,      *)
(* other backends, spellings and panels with the texts they are about.     *)
PipelineClaims ==
  ClaimsWith(PipelineTexts, {EmptyText, Wrong}, {"lean4"}, {<<"lean4", "dafny">>},
             BOOLEAN, {"none", "safe", "unsafe"})
  \cup ClaimsWith(PipelineTexts, {EmptyText}, {"coq", "isabelle", "dafny", "other"},
             {<<"lean4", "dafny">>, <<"lean", "lean4", "rocq">>, <<"hol">>}, {TRUE}, {"none"})

KernelSets == {{}, {"lean"}, {"lean", "dafny"}, {"rocq", "isabelle"}, Kernels}
=============================================================================
