-------------------------- MODULE HardenedPipeline --------------------------
(***************************************************************************)
(* HardenedSovereignPipeline.run (hardened_pipeline.py): repair of the     *)
(* claim's code, SafeVerify scan, the heuristic base pipeline              *)
(* (nexus_pipeline.py), the kernel of the claim's backend and a vote of    *)
(* engines (kernel_backends.py, hardening/consensus.py), and the cascade   *)
(* that makes one verdict of them.  Kernels may be installed or removed    *)
(* between any two calls.  The pipeline's repair loop has the default      *)
(* patcher unless its owner gives it another; any is allowed for here.     *)
(* What the base pipeline certifies of polynomials and units reaches only  *)
(* the status of its own that run does not read, and is left out here (see *)
(* SovereignEngine).                                                       *)
(***************************************************************************)
EXTENDS Sequences, FiniteSets, RepairLoop

CONSTANTS
  Empty,          \* the empty text, what a claim without the field has
  Claims,         \* claims a caller may submit
  Installations,  \* sets of kernels that can be on PATH
  MaxUpdates      \* bound: changes of the installation during a run

Kernels == {"lean", "rocq", "isabelle", "dafny"}

BaseBackends == {"lean4", "rocq", "isabelle", "dafny"}

(* "panel" is consensus_backends without repetitions, which the dictionary *)
(* of engines drops; "motion" what the interval audit finds of a           *)
(* trajectory, if one is submitted.                                        *)
Claim == [formal_code: Texts, header_code: Texts, backend: STRING,
          panel: Seq(STRING), repair: BOOLEAN, motion: {"none", "safe", "unsafe"}]

ASSUME HardenedAssumption ==
  /\ Texts \subseteq Text /\ Empty \in Texts
  /\ \A c \in Claims :
       c \in Claim /\ \A i, j \in 1..Len(c.panel) : c.panel[i] = c.panel[j] => i = j
  /\ Installations \subseteq SUBSET Kernels
  /\ MaxUpdates \in Nat

VARIABLES
  claim,      \* the claim, as submitted
  installed,  \* the kernels on PATH
  at,         \* where the run stands
  code,       \* the text the gates of this pipeline judge
  base,       \* the result of the base pipeline
  kernel,     \* the result of the claim's own kernel
  ballots,    \* the votes so far, in the order of the panel
  accepted,   \* history: the exits with status 0, kernel and text
  result,     \* trust_verdict and overall_status
  updates

pipelineVars == <<claim, installed, at, code, base, kernel, ballots, accepted,
                  result, updates>>

hardenedVars == <<repairVars, pipelineVars>>

-----------------------------------------------------------------------------
(* kernel_backends.py.  A kernel exits with status 0 or another one, runs  *)
(* into its time-out, or cannot be started; the last two have no status.   *)
Exits(k, text) ==
  {"timeout", "unstarted", IF k \in text.accepted_by THEN "zero" ELSE "error"}

(* run_kernel: the kernel that a spelling of the backend names.            *)
KernelOf(spelled) ==
  CASE spelled \in {"lean", "lean4"}   -> {"lean"}
    [] spelled \in {"coq", "rocq"}     -> {"rocq"}
    [] spelled \in {"isabelle", "hol"} -> {"isabelle"}
    [] spelled = "dafny"               -> {"dafny"}
    [] OTHER                           -> {}

KernelResult(verdict, mode, ok) == [verdict |-> verdict, mode |-> mode, ok |-> ok]

Unknown == KernelResult("UNSAFE_TO_VERIFY", "missing", FALSE)

(* _heuristic, for want of a kernel.                                       *)
Heuristic(text) == KernelResult("EVIDENCE_SUPPORTED", "heuristic", text.clean)

RefusalVerdict(k, exit, text) ==
  CASE k = "isabelle" -> "INCONCLUSIVE"
    [] k = "lean"     -> IF exit = "timeout" THEN "INCONCLUSIVE"
                         ELSE IF text.clean /\ exit = "error" THEN "REJECTED"
                         ELSE "EVIDENCE_SUPPORTED"
    [] OTHER          -> IF exit = "error" THEN "REJECTED" ELSE "INCONCLUSIVE"

(* Only the Isabelle adapter does not ask SafeVerify.                      *)
KernelAnswer(k, exit, text) ==
  IF exit = "zero" /\ (k = "isabelle" \/ text.clean)
  THEN KernelResult("FORMALLY_CHECKED", "kernel", TRUE)
  ELSE KernelResult(RefusalVerdict(k, exit, text), "kernel", FALSE)

(* One call of run_kernel: the results it can have, and the exit behind.   *)
run_kernel(spelled, text) ==
  IF KernelOf(spelled) = {} THEN {[exit |-> {}, answer |-> Unknown]}
  ELSE IF KernelOf(spelled) \cap installed = {}
  THEN {[exit |-> {}, answer |-> Heuristic(text)]}
  ELSE UNION {{[exit |-> IF exit = "zero" THEN {<<k, text>>} ELSE {},
                answer |-> KernelAnswer(k, exit, text)] :
                  exit \in Exits(k, text)} : k \in KernelOf(spelled)}

-----------------------------------------------------------------------------
(* nexus_pipeline.py.  The ingestion takes header_code for an empty        *)
(* formal_code, and lean4 for a backend it does not know.                  *)
BaseBackend(raw) == IF raw.backend \in BaseBackends THEN raw.backend ELSE "lean4"

process_raw_claim(formal, raw) ==
  [text |-> IF formal = Empty THEN raw.header_code ELSE formal,
   backend |-> BaseBackend(raw)]

heuristic_verify(c) ==
  LET has_bad == c.backend \in c.text.barred \/ ~c.text.clean
      syntax_ok == c.backend \in c.text.marked
  IN [verdict |-> IF has_bad \/ syntax_ok THEN "EVIDENCE_SUPPORTED" ELSE "REJECTED",
      heuristic_pass |-> ~has_bad /\ syntax_ok,
      has_unverified_axioms |-> has_bad]

audit_verification_result(v) == ~v.has_unverified_axioms /\ v.heuristic_pass

run_pipeline(formal, raw) ==
  LET c == process_raw_claim(formal, raw)
      v == heuristic_verify(c)
  IN [text |-> c.text, passed |-> audit_verification_result(v), verdict |-> v.verdict]

-----------------------------------------------------------------------------
(* hardening/consensus.py.  No engine answers COMPUTATION_VERIFIED.        *)
Passes == {i \in 1..Len(ballots) : ballots[i].ok}
Fails == (1..Len(ballots)) \ Passes

FirstFailure == ballots[CHOOSE i \in Fails : \A j \in Fails : i <= j].verdict

(* Mutation: half of the votes are a majority.                             *)
agreed_by_half == 2 * Cardinality(Passes) >= Len(ballots)

agreed == Cardinality(Passes) >= Len(ballots) \div 2 + 1

consensus_verdict ==
  IF agreed
  THEN IF \A i \in Passes : ballots[i].verdict = "FORMALLY_CHECKED"
       THEN "FORMALLY_CHECKED" ELSE "EVIDENCE_SUPPORTED"
  ELSE IF Passes # {} /\ Fails # {} THEN "CONFLICTING_VERDICTS"
  ELSE IF Fails # {} THEN FirstFailure ELSE "INCONCLUSIVE"

-----------------------------------------------------------------------------
(* Mutation: a kernel that is not there counts by its heuristic.           *)
final_verdict_by_ok ==
  IF claim.motion = "unsafe" THEN "REJECTED"
  ELSE IF kernel.ok THEN "FORMALLY_CHECKED"
  ELSE IF agreed /\ consensus_verdict = "FORMALLY_CHECKED" THEN "FORMALLY_CHECKED"
  ELSE IF ~code.clean THEN "EVIDENCE_SUPPORTED"
  ELSE base.verdict

final_verdict ==
  IF claim.motion = "unsafe" THEN "REJECTED"
  ELSE IF kernel.mode = "kernel" /\ kernel.ok THEN "FORMALLY_CHECKED"
  ELSE IF agreed /\ consensus_verdict = "FORMALLY_CHECKED" THEN "FORMALLY_CHECKED"
  ELSE IF ~code.clean THEN "EVIDENCE_SUPPORTED"
  ELSE base.verdict

Positive == {"FORMALLY_CHECKED", "COMPUTATION_VERIFIED", "EVIDENCE_SUPPORTED"}

(* Mutation: the audit of the base pipeline is not consulted.              *)
overall_unaudited == final_verdict \in Positive /\ code.clean /\ claim.motion # "unsafe"

overall ==
  /\ final_verdict \in Positive /\ code.clean /\ claim.motion # "unsafe"
  /\ base.passed

-----------------------------------------------------------------------------
StartRun ==
  /\ at = "submitted"
  /\ IF claim.repair /\ claim.formal_code # Empty
       THEN BeginRepair /\ at' = "repair"
       ELSE at' = "repaired" /\ UNCHANGED repairVars
  /\ UNCHANGED <<claim, installed, code, base, kernel, ballots, accepted, result, updates>>

Repair ==
  /\ at = "repair" /\ stop = "running"
  /\ RepairStep
  /\ UNCHANGED pipelineVars

EndRepair ==
  /\ at = "repair" /\ stop \in StopReasons
  /\ code' = IF success THEN current ELSE code
  /\ at' = "repaired"
  /\ UNCHANGED <<repairVars, claim, installed, base, kernel, ballots, accepted,
                 result, updates>>

(* Mutation: the base pipeline is handed the claim as it came.             *)
RunBaseAsSubmitted ==
  /\ at = "repaired"
  /\ base' = run_pipeline(claim.formal_code, claim)
  /\ at' = "kernel"
  /\ UNCHANGED <<repairVars, claim, installed, code, kernel, ballots, accepted,
                 result, updates>>

RunBase ==
  /\ at = "repaired"
  /\ base' = run_pipeline(code, claim)
  /\ at' = "kernel"
  /\ UNCHANGED <<repairVars, claim, installed, code, kernel, ballots, accepted,
                 result, updates>>

RunKernel ==
  /\ at = "kernel"
  /\ \E r \in run_kernel(claim.backend, code) :
       kernel' = r.answer /\ accepted' = accepted \cup r.exit
  /\ at' = "vote"
  /\ UNCHANGED <<repairVars, claim, installed, code, base, ballots, result, updates>>

(* The temporary file cannot be written: the run of the claim's own kernel *)
(* raises to the caller, an engine of the panel votes UNSAFE_TO_VERIFY.    *)
KernelRaises ==
  /\ at = "kernel" /\ KernelOf(claim.backend) \cap installed # {}
  /\ at' = "raised"
  /\ UNCHANGED <<repairVars, claim, installed, code, base, kernel, ballots, accepted,
                 result, updates>>

Voter == claim.panel[Len(ballots) + 1]

Vote ==
  /\ at = "vote" /\ Len(ballots) < Len(claim.panel)
  /\ \E r \in run_kernel(Voter, code) :
       ballots' = Append(ballots, r.answer) /\ accepted' = accepted \cup r.exit
  /\ UNCHANGED <<repairVars, claim, installed, at, code, base, kernel, result, updates>>

VoteRaises ==
  /\ at = "vote" /\ Len(ballots) < Len(claim.panel)
  /\ KernelOf(Voter) \cap installed # {}
  /\ ballots' = Append(ballots, Unknown)
  /\ UNCHANGED <<repairVars, claim, installed, at, code, base, kernel, accepted,
                 result, updates>>

Decide ==
  /\ at = "vote" /\ Len(ballots) = Len(claim.panel)
  /\ result' = [verdict |-> final_verdict, passed |-> overall]
  /\ at' = "done"
  /\ UNCHANGED <<repairVars, claim, installed, code, base, kernel, ballots, accepted,
                 updates>>

UpdateKernels ==
  /\ at \in {"submitted", "repair", "repaired", "kernel", "vote"}
  /\ updates < MaxUpdates
  /\ \E i \in Installations \ {installed} : installed' = i
  /\ updates' = updates + 1
  /\ UNCHANGED <<repairVars, claim, at, code, base, kernel, ballots, accepted, result>>

NoResult == [verdict |-> "INCONCLUSIVE", passed |-> FALSE]

HardenedInit ==
  /\ claim \in Claims
  /\ installed \in Installations
  /\ RepairInit(claim.formal_code)
  /\ at = "submitted"
  /\ code = claim.formal_code
  /\ base = [text |-> Empty, passed |-> FALSE, verdict |-> "INCONCLUSIVE"]
  /\ kernel = Unknown
  /\ ballots = <<>> /\ accepted = {}
  /\ result = NoResult
  /\ updates = 0

HardenedNext ==
  \/ StartRun \/ Repair \/ EndRepair \/ RunBase
  \/ RunKernel \/ KernelRaises \/ Vote \/ VoteRaises \/ Decide
  \/ UpdateKernels

HardenedSpec == HardenedInit /\ [][HardenedNext]_hardenedVars

-----------------------------------------------------------------------------
HardenedTypeOK ==
  /\ RepairTypeOK
  /\ claim \in Claims /\ installed \in Installations
  /\ at \in {"submitted", "repair", "repaired", "kernel", "vote", "done", "raised"}
  /\ code \in Texts
  /\ base.text \in Texts /\ base.passed \in BOOLEAN
  /\ kernel.mode \in {"missing", "heuristic", "kernel"}
  /\ Len(ballots) <= Len(claim.panel)
  /\ accepted \subseteq Kernels \X Texts
  /\ result.passed \in BOOLEAN
  /\ updates \in 0..MaxUpdates

Done == at = "done"

Formal == result.verdict = "FORMALLY_CHECKED"

Asked == {claim.backend} \cup {claim.panel[i] : i \in 1..Len(claim.panel)}

(* "FORMALLY_CHECKED only when a real kernel returns success": some kernel *)
(* that the claim or the panel names accepted the very text the pipeline   *)
(* judged.  What the heuristics say while kernels come and go does not     *)
(* suffice.  The text is clean, too, unless Isabelle accepted it, whose    *)
(* adapter does not ask SafeVerify (FormalMeansClean).                     *)
FormalHasKernel ==
  Done /\ Formal =>
    \E s \in Asked : \E k \in KernelOf(s) :
      <<k, code>> \in accepted /\ (code.clean \/ k = "isabelle")

(* "Consensus raises confidence; it does not invent formal truth": a       *)
(* formal vote of the panel takes kernels only, no engine that has none is *)
(* outvoted into it or counted for it.                                     *)
ConsensusInventsNothing ==
  Done /\ consensus_verdict = "FORMALLY_CHECKED" =>
    /\ 2 * Cardinality(Passes) > Len(ballots)
    /\ \A i \in Passes : \E k \in KernelOf(claim.panel[i]) : <<k, code>> \in accepted

(* A claim that passes got past every gate: scan, heuristics and physics,  *)
(* which look at the claim through different readings of its fields.       *)
PassedEveryGate ==
  Done /\ result.passed =>
    /\ code.clean /\ claim.motion # "unsafe"
    /\ base.text.clean
    /\ BaseBackend(claim) \in base.text.marked \ base.text.barred

(* The base pipeline judges the text the kernels are run on: that of the   *)
(* claim, or what a successful repair made of it and SafeVerify found      *)
(* clean.  When that text is empty, and only then, it judges the claim's   *)
(* header_code while they are run on an empty file.                        *)
GatesJudgeOneText ==
  at \in {"kernel", "vote", "done"} =>
    /\ base.text = IF code = Empty THEN claim.header_code ELSE code
    /\ code # claim.formal_code =>
         stop = "repaired" /\ code = current /\ code.clean

(* A formally checked text is clean: "FORMALLY_CHECKED is only set on      *)
(* successful kernel exit + clean SafeVerify".                             *)
FormalMeansClean == Done /\ Formal => code.clean
=============================================================================
