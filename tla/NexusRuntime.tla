---------------------------- MODULE NexusRuntime ----------------------------
(***************************************************************************)
(* "mvpc nexus verify": SovereignNexusRuntime.verify of                    *)
(* src/src/mvpc/nexus/runtime.py with the policy, the backend array and    *)
(* the fingerprint session it drives, composed with the ledger it appends  *)
(* to (ManifestLedger).  A run reads the artifact four times - for the     *)
(* zones, for the normalized syntax tree, for the backend's own scan and   *)
(* in the kernel's process - and hashes the installation three times,      *)
(* while an editor and an installer may change both.                       *)
(***************************************************************************)
EXTENDS Naturals, Sequences, NativeBackends

CONSTANTS
  Runners,       \* processes that run nexus verify over one ledger directory
  Texts,         \* contents the artifact may have, as the record below
  Suffixes,      \* what the path of the artifact may end in
  Installs,      \* states of the installation the fingerprint covers
  MaxRuns,       \* bound: runs that reach the ledger
  MaxCrashes     \* bound: processes that die in the ledger

(***************************************************************************)
(* What the run distinguishes in a text: whether its lexical zones are     *)
(* well formed, whether its delimiters balance and it has no forbidden     *)
(* marker, whether it declares anything, whether the backend's own scan    *)
(* finds no violation, what the backend's tool makes of it, and what       *)
(* language it reads as where the suffix does not tell.                    *)
(***************************************************************************)
Text == [zones_ok: BOOLEAN, clean: BOOLEAN, declares: BOOLEAN, scan_ok: BOOLEAN,
         kernel: Answers, reads_as: FormalBackends \cup {"informal"}]

(* ".tex", ".md" and ".txt" are prose; ".py" is only known to a backend.   *)
ASSUME NexusAssumption ==
  /\ Texts \subseteq Text /\ Texts # {}
  /\ Suffixes \subseteq FormalBackends \cup {"prose", "python", "other"}
  /\ Installs # {}
  /\ MaxRuns \in Nat /\ MaxCrashes \in Nat

VARIABLES
  artifact,   \* the text of the file
  suffix,     \* of its path
  install,    \* the installed package, interpreter and external binary
  phase,      \* where each runner is in verify
  run,        \* the locals of its run
  index, present, whole, pc, base, draft, receipts, reader, calls, failures

nexusVars == <<artifact, suffix, install, phase, run>>

Verdicts == {"FORMALLY_VERIFIED", "CONDITIONAL", "REJECTED", "UNTRANSLATED",
             "CORRUPTED"}

(***************************************************************************)
(* What a manifest says.  "source" is the text behind source_hash;         *)
(* "checked" is the text the kernel read, which the manifest does not say. *)
(***************************************************************************)
Report == [status: Verdicts, source: Texts, checked: Texts, intact: BOOLEAN,
           green: BOOLEAN]

Ledger == INSTANCE ManifestLedger WITH
  Writers <- Runners, Readers <- {}, Bodies <- Report,
  MaxCalls <- MaxRuns, MaxFailures <- MaxCrashes

ledgerVars == <<index, present, whole, pc, base, draft, receipts, reader, calls,
                failures>>

-----------------------------------------------------------------------------
(* Pure parts of a run.                                                    *)

(* A known suffix decides; any other path is judged by its text.           *)
detect_language(text) ==
  IF suffix \in FormalBackends THEN suffix
  ELSE IF suffix = "prose" THEN "informal" ELSE text.reads_as

is_formal_source(ast) == detect_language(ast) \in FormalBackends

(* Dafny goes by the language, every other backend by the suffix; a path   *)
(* no backend knows goes to the generic one.                               *)
get_backend(ast) ==
  IF detect_language(ast) = "dafny" THEN "dafny"
  ELSE IF suffix \in FormalBackends \cup {"python"} THEN suffix ELSE "generic"

(* evaluate_source_policy: the zones are those of the first read, all else *)
(* is of the normalized syntax tree of the second.                         *)
evaluate_source_policy(ast, zones_ok) ==
  IF ~zones_ok \/ ~ast.clean THEN "REJECTED"
  ELSE IF ~is_formal_source(ast) THEN "UNTRANSLATED"
  ELSE IF ~ast.declares THEN "REJECTED"
  ELSE "CONDITIONAL"

(* Mutation: a completed native run decides before the policy does.        *)
native_verdict_first(r) ==
  IF r.voided THEN "CORRUPTED"
  ELSE IF r.native_completed THEN "FORMALLY_VERIFIED"
  ELSE IF r.policy \in {"REJECTED", "UNTRANSLATED"} THEN r.policy
  ELSE IF r.blocked \/ ~r.environment_ok THEN "REJECTED"
  ELSE "CONDITIONAL"

(* The integrity of the run comes first, then the source, then the tools.  *)
derive_native_verdict(r) ==
  IF r.voided THEN "CORRUPTED"
  ELSE IF r.policy \in {"REJECTED", "UNTRANSLATED"} THEN r.policy
  ELSE IF r.blocked \/ ~r.environment_ok THEN "REJECTED"
  ELSE IF r.native_completed THEN "FORMALLY_VERIFIED"
  ELSE "CONDITIONAL"

-----------------------------------------------------------------------------
AnyText == CHOOSE t \in Texts : TRUE
AnyInstall == CHOOSE i \in Installs : TRUE

NoRun == [zones_ok |-> TRUE, ast |-> AnyText, policy |-> "REJECTED",
          environment_ok |-> TRUE, pre |-> AnyInstall, mid |-> AnyInstall,
          post |-> AnyInstall, blocked |-> FALSE, native_completed |-> FALSE,
          checked |-> AnyText, voided |-> FALSE]

Step(p, from, to, r) ==
  /\ phase[p] = from
  /\ phase' = [phase EXCEPT ![p] = to]
  /\ run' = [run EXCEPT ![p] = r]
  /\ UNCHANGED <<artifact, suffix, install>>

ReadSource(p) ==
  /\ calls < MaxRuns
  /\ Step(p, "start", "read", [NoRun EXCEPT !.zones_ok = artifact.zones_ok])
  /\ UNCHANGED ledgerVars

(* normalize_file reads the file again; the policy is decided here.        *)
Normalize(p) ==
  /\ Step(p, "read", "normalized",
          [run[p] EXCEPT !.ast = artifact,
                         !.policy = evaluate_source_policy(artifact, run[p].zones_ok)])
  /\ UNCHANGED ledgerVars

(* validate_mvpc_bin and dependency_parity, then the first fingerprint.    *)
CheckEnvironment(p, ok) ==
  /\ Step(p, "normalized", "fingerprinted",
          [run[p] EXCEPT !.environment_ok = ok, !.pre = install])
  /\ UNCHANGED ledgerVars

(* The process dies, or something raises - dependency_parity does without  *)
(* a source checkout - before the ledger is reached: no manifest at all.   *)
Abandon(p) ==
  /\ phase[p] \notin {"start", "appending"}
  /\ Step(p, phase[p], "start", NoRun)
  /\ UNCHANGED ledgerVars

(* array.audit hands no informal source to a backend.                      *)
SkipBackend(p) ==
  /\ ~is_formal_source(run[p].ast)
  /\ Step(p, "fingerprinted", "audited", run[p])
  /\ UNCHANGED ledgerVars

(* The backend's static scan of the file.  Dafny has none.                 *)
StaticScan(p) ==
  /\ is_formal_source(run[p].ast)
  /\ Step(p, "fingerprinted", "scanned",
          [run[p] EXCEPT !.blocked = /\ get_backend(run[p].ast) # "dafny"
                                     /\ ~artifact.scan_ok])
  /\ UNCHANGED ledgerVars

(* The tool reads the file again; native_completed is decided here.        *)
RunKernel(p, answer) ==
  LET backend == get_backend(run[p].ast)
      blocked == run[p].blocked \/ NativeViolation(backend, answer)
  IN
  /\ backend # "generic"
  /\ answer \in AnswersTo(backend, artifact.kernel)
  /\ Step(p, "scanned", "audited",
          [run[p] EXCEPT !.checked = artifact,
                         !.blocked = blocked,
                         !.native_completed = NativeEvidence(backend, answer)
                                              /\ ~blocked])
  /\ UNCHANGED ledgerVars

(* The backend has no tool, it is missing, or the file can no longer be    *)
(* read: warnings only.                                                    *)
NoKernel(p) ==
  /\ Step(p, "scanned", "audited", run[p])
  /\ UNCHANGED ledgerVars

CaptureMid(p) ==
  /\ Step(p, "audited", "midway",
          [run[p] EXCEPT !.mid = install, !.voided = install # run[p].pre])
  /\ UNCHANGED ledgerVars

(* Mutation: the last sample is taken and compared with nothing.           *)
CapturePostUncompared(p) ==
  /\ Step(p, "midway", "decided", [run[p] EXCEPT !.post = install])
  /\ UNCHANGED ledgerVars

(* Mutation: the last sample alone decides.                                *)
CapturePostAlone(p) ==
  /\ Step(p, "midway", "decided",
          [run[p] EXCEPT !.post = install, !.voided = install # run[p].pre])
  /\ UNCHANGED ledgerVars

CapturePost(p) ==
  /\ Step(p, "midway", "decided",
          [run[p] EXCEPT !.post = install,
                         !.voided = \/ run[p].voided
                                    \/ install # run[p].pre
                                    \/ install # run[p].mid])
  /\ UNCHANGED ledgerVars

(* The manifest of a decided run: its verdict is its status, whatever it   *)
(* is, and its light is green for a completed native verification.         *)
ReportOf(r) ==
  LET final == derive_native_verdict(r) IN
  [status |-> final, source |-> r.ast, checked |-> r.checked, intact |-> ~r.voided,
   green |-> final = "FORMALLY_VERIFIED" /\ r.native_completed]

BeginAppend(p) ==
  /\ Ledger!ReadIndex(p, ReportOf(run[p]))
  /\ Step(p, "decided", "appending", NoRun)

AppendStep(p) ==
  /\ \/ Ledger!OpenJson(p) \/ Ledger!WriteJson(p)
     \/ Ledger!OpenMarkdown(p) \/ Ledger!WriteMarkdown(p)
     \/ Ledger!OpenIndex(p)
  /\ UNCHANGED nexusVars

(* The result is returned with its pair of files, or append raised.        *)
EndAppend(p) ==
  /\ Ledger!WriteIndex(p) \/ Ledger!RefuseOverwrite(p)
  /\ Step(p, "appending", "start", NoRun)

AppendRaises(p) ==
  /\ Ledger!ReadIndexRaises(p)
  /\ Step(p, "decided", "start", NoRun)

CrashInAppend(p) ==
  /\ Ledger!Fail(p)
  /\ Step(p, "appending", "start", NoRun)

-----------------------------------------------------------------------------
(* The environment: the file is saved, the installation is updated.        *)
EditArtifact ==
  /\ artifact' \in Texts \ {artifact}
  /\ UNCHANGED <<suffix, install, phase, run, ledgerVars>>

UpdateInstall ==
  /\ install' \in Installs \ {install}
  /\ UNCHANGED <<artifact, suffix, phase, run, ledgerVars>>

NexusInit ==
  /\ artifact \in Texts
  /\ suffix \in Suffixes
  /\ install \in Installs
  /\ phase = [p \in Runners |-> "start"]
  /\ run = [p \in Runners |-> NoRun]
  /\ Ledger!LedgerInit

RunStep(p) ==
  \/ ReadSource(p) \/ Normalize(p)
  \/ \E ok \in BOOLEAN : CheckEnvironment(p, ok)
  \/ SkipBackend(p) \/ StaticScan(p)
  \/ \E answer \in Answers : RunKernel(p, answer)
  \/ NoKernel(p)
  \/ CaptureMid(p) \/ CapturePost(p)
  \/ BeginAppend(p) \/ AppendStep(p) \/ EndAppend(p) \/ AppendRaises(p)

NexusNext ==
  \/ \E p \in Runners : RunStep(p) \/ Abandon(p) \/ CrashInAppend(p)
  \/ EditArtifact
  \/ UpdateInstall

NexusSpec == NexusInit /\ [][NexusNext]_<<nexusVars, ledgerVars>>

-----------------------------------------------------------------------------
Phases == {"start", "read", "normalized", "fingerprinted", "scanned", "audited",
           "midway", "decided", "appending"}

(* Every variable of the runtime, and of its ledger, keeps its shape.      *)
NexusTypeOK ==
  /\ artifact \in Texts
  /\ suffix \in Suffixes
  /\ install \in Installs
  /\ phase \in [Runners -> Phases]
  /\ run \in [Runners ->
       [zones_ok: BOOLEAN, ast: Texts, policy: Verdicts, environment_ok: BOOLEAN,
        pre: Installs, mid: Installs, post: Installs, blocked: BOOLEAN,
        native_completed: BOOLEAN, checked: Texts, voided: BOOLEAN]]
  /\ Ledger!LedgerTypeOK

(* What callers were given and what the index lists.                       *)
Recorded ==
  {m.body : m \in receipts} \cup {index.entries[i].body : i \in 1..Len(index.entries)}

(* Green is earned: a manifest says FORMALLY_VERIFIED only for a formal    *)
(* source that passed the policy, in a run whose installation was stable   *)
(* at its three samples and whose backend's tool accepted at least part of *)
(* what it read, however the file and the installation change meanwhile.   *)
(* Isabelle's tool is not given the file: what it built stands for nothing *)
(* about the text.                                                         *)
VerifiedIsEarned ==
  \A r \in Recorded : r.status = "FORMALLY_VERIFIED" =>
    /\ r.green /\ r.intact
    /\ is_formal_source(r.source) /\ r.source.clean /\ r.source.declares
    /\ suffix # "isabelle" => r.checked.kernel \in {"accepts", "accepts_some"}

(* Whichever two of the three samples differ, the manifest the run drafts  *)
(* is CORRUPTED: a divergence seen at the middle one is not forgotten when *)
(* the installation is put back before the last, and one that only the     *)
(* last shows still counts.                                                *)
Diverged(r) == r.pre # r.mid \/ r.mid # r.post

DivergenceIsRecorded ==
  [][\A p \in Runners :
       phase[p] = "decided" /\ phase'[p] = "appending" /\ Diverged(run[p])
         => draft'[p].body.status = "CORRUPTED"]_<<nexusVars, ledgerVars>>

(* The tool accepted the whole file: "A kernel must accept this file       *)
(* before the Nexus can report FORMALLY_VERIFIED".                         *)
VerifiedMeansAccepted ==
  \A r \in Recorded : r.status = "FORMALLY_VERIFIED" => r.checked.kernel = "accepts"
=============================================================================
