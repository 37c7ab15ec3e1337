# A verification development of MVPC-X

MVPC-X audits mathematical and software artifacts: it runs static scans and
installed proof tools over a file, decides a verdict under a policy, and records
the verdict in ledgers and witnesses that can be checked later. It is a Python
package (`src/src/mvpc`) without threads, servers or locks. Its concurrency is that
of the operating system: several `mvpc` processes share a ledger directory, and
the artifact, the installation and the external tools can change while a process
reads them one after the other. The modules here are about exactly that, and
about the decision logic that turns observations into verdicts.

## 1. The system

| Component | State it keeps | Operations | What makes it correct |
| --- | --- | --- | --- |
| Nexus manifest ledger (`nexus/manifest_ledger.py`) | a directory: `ledger-index.json` and a JSON/Markdown pair per manifest | `append`, `verify` | the chain is linear, nothing recorded is lost or overwritten, `verify` tells tampering from a write in progress |
| Nexus runtime (`nexus/runtime.py`, `policy.py`, `backend_array.py`, `core/fingerprint.py`) | locals of a run, then one manifest in the ledger | `inspect`, `verify` | a green verdict is earned by a native check under a stable installation; informal sources are never judged |
| Nexus intake, normalization, Glass Box | none | pure inspection of a file, an environment, a result | detection is deterministic; only a native receipt is green |
| Engine (`engine.py`, `security.py`, `policy.py`) | an `IntegritySession` of hashes, one claim | `verify_artifact` | all checks of an accepted claim saw one text and ran under one package; levels are ordered |
| Backends (`backends/*`) | none; external processes | scan, native check, `audit` | a missing, failing or silent tool never counts as a check |
| Fabric (`verification_fabric.py`, `backend_adapter.py`, `verification_plan.py`) | registered adapters, results of a plan | `register`, `verify` | a result says what its tool said, of the file it names |
| Records and assurance (`proof_record.py`, `assurance.py`) | a claim's results and attached evidence | `validation_errors`, `derive_assurance` | a level is of one claim and artifact, refusals are final, support is monotonic |
| Hardened pipeline (`hardened_pipeline.py`, `hardening/*`) | locals of a run, a signed manifest returned to the caller | `run`, `RepairLoop.run`, `multi_engine_vote` | a formal verdict has a kernel behind it; what passes got past every gate, on one text; repair stays in its zones |
| Base pipeline and kernel adapters (`nexus_pipeline.py`, `kernel_backends.py`, `core/safe_verify.py`) | an in-memory chain nobody reads back | `run_pipeline`, `run_kernel` | heuristics never make a verdict formal |
| Transitive scan (`hardening/transitive_scan.py`) | a queue and the files seen | `transitive_axiom_scan` | nothing imported is left out; it ends; it fails closed |
| Witnesses and review (`witness.py`, `mvpc attest`) | a witness file | generate, attest, verify | a review that was required was made |
| Witness bundles, traceability (`witness_bundle.py`, `traceability.py`, `tcb.py`, `policy_manifest.py`, `failure_record.py`) | objects of a caller | add and approve links, issue a witness, validate | a bundle that implies truth was approved before it was sealed |
| Evidence ledger (`ledger.py`) | a list of entries, a file | append, save, load, `verify_chain` | a chain that verifies holds what was appended |
| Signed manifests, Merkle trees (`hardening/crypto_integrity.py`) | none | sign, verify, prove | a seal names what it was put on; a root names its leaves |
| Claim consumer (`claim_consumer.py`) | none | `judge_bundle` | what a claim says of itself never earns more than D2 |
| Preflight (`preflight.py`) | none | `run_preflight` | putting one thing right never makes a file less ready |
| Sovereign engine (`sovereign_engine.py`, `phys/*`) | an in-memory chain nobody reads back | `process_and_verify` | it passes what the base pipeline passes |
| External artifacts (`external_artifacts/*`) | a witness bundle per artifact, in files | `verify artifact` | only admissible artifacts pass; a bundle is about the artifact it is named after; nothing is replaced unasked |
| Command line, reports, CAS certificates, search of the `brain` package | none or caches | see `PROJECT.json` | section 7 |

The engine and the Nexus are alternative entry points over the same backends; the
fabric is a third, driven by a plan; the hardened pipeline is a fourth, with kernel
adapters of its own, and the sovereign engine a copy of its base pipeline. `verify artifact` runs no tool: it reads records other repositories
publish. The Nexus writes to its ledger and `verify artifact` its bundle; the others
return their result to a caller who stores it, in a witness that people then sign with
`mvpc attest`, alone or in a bundle. The evidence ledger, traceability chains, bundles and
Merkle trees are a library: in the repository only tests call them, so what their callers
do is modelled as any order of legal calls.

What is hard to test in this code: two processes in `append`; a process that dies
between two file operations; an editor or an installer that changes what a run
reads, between any two of its reads; a tool that answers nothing; and verdicts
decided by a cascade of conditions over inputs that come from different moments.
The list, line by line, is `hazards` in `PROJECT.json`.

## 2. Modules

| Module | Models | Extends or instantiates |
| --- | --- | --- |
| `AppendOnlyLog` | what a ledger promises its one writer (abstract) | - |
| `ManifestLedger` | `nexus/manifest_ledger.py` | instance `Log` of `AppendOnlyLog` |
| `ManifestLedgerProofs` | proofs about it | `ManifestLedger`, `TLAPS` |
| `NativeBackends` | what the backends make of a tool's answer | - |
| `NexusRuntime` | `mvpc nexus verify` | `NativeBackends`; instance `Ledger` of `ManifestLedger` |
| `EngineAudit` | `mvpc verify` | `NativeBackends` |
| `ProofFabric` | plans, records, Diamond levels | `NativeBackends` |
| `RepairLoop` | `hardening/repair_loop.py` in the zones of `core/lexical_zones.py` | - |
| `HardenedPipeline` | `hardened_pipeline.py` over base pipeline, kernels and consensus | `RepairLoop` |
| `HardenedPipelineProofs` | proofs about the repair, the pipeline and its copy | `SovereignEngine`, `TLAPS` |
| `NexusRuntimeProofs` | proofs about it | `NexusRuntime`, `TLAPS`; instance `Proved` of `ManifestLedgerProofs` |
| `EngineAuditProofs` | proofs about it and about preflight | `MCEngineAudit`, which has both, `TLAPS` |
| `ProofFabricProofs` | proofs about the fabric and the judge | `ClaimConsumer`, `TLAPS` |
| `Preflight` | `mvpc preflight` | - |
| `ClaimConsumer` | `claim_consumer.py`, which judges by the fabric's rule | `ProofFabric` |
| `SovereignEngine` | `sovereign_engine.py` and the physics checks, against the base pipeline | `HardenedPipeline` |
| `TransitiveScan`, `TransitiveScanProofs` | `hardening/transitive_scan.py`; proofs about it | - |
| `HumanReview` | `witness.py`, `mvpc attest` | - |
| `WitnessBundle` | `witness_bundle.py` and what bundles are made of | - |
| `EvidenceLedger` | `ledger.py` | - |
| `SignedManifests` | `hardening/crypto_integrity.py` | - |
| `EvidenceRecordsProofs` | proofs about reviews, ledgers, bundles, seals and trees | `HumanReview`, `EvidenceLedger`, `WitnessBundle`, `SignedManifests`, `TLAPS` |
| `ArtifactGates` | the gates of both adapters and their verdict | - |
| `ExternalArtifacts` | `mvpc verify artifact` | `ArtifactGates` |
| `ExternalArtifactsProofs` | proofs about both | `ExternalArtifacts`, `TLAPS` |
| `MC*` | instances for TLC | the module of that name |

### ManifestLedger

One action per file operation of `append`: `ReadIndex` (with the record that is
computed from it), `RefuseOverwrite`, `OpenJson`/`WriteJson`,
`OpenMarkdown`/`WriteMarkdown`, `OpenIndex`/`WriteIndex`; `Fail` is a process that dies
or a write that raises at any of them. `Path.write_text` truncates on opening and
writes afterwards, hence two steps. An index is its entries and the size of its
text: a text written over a longer one keeps the longer one's tail and does not
parse, which is `Readable`. `verify` reads the index once (`BeginVerify`) and then the
files of one entry at a time (`VerifyEntry`). A digest is the path of manifests it
stands for: SHA-256 is assumed free of collisions. `by` in a manifest stands for
what tells two processes' manifests apart (microsecond times in the record and in
its fingerprints); one process may well hash equal bodies twice. `Log` is the abstract log
of a ledger with one writer: the index, or what the writer read of it while it holds the
index open, or lost.

### NexusRuntime

One runner is one process in `SovereignNexusRuntime.verify`. The file is read four
times: `ReadSource` (zones), `Normalize` (syntax tree, hence `source_hash` and the
policy's verdict), `StaticScan` and `RunKernel`. The installation is sampled in
`CheckEnvironment`, `CaptureMid` and `CapturePost`. The run ends in the actions of
`ManifestLedger`, through the instance `Ledger`. `EditArtifact` and `UpdateInstall` may
happen between any two steps. A text is the record of what the gates tell apart in
it. The suffix of the path and the text decide the language, the suffix the
backend (`detect_language`, `get_backend`), as in the code. The file is never deleted:
that raises before the ledger is reached, which is `Abandon`. What a tool says of a text is an
attribute of the text, but for Isabelle: its backend builds the sessions of a `ROOT` it finds
in the directories above, which need not contain the file, so `AnswersTo` of `NativeBackends`
allows any answer. The three models of the backends share this.

### EngineAudit

`verify_artifact` in program order, one action per read of the file or hash of the
package. `file.there` is FALSE while the file is deleted; reads of a missing file take
the branch of the backend at hand (`LeanReadError`, `HashRaises`). `ScanNewton` looks at the statement
a level asks for as well as at the file. The variables `read`
and `ran_under` of a run are history: what the checks saw, which the code does not
record. The environment makes up to `MaxEdits` changes of the file and `MaxUpdates` of
the package during a run. The two system calls of `isfile` and `hash_file` on one path
are one step, so a deletion between them, which raises, is not distinguished from
one before.

### ProofFabric

`SkipTarget`, `ScanTarget`, `HashTarget`, `RunTarget`, `ScanOnly` and `AdapterRaises` are one
target of the loop in `VerificationFabric.verify` through `registry_adapter`; `Attach` is
a caller that adds supplemental evidence to the finished record. `bindings_valid` and
`derive_assurance` are the operators of `proof_record.py` and `assurance.py`.

`ClaimConsumer` is `judge_bundle` of `claim_consumer.py`: claims of another repository are
turned into evidence (`build_evidence`) by what they say of themselves, and each gets a
level from the same `derive_assurance`. `JudgeRaises` is evidence that cannot be
constructed, which ends the loop for the whole bundle; `LevelRaises` a level that cannot
be derived, which is D0.

### Preflight

`run_preflight` keeps no state. A text is the set of features the rules of its backend
look for; `readiness` is the decision as the code takes it, with every score, clamp, cap
and threshold. `MCEngineAudit` extends it: preflight is what is run before an audit.

### RepairLoop and HardenedPipeline

`RepairLoop` is one run of the loop: `NextAttempt` ends every attempt that did not end
the loop, `RejectEdit`, `RefuseRewrite` and `AcceptEdit` are the three things that can
become of a proposal. The patcher is a parameter of the code and may propose any text.
The pipeline gives it the default one, which only adds lines in a block, but its `repair`
is a public attribute, so the pipeline too is modelled with any patcher: what is
checked for any holds for the default.

`HardenedPipeline` is `run`: `StartRun`, `Repair` (the steps of `RepairLoop`), `EndRepair`,
`RunBase`, `RunKernel`, one `Vote` per engine of the panel, `Decide`. Every call of a kernel
looks for the binary anew, so `UpdateKernels` changes what is installed between any two of
them. A kernel exits with status 0 or another one, times out or cannot be started
(`Exits`); a temporary file that cannot be written raises to the caller in
`KernelRaises` and becomes a failed vote in `VoteRaises`. `accepted` is history: which
kernel accepted which text. Left out, because they do not reach the result: signing, the
polynomial double-check, and the base pipeline's certificates of polynomials and units.
The transitive scan is of the one text, since the pipeline names no directories for it.
A claim without `formal_code` has `Empty` there, and may have a text under `header_code`,
which only the base pipeline reads: `GatesJudgeOneText` says exactly when the two judge
different texts.

`SovereignEngine` has what the two copies of the heuristic pipeline certify of one claim
with its polynomials and physics: `process_and_verify` of the engine with its drivers and
registries, `overall_status` of `run_pipeline` with the bridge of `cps_realization.py`.

### TransitiveScan

One action per turn of the two loops of `transitive_axiom_scan`: `SkipSeen`, `ScanFile` or
`Finish` of the queue; `MissImport`, `KnownImport` or `FindImport` of the imports of the
file under scan, then `ReadImport`, `ReadFails` or `ReadRaises`, because a file is looked up
first and read afterwards, and `EditDisk` may come in between. A path holds a text, or
nothing, or what cannot be opened or decoded. A name of dots only (`from . import x`) has no
name to give a suffix to, and the scan raises (`ResolveRaises`). `judged` is history.
`MCHardening` runs it and the pipeline: a behaviour is a scan, or a run of the pipeline after
the scan of a source that imports nothing, as the pipeline makes one.

### HumanReview, WitnessBundle, EvidenceLedger, SignedManifests

`HumanReview` is `mvpc attest`, run by several people on witness files: `ReadWitness`,
`OpenOutput` (the attestation is added to what was read, and the file emptied),
`WriteWitness`, `Interrupt`, and `EditWitness` by hand. `generate_witness` makes the witness
a behaviour starts with; `issued`, `genuine` and `made` are history.

`WitnessBundle`: links are added to a traceability chain and approved, a witness is made
that names chain, policy and computing base by hash, and parts are exchanged, in any
order. `is_valid` is that `validation_errors` is empty.

`EvidenceLedger`: `append`, `save` and `load` of the ledger with its fork detection, while a
caller changes a payload it handed over (`MutatePayload`), an entry (`RewriteEntry`: a payload
with its hash, the kind or the time) or the list (`RemoveEntries`, anywhere in it), and
somebody edits or cuts the file (`EditSaved`). The hash of an entry is the sequence of kinds,
times and payloads it is made of, those before it included. `appended` is history: everything
that was ever appended to what the ledger was loaded from, and nothing takes from it.
`verify_chain` knows neither how many entries there should be nor compares `entry_hash` with
its entry, so `ChainIsRight` says what its answer is worth: unless a change went through
the file (`laundered`), and with entries that do have their own hashes (`Sealed`, which
`verify_chain` does not ask), the list is all that was appended, or
something was taken off its end, and then the ledger in memory still knows a child of the tip,
or of an entry before a branch (`LossShows`). `AlterationIsDetected`, without these
exceptions, is violated.

`SignedManifests`: `Sign`, `Keep` a copy, and `Touch` by a holder who changes what a manifest
says, moves seals between its versions or drops parts of one, or puts on it an HMAC made with a
key everybody has; and `root`, `proof` and `verify_proof` of a tree, layer by layer. A
signature is what it is over, the key it was made with - of a pair, the private or the public
one - and its algorithm, with or without PyNaCl. As in the code the manifest names the
algorithm, and an HMAC is checked with whichever key the verifier passes. So
`SealNamesWhatItSays` is about a verifier with the private key, or one with the public key
where the manifest is verified as Ed25519, and `SignedBareVerifies` is exact: a manifest as
somebody signed it verifies if and only if it carried no seal before. That a public key
vouches for its owner wherever it is passed is not so (section 5), and not claimed.

The four share no state with each other or with `ExternalArtifacts`, and no code calls one
from another, so `MCEvidenceRecords` has all five in one run in which a behaviour takes one
of them.

### ArtifactGates and ExternalArtifacts

`ArtifactGates` has one operator per gate of the Leibniz and Res-Nova adapters, over
claims that keep what the gates compare; `StatusGate` is the form that seven of them
share. `ExternalArtifacts` is `run_verify_artifact` in any number of processes: `Begin`,
`RefuseArtifact` or `LoadRaises` or `Verify` (read, gates, bundle), `RefuseOutput` or
`AcceptOutput` (does the file exist?), `OpenBundle` (truncates it), `WriteBundle`; `Die` is a
process that stops at any of them, `EditArtifact` a change of the artifact in between. A
derived name holds the artifact for its hash. `Admissible` states what the
documentation asks of an artifact, claim by claim and without gates. Left out: values
of a type the schema forbids, on which some gates raise.

## 3. Runs

| Run | Instance | Shows |
| --- | --- | --- |
| `ledger_concurrent` | 2 writers, 1 reader, 2 bodies, 4 calls, 2 failures (551,115 states) | safety of the chain, of stored pairs and of `verify` under any interleaving and crash |
| `ledger_single_writer` | 1 writer, 5 calls, 2 failures (13,949 states) | refinement of `AppendOnlyLog`; receipts stay indexed; an emptied index is rewritten (liveness) |
| `nexus_verify` | 1 runner, 3 texts, 4 suffixes, 2 installations, 2 runs, 1 crash (2,127,408 states) | what manifests claim was earned; a divergence between any two of the three samples is recorded |
| `engine_audit` | 4 texts, 3 backends, 3 levels, 2 packages, 2 edits, 2 updates (7,512,072 states) | one change during a run is caught; no false alarms; levels are ordered; preflight is monotone |
| `proof_fabric` | 2 files, 4 texts, 5 plans, 5 supplements, 1 edit, 2 attachments; bundles of 2 claims (1,577,886 states) | levels are earned, of one artifact, final on refusal, monotonic; foreign claims stay below D3 |
| `hardening` | the pipeline: 12 texts, 5 sets of kernels, 3 panels, 5 backends, 2 attempts, 1 update; the scan: 4 files with 8 contents, 4 names, a limit of 4 files, 1 edit (1,929,286 states) | formal verdicts and votes have kernels; what passes got past every gate, on one text where `formal_code` has one; repair stays in its zones; both copies of the pipeline agree; no import is left out; a clean report of an unchanged disk is of clean files only; every turn of the scan counts, and it ends (liveness) |
| `evidence_records` | 2 files and reviewers, 2 attestations; bundles of 2 links; ledgers of 3 appends and loads, changed twice; manifests signed 3 times and touched twice; trees of 5 leaves; `verify artifact` by 2 processes, of 10 artifacts with 3 requests, 1 edit, 1 death (2,753,175 states up to symmetry) | no record vouches for what was not reviewed, approved, appended or signed, within what its own check looks at; exit 0 is for admissible artifacts; no claim hides; names tell what bundles are about; unfinished files keep their names |
| `ledger_two_writers`, `nexus_partial`, `engine_unchecked` | the smallest instance each | disagreements of code and documentation, section 5 |
| `hardened_unclean`, `evidence_altered` | those of the passing runs | two more: properties that those of the passing runs stop short of |

Type invariants were checked first and are not run again: section 4 proves them.

Why the bounds are enough. Two writers show every overlap of two calls; four calls
let each overlap start from an index both of them wrote, and a third entry is what
tells a link to the first entry from one to the last. Two failures cover a crash
during recovery from another. In the Nexus a second run meets the ledger the first
one left; the texts differ in one gate each, so a verdict that mixes two of them shows.
In the engine, one edit is what the property is about and two are there because two
are where the seal gives way (a file put back), which must not be claimed. In the
fabric a plan of six targets reaches level D5, and a human attestation D6. In the
hardened pipeline two attempts are `max_repair` of the code and let an edit be compared
with an edit; one update separates the claim's kernel from the votes, and a panel of two
from one of three what a majority is; the texts differ in one gate each. The scan's limit
equals the number of its files, so with the source itself both an end at the limit and one below it happen; its texts branch, meet again, import each other
and themselves, and one name has two candidates. In `evidence_records` two reviewers show
every overlap on one file and across two; two links of one or two names show what
`approve` picks; three appends or loads let a chain be saved, loaded and continued, with two
changes that can cover for each other (an entry taken off the end, and the mark of the branch
that came in its place); two of `MaxTouches` let a holder change a manifest and its seal;
five leaves give two odd layers. Of external artifacts the proofs below cover all, so ten suffice: of each schema, ways to pass, and to
fail by the second claim only or by what two claims make together. One death leaves a
file behind, two processes overlap in every way, and each ended one starts again, without
a bound. Symmetry (processes, reviewers and artifacts of `evidence_records`, writers) is used by runs that check no liveness. The bounds are
`MaxCalls`, `MaxFailures`, `MaxRuns`, `MaxCrashes`, `MaxEdits`, `MaxUpdates`,
`MaxSupplements`, `MaxClaims`, `MaxAttests`, `MaxLinks`, `MaxSwaps`, `MaxClock`,
`MaxChanges`, `MaxLeaves`, `MaxSigns`, `MaxTouches`, `MaxRewrites` and `MaxFindings`, each in
the guard of the action or the initial state or the inputs it limits (`MaxDepth` and `max_files` are parameters of the code). All
systems may stop when their callers do, so deadlock is not checked.

Fairness. `FairLedgerSpec`: a call of `append` that has begun takes its next step, unless it
fails. `FairScanSpec`: a scan takes its next step. In both the code runs straight through
with no wait, so this is the operating system scheduling a process. Nothing obliges a
caller to begin a call, nor anybody to edit a file.

## 4. Proofs

`ManifestLedgerProofs` proves, for any sets of writers, readers and bodies and any
bounds (`LedgerAssumption`):

* `LedgerTypeCorrect`, `ChainAlwaysVerifies`, `VerifyNeverFalselyAlarms`, `ReceiptsAreKept`:
  the invariants of run `ledger_concurrent`;
* `CompleteFilesStay`, `WreckIsPermanent`: its action properties.

None of these invariants is inductive by itself. `LedgerInv` adds what each writer knows
at each step about its own pair (`PairInv`) and about the entries it read (`DraftInv`),
and what a `verify` in progress holds (`ReaderInv`). The argument: a file name belongs to
the one writer that drafted it, and a writer opens a name only when it is free, so no
complete file is ever lost (`WholeGrows`). A list of entries that verifies then verifies
for good, whoever holds a copy, and `append` extends such a copy by a stored manifest
linked to its end (`VerifiesAppend`). So whatever gets into the index verifies - also
after a lost update, which removes entries from the chain but leaves a chain.

For a ledger with one writer (`OneWriter`), which is what `ledger_two_writers` shows to be
needed, `ReceiptsAreIndexed`, `OnlyFailuresEverWreck` and `OneWriterKeepsALog` prove the
other safety properties of `ledger_single_writer`, the refinement of `AppendOnlyLog`
included. `SoleInv` says that what the writer read is what the index is until it empties
it itself, and that receipts are in the index or in the hands of that writer; `LogStep`
maps the write of the index to `AppendRecord`, a failure before it to `Lose`, and every
other step to none.

`NexusRuntimeProofs` composes: `RuntimeDrivesTheLedger` shows that every behaviour of the
runtime is one of its ledger, so `NexusChainVerifies` is the ledger's theorem and
`NexusTypeCorrect` half of it. For `VerifiedAlwaysEarned` a run carries the reasons of its
verdict until it drafts it (`RunInv`: the policy's verdict is that of the text it names, a
completed check is of a text the tool accepted), a draft is made by a decided run
(`ReportIsEarned`), and the ledger only hands bodies on, from draft to index and receipts
and from index to the copies of later runs (`BodiesInv`). `DivergenceAlwaysRecorded` follows
from the third part of `RunInv`.

`EngineAuditProofs` proves the type invariant and all of run `engine_audit`.
`ArtifactInv` and `PackageInv` say what at most one change leaves: either everything read
is what was sealed, or the file now differs from its seal and stays so until `finalize`
looks. A file that was deleted before the session looked for one to watch is the case that
needs a clause of its own. `ReadinessEarned` is about data alone, for every backend and any
number of findings: each improvement leaves the score where it was or raises it
(`LeanScores`, `OtherScores`, through sums, clamps and the cap of Newton findings), and
readiness grows with the score, the tool and admission (`ReadyNoLess`).

`ProofFabricProofs` proves the type invariant and the four properties of records, by
`ScanInv` (what an audit remembers of its target is what the file holds, while nothing is
saved) and lemmas on `one_scope`, `refused` and the monotonicity of `derive_assurance`.
The same lemmas give `JudgeAlwaysSober`: what a claim says of itself is never all four
controls (`EvidenceOfClaim`), so its level is that of its one primary evidence.

`TransitiveScanProofs` proves the type invariant, `NothingIsLeftOut` and `ScanFailsClosed`.
`ImportsInv`: every import of a text that was scanned is still to come, or missing, or its
file is seen or queued. When the queue is empty, what was scanned is closed under imports,
and `Reachable` is in every closed set, so no induction over paths is needed.
`EveryTurnAlwaysCounts`: the scan stays within its limit and within the imports of the file
it is at (`BoundsInv`), so what it has left is counted in natural numbers, and every turn
lowers the count of files to go, or leaves it and lowers that of turns of the inner loop, or
leaves both and shortens the queue. That order is well-founded (`NoScanGoesOnForEver`); what
TLC adds in `ScanEnds` is that a scan that has not ended has a turn to take, and takes it.

`EvidenceRecordsProofs` proves `ReviewAlwaysEarned` - every copy of a witness, in a file or
in the memory of a command, is earned by attestations that only grow in number - and
`TruthAlwaysApproved`: an approval names a call that saw its link and no link of that name
before it (`ApprovedRight`), and the witness fixes both. `SealsAlwaysRight`: whichever
manifest a seal was moved to, some signing made it of what it is over, or it was made with a
public key (`SealsMade`), and what a signing made carries one seal that says how it was made
(`OneSeal`), which is what decides whether it verifies. `ReviewTypeCorrect` comes from the invariant of reviews as well.

`ChainAlwaysRight` follows from `ChainInv`. The map of successors is a tree in which a child's
hash is one mark longer than its parent's (`Tree`). The list holds edges of that tree, in the
order they were made, and of several below one parent only marked ones (`OfTree`), whatever is
changed in its entries or taken out of it: changes do not touch the hashes, and removals leave
a part of a list. Either all of the tree is on the list, and its hashes then name what was
appended (`Whole`), or an edge is `Gone`. If one is gone from a list whose links and hashes are
right, take the one nearest to the root: its parent is on the list, or is the root, so it is a
second child there or a child of the tip, and the loss shows (`LossIsSeen`). While nobody
changed anything the list is whole (`Untouched`), and a hash occurs once in it, so no parent
is the tip and the next `append` is not refused.

`RootAlwaysNamesLeaves` and `ProofsAreOfLeaves` are about trees over any list. A layer, an
index and a hash on a path are recursive functions of a number, and the induction theorems of
the library take an operator, which the provers cannot instantiate. `SetInduction` is
the same principle about sets of numbers, from the fact that `<` is well-founded on them;
with it `LayersDefined`, `IndicesDefined` and `ClimbDefined` unfold those functions, and
every further induction names its set. Then: a node names its children, so two trees with
one root agree, layer by layer, on what the shorter one has and repeat it beyond
(`PadsToTheLeaves`), and lists of one root have one height (`NoHigher`, `OneRoot`). The proof of
a position climbs through the nodes above it (`ProofClimbs`), two climbs of one length that
end in one node began with one leaf (`ClimbsMeet`), and a climb of another length
ends in a leaf's hash where the root has a node's, or the other way round.

`HardenedPipelineProofs` proves every invariant of the pipeline in run `hardening` and the type
invariant (`HardenedTypeCorrect`), for any texts, patchers, claims, panels, installations and bounds
(`HardenedAssumption`). `HardenedInv` carries what each gate found about the text that the
later ones judge: `RepairInv` and `CodeInv` (where `code` came from), `BaseInv`, and
`VoteInv`, by which each formal ballot has a kernel in `accepted`. Two facts do the work.
`FormalAnswer`: whichever kernels are installed when it is called, `run_kernel` answers
formally only together with an exit with status 0 on that text. `MajorityIsReal`: a
quorum of more than half is never empty, so a formal vote has a formal ballot; a vote
that fails is never formal (`FormalVoteAgrees`), which takes the least failed ballot.
`DecisionStays` keeps the decision from changing when kernels are updated afterwards.
`EnginesAlwaysAgree` is about data alone: both copies stop a text for the same reasons
(`TextsAgree`), and their audits of physics differ as the property says.

`ExternalArtifactsProofs` proves every property of external artifacts in run `evidence_records`, for any
artifacts, requests, processes and bounds (`ExternalAssumption`). `GatesAreExact` is about
data alone: the gates pass exactly what is admissible. It rests on one lemma per gate,
saying what the gate fails for, and on `VerdictOfGates`: once no gate is `unavailable`, and
none ever is, an artifact passes if one gate passed and none failed, and the gate of the
array's shape is always there to have passed. `ClaimsAreJudgedAlone` follows by applying
it to the artifact and to each claim by itself. `ExternalIInv` carries it to processes: a
result is of a text with an adapter (`Judgements`), a process past the gates has one
(`HasResult`), and its code is of that result's verdict (`CodeIsOfVerdict`).

Only model-checked: the two liveness properties, `ScanEnds` and `TruncationIsTransient`,
because fairness is out of the prover's reach. Every invariant and action property of
a passing run is a theorem.
Assumed throughout: SHA-256 does not collide, a file operation is atomic at the
grain described above, and the texts' attributes stand for what scans and tools find.

## 5. Where code and documents disagree

With a run each:

1. Two overlapping `append` calls: the later index write drops the earlier manifest
   (`ledger_two_writers`).
2. A Lean file is `FORMALLY_VERIFIED` when the kernel accepted any one of its
   declarations (`nexus_partial`).
3. Under STRICT a claim is `VERIFIED` although its native check was skipped or timed out
   (`engine_unchecked`).
4. `FORMALLY_CHECKED` is said to need a clean SafeVerify (`kernel_backends.py:5`,
   `hardened_pipeline.py:134`); Isabelle's adapter does not ask for one (`hardened_unclean`).
5. `docs/THREAT_MODEL.md:27` counts on linked hashes for the alteration of a ledger.
   `verify_chain` accepts one whose end was cut off, and one with a kind, a time, or a payload
   together with its hash changed (`evidence_altered`).

Seen while modelling, in the models as the code has it, without a run of its own:

* Isabelle. A theory is `FORMALLY_VERIFIED` by the build of sessions that need not contain it
  (`backends/isabelle.py:110`), which is why `VerifiedIsEarned` asks nothing of its tool.
* Signed manifests. One says itself how it is verified (`crypto_integrity.py:76`), and an HMAC is
  checked with whichever key is passed (93); a manifest that names HMAC may therefore verify
  under a public key without its owner having signed it, where `docs/THREAT_MODEL.md:26` names
  Ed25519. One that is signed again does not verify. Lists of different lengths may share a
  Merkle root, by the padding of odd layers.
* Claims without `formal_code`. The hardened pipeline ignores `header_code`
  (`hardened_pipeline.py:37`), which the base pipeline and the claim adapter take for the text
  (`nexus_pipeline.py:105`, `core/claim_adapter.py:64`): a kernel judges an empty file, and the
  claim may come out `FORMALLY_CHECKED`.
* Nexus. A `.py` file with a `def` in it is taken for Lean (`ast_normalizer.py:123`), byte-compiled
  (`backend_array.py:133`) and `FORMALLY_VERIFIED`. A formal source that the policy rejected is
  still given to the external tool (`runtime.py:111` says it is not; its verdict stays
  `REJECTED`).
* Hardened pipeline. A claim that its own kernel rejected keeps the heuristics'
  `EVIDENCE_SUPPORTED` and passes (`hardened_pipeline.py:85`; `trust_verdicts.py:65` says
  "explicitly rejected" of `REJECTED`).
  The repair loop accepts edits of a source that has EVOLVE-VALUE zones only, without
  comparing anything (`repair_loop.py:74`).
* Sovereign engine. It and the base pipeline give different verdicts to the same objection;
  its registry lacks the symbols x, t, I, T, E and P; the bridge audits motion, against a
  fixed energy limit, even of claims that ask for no bounds.
* Engine. `AI_PROVENANCE_MISSING` and `HUMAN_ATTESTATION_MISSING` are added after the witness
  was generated (`engine.py:232`) and do not reach it.
* Records. Level D3 asks for the presence of four controls, whatever their verdict, and not
  for a formal check (`docs/DIAMOND_ASSURANCE_PROFILE.md:41`). `judge_bundle` constructs
  evidence outside of its `try`, so one bad claim costs the bundle all levels.
* Witnesses. `mvpc attest` seals a witness anew without looking at the seal it had; a
  sign-off that rejects clears the obligation to have one in `generate_witness`. A bundle
  whose chain was dropped is valid although its witness names a chain; the policy's minimum
  verdict and allowed backends are not enforced by it.
* Evidence ledger. `load` appends every entry anew, so what was edited in the file is sealed
  again (`docs/THREAT_MODEL.md:27`); fork detection never fires through `append` alone.
* Transitive scan. An import of dots only (`from . import x`) raises out of it
  (`transitive_scan.py:40`). One that stops at `max_files` stays clean with files unread, and
  missing imports do not make a report unclean.
* Preflight. A file with `sorry` or `Admitted` may still be ready for a deep audit.
* External artifacts. Two overlapping runs both find the name of the bundle free, and the
  later one replaces the other's without `--overwrite` (`docs/EXTERNAL_ARTIFACTS.md:154`). The
  gates of the Res-Nova adapter pass over entries of `claims` that are no objects, which
  `Admissible` therefore allows; and an atlas without provenance of its own takes its
  repository from its claims, so there a claim without one passes in the company of others
  only, which is why `NoClaimHides` is about artifacts that name theirs. An artifact that is
  not UTF-8 raises out of the command, whose exit status 1 then looks like a failed verdict.

Hazards the properties reach only in part, each with a note in `hazards`: between looking at
the names of a manifest's pair and opening them no other writer comes in, because names carry
the time of a call and are taken to differ between writers (`manifest_ledger.py:136`). A
manifest of the Nexus, or a result of the fabric, may hash one text while its tool read
another: the code does not notice, and the properties ask of each text only its own part
(`runtime.py:101`, `backend_adapter.py:35`). A Lean file deleted before the engine looks for
one to watch leaves nothing read, of which `OneEditIsCaught` holds as it stands
(`engine.py:102`). Of two overlapping runs of `verify artifact` the properties say that a
bundle is about what its name says, and not that the first one stays (`cli_support.py:98`).

## 6. Plan

What the plan of the first modules listed is done, but for the goal cache: nothing but tests calls
it. Left, in this order:

1. Liveness of the whole of `append` and `verify` in the presence of failures, if the code
   gets a lock or an atomic replace of the index; then the two-writer refinement as well.
2. The path and permission rules of intake, if they ever depend on more than one file.

## 7. Not modelled

Regular expressions and parsers of the scans (attributes of a text instead), canonical
JSON encoding, Markdown layout, explanations and reports, command-line parsing, the
arithmetic of the physics checks on floating-point numbers and of Elo scores, polynomial
identities decided by SymPy (CAS certificates), and the file-permission rules of the
intakes: none of them keeps state or orders anything, and what they decide is an outcome
in the models. The search of the `brain` package - PUCB, planner, goal cache - reaches no
verdict: the sovereign engine creates the cache and never uses it, and the solver that
would is called by tests only. `witness_seal.py` seals bytes and keeps nothing. The
external tools are represented by the answers the code distinguishes. `PROJECT.json` gives
the reason for each component.
