--------------------------- MODULE TransitiveScan ---------------------------
(***************************************************************************)
(* transitive_axiom_scan of hardening/transitive_scan.py: a source and the *)
(* files it imports, directly or not, are scanned for unsound markers, in  *)
(* the order of a queue and up to a number of files.  A file is looked up  *)
(* by the candidates its import stands for, read when it is queued and     *)
(* scanned when it is taken from the queue; files are saved, removed and   *)
(* locked meanwhile.  The label of a file is its path.                     *)
(***************************************************************************)
EXTENDS Integers, Sequences, FiniteSets

CONSTANTS
  Files,        \* paths that names stand for
  Entry,        \* the label of the source itself, "<entry>"
  Names,        \* what import statements name
  DotsOnly,     \* those made of dots, as in "from . import x"
  Candidates,   \* for a name, its paths in the order they are tried
  Contents,     \* what a path may hold
  max_files,    \* the limit of the scan
  MaxEdits      \* bound: changes of files while they are scanned

(* A path holds no file, one that cannot be opened, one that is no UTF-8,  *)
(* or a text: whether its scan is clean, and its imports.                  *)
Content == [status: {"absent", "locked", "garbled", "text"},
            clean: BOOLEAN, imports: Seq(Names)]

ASSUME ScanAssumption ==
  /\ Entry \notin Files
  /\ DotsOnly \subseteq Names
  /\ Candidates \in [Names -> Seq(Files)]
  /\ Contents \subseteq Content
  /\ max_files \in Nat /\ MaxEdits \in Nat

VARIABLES
  disk,      \* what every path holds
  entry,     \* the source given to the scan
  phase,     \* where the scan is
  queue,     \* labels with the texts that were read for them
  member,    \* the member under scan
  position,  \* the position in its imports
  found,     \* the file an import was resolved to
  seen,      \* labels scanned; report.files_scanned lists them, each once
  report,    \* clean and missing_imports
  judged,    \* history: the texts scanned, with their labels
  edits

scanVars == <<disk, entry, phase, queue, member, position, found, seen, report, judged, edits>>

-----------------------------------------------------------------------------
(* Mutation: only the first candidate of a name is looked at.              *)
resolve_first_candidate(name) ==
  LET c == Candidates[name] IN
  {c[i] : i \in {j \in 1..Len(c) : j = 1 /\ disk[c[j]].status # "absent"}}

(* _resolve_import: the first candidate that is a file, as a set.          *)
_resolve_import(name) ==
  LET c == Candidates[name]
      files == {i \in 1..Len(c) : disk[c[i]].status # "absent"}
  IN {c[i] : i \in {j \in files : \A k \in files : j <= k}}

imported == member.text.imports[position]

More == queue # <<>> /\ Cardinality(seen) < max_files

(* Mutation: a label met again is left at the head of the queue.           *)
SkipInPlace ==
  /\ phase = "loop" /\ More
  /\ Head(queue).label \in seen
  /\ UNCHANGED scanVars

(* Mutation: a label met again ends the loop instead of this turn of it.   *)
SkipEndsScan ==
  /\ phase = "loop" /\ More
  /\ Head(queue).label \in seen
  /\ phase' = "done"
  /\ UNCHANGED <<disk, entry, queue, member, position, found, seen, report, judged, edits>>

SkipSeen ==
  /\ phase = "loop" /\ More
  /\ Head(queue).label \in seen
  /\ queue' = Tail(queue)
  /\ UNCHANGED <<disk, entry, phase, member, position, found, seen, report, judged, edits>>

(* Mutation: the report has the verdict on the file scanned last.          *)
scanned_last(text) == [report EXCEPT !.clean = text.clean]

(* safe_verify_source on one file; clean is never set back.                *)
scanned(text) == [report EXCEPT !.clean = @ /\ text.clean]

(* Mutation: the label is not remembered, so that cycles are followed.     *)
ScanFileUnmarked ==
  /\ phase = "loop" /\ More
  /\ Head(queue).label \notin seen
  /\ phase' = "imports"
  /\ member' = Head(queue) /\ queue' = Tail(queue) /\ position' = 1
  /\ report' = scanned(Head(queue).text)
  /\ judged' = judged \cup {Head(queue)}
  /\ UNCHANGED <<disk, entry, found, seen, edits>>

ScanFile ==
  /\ phase = "loop" /\ More
  /\ Head(queue).label \notin seen
  /\ phase' = "imports"
  /\ member' = Head(queue) /\ queue' = Tail(queue) /\ position' = 1
  /\ seen' = seen \cup {Head(queue).label}
  /\ report' = scanned(Head(queue).text)
  /\ judged' = judged \cup {Head(queue)}
  /\ UNCHANGED <<disk, entry, found, edits>>

Finish ==
  /\ phase = "loop" /\ ~More
  /\ phase' = "done"
  /\ UNCHANGED <<disk, entry, queue, member, position, found, seen, report, judged, edits>>

EndImports ==
  /\ phase = "imports" /\ position > Len(member.text.imports)
  /\ phase' = "loop"
  /\ UNCHANGED <<disk, entry, queue, member, position, found, seen, report, judged, edits>>

(* No path is made of a name of dots: with_suffix raises, out of the scan. *)
ResolveRaises ==
  /\ phase = "imports" /\ position <= Len(member.text.imports)
  /\ imported \in DotsOnly
  /\ phase' = "raised"
  /\ UNCHANGED <<disk, entry, queue, member, position, found, seen, report, judged, edits>>

(* The next import, which finds no file, or one that was scanned already.  *)
AtImport ==
  /\ phase = "imports" /\ position <= Len(member.text.imports)
  /\ imported \notin DotsOnly

Missing ==
  /\ position' = position + 1
  /\ report' = [report EXCEPT !.missing_imports = @ \cup {imported}]
  /\ UNCHANGED <<disk, entry, queue, member, found, seen, judged, edits>>

MissImport ==
  /\ AtImport /\ _resolve_import(imported) = {}
  /\ phase' = phase
  /\ Missing

KnownImport ==
  /\ AtImport /\ \E f \in _resolve_import(imported) : f \in seen
  /\ position' = position + 1
  /\ UNCHANGED <<disk, entry, phase, queue, member, found, seen, report, judged, edits>>

FindImport ==
  /\ AtImport
  /\ \E f \in _resolve_import(imported) : f \notin seen /\ found' = f
  /\ phase' = "reading"
  /\ UNCHANGED <<disk, entry, queue, member, position, seen, report, judged, edits>>

(* read_text, after the lookup: what is there by now is queued.  One that  *)
(* cannot be opened counts as missing, one that is no UTF-8 ends the scan  *)
(* with an exception.                                                      *)
ReadImport ==
  /\ phase = "reading" /\ disk[found].status = "text"
  /\ queue' = Append(queue, [label |-> found, text |-> disk[found]])
  /\ position' = position + 1
  /\ phase' = "imports"
  /\ UNCHANGED <<disk, entry, member, found, seen, report, judged, edits>>

ReadFails ==
  /\ phase = "reading" /\ disk[found].status \in {"absent", "locked"}
  /\ phase' = "imports"
  /\ Missing

ReadRaises ==
  /\ phase = "reading" /\ disk[found].status = "garbled"
  /\ phase' = "raised"
  /\ UNCHANGED <<disk, entry, queue, member, position, found, seen, report, judged, edits>>

-----------------------------------------------------------------------------
Ended == phase \in {"done", "raised"}

(* The environment changes a file.                                         *)
EditDisk ==
  /\ ~Ended /\ edits < MaxEdits
  /\ \E f \in Files, c \in Contents : c # disk[f] /\ disk' = [disk EXCEPT ![f] = c]
  /\ edits' = edits + 1
  /\ UNCHANGED <<entry, phase, queue, member, position, found, seen, report, judged>>

Start(source) == [label |-> Entry, text |-> source]

ScanInit ==
  /\ disk \in [Files -> Contents]
  /\ entry \in {c \in Contents : c.status = "text"}
  /\ phase = "loop"
  /\ queue = <<Start(entry)>> /\ member = Start(entry) /\ position = 1
  /\ found = Entry
  /\ seen = {}
  /\ report = [clean |-> TRUE, missing_imports |-> {}]
  /\ judged = {}
  /\ edits = 0

ScanStep ==
  \/ SkipSeen \/ ScanFile \/ Finish \/ EndImports \/ ResolveRaises
  \/ MissImport \/ KnownImport \/ FindImport
  \/ ReadImport \/ ReadFails \/ ReadRaises

ScanNext == ScanStep \/ EditDisk

ScanSpec == ScanInit /\ [][ScanNext]_scanVars

(* The scan is a loop without waits.                                       *)
FairScanSpec == ScanSpec /\ WF_scanVars(ScanStep)

-----------------------------------------------------------------------------
Labels == Files \cup {Entry}
Read == [label: Labels, text: {c \in Contents : c.status = "text"}]

(* The shape of the state.                                                 *)
ScanTypeOK ==
  /\ disk \in [Files -> Contents]
  /\ entry \in {c \in Contents : c.status = "text"}
  /\ phase \in {"loop", "imports", "reading", "done", "raised"}
  /\ queue \in Seq(Read) /\ member \in Read
  /\ position \in Nat \ {0}
  /\ found \in Labels
  /\ seen \subseteq Labels
  /\ report \in [clean: BOOLEAN, missing_imports: SUBSET Names]
  /\ judged \subseteq Read
  /\ edits \in 0..MaxEdits

BelowLimit == Cardinality(seen) < max_files

(* A scan that ends below its limit left nothing out, whatever was saved   *)
(* meanwhile: every import of every text it scanned is reported missing or *)
(* is one of its files, which was scanned too.                             *)
NothingLeftOut ==
  phase = "done" /\ BelowLimit =>
    \A j \in judged : \A i \in 1..Len(j.text.imports) :
      LET name == j.text.imports[i] IN
      \/ name \in report.missing_imports
      \/ \E k \in 1..Len(Candidates[name]) : Candidates[name][k] \in seen

(* The files the source imports, directly or not: what is in every set of  *)
(* files that is closed under imports.                                     *)
ClosedUnderImports(C) ==
  \A text \in {entry} \cup {disk[f] : f \in C} :
    text.status = "text" =>
      \A i \in 1..Len(text.imports) : _resolve_import(text.imports[i]) \subseteq C

Reachable == {f \in Files : \A C \in SUBSET Files : ClosedUnderImports(C) => f \in C}

(* "Transitive scans fail closed on sorry/admit/unsafe in dependency       *)
(* graphs when files are available": a clean report of a scan that ended   *)
(* below its limit, over files nobody changed, is of clean files only,     *)
(* however the imports branch, meet again or form cycles.                  *)
FailsClosed ==
  phase = "done" /\ BelowLimit /\ edits = 0 /\ report.clean =>
    entry.clean /\ \A f \in Reachable : disk[f].status = "text" => disk[f].clean

(* How far it is to the end: files up to the limit, turns of the inner     *)
(* loop, and labels in the queue.                                          *)
FilesToGo == max_files - Cardinality(seen)

TurnsToGo ==
  CASE phase = "imports" -> 2 * (Len(member.text.imports) + 1 - position) + 1
    [] phase = "reading" -> 2 * (Len(member.text.imports) + 1 - position)
    [] OTHER -> 0

QueueToGo == IF Ended THEN 0 ELSE Len(queue) + 1

Nearer ==
  \/ FilesToGo' < FilesToGo
  \/ FilesToGo' = FilesToGo /\ TurnsToGo' < TurnsToGo
  \/ FilesToGo' = FilesToGo /\ TurnsToGo' = TurnsToGo /\ QueueToGo' < QueueToGo

(* Every turn brings the scan nearer to its end, though it may put more in *)
(* the queue than it takes out: files count before turns of the loop, and  *)
(* those before the queue; none of them is ever below 0, so no more files  *)
(* are scanned than the limit.                                             *)
EveryTurnCounts ==
  [][ScanStep => Nearer /\ {FilesToGo', TurnsToGo', QueueToGo'} \subseteq Nat]_scanVars

(* Every scan ends, with a report or an exception, cycles notwithstanding. *)
ScanEnds == <>Ended
=============================================================================
