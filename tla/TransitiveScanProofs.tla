------------------------ MODULE TransitiveScanProofs ------------------------
(***************************************************************************)
(* Proofs about TransitiveScan, for any files, imports, contents and       *)
(* limits.  That a scan ends takes fairness, but what fairness needs is    *)
(* proved: every turn goes down in an order in which nothing goes down for *)
(* ever.                                                                   *)
(***************************************************************************)
EXTENDS TransitiveScan, FiniteSetTheorems, WellFoundedInduction, TLAPS

Members(q) == {q[i] : i \in 1..Len(q)}

(* Labels the scan has dealt with or will, if it goes on.                  *)
Known == seen \cup {r.label : r \in Members(queue)}

(* The imports of the member under scan that the loop has not come to.     *)
Pending(j, i) == phase \in {"imports", "reading"} /\ j = member /\ position <= i

Accounted(name) ==
  \/ name \in report.missing_imports
  \/ \E k \in 1..Len(Candidates[name]) : Candidates[name][k] \in Known

(* No import of a text that was scanned is forgotten.                      *)
ImportsInv ==
  phase # "raised" =>
    \A j \in judged : \A i \in 1..Len(j.text.imports) :
      Pending(j, i) \/ Accounted(j.text.imports[i])

(* Where the loop is: the member under scan was judged, the import it is   *)
(* at leads to the file it reads.                                          *)
PlaceInv ==
  /\ seen = {j.label : j \in judged}
  /\ phase \in {"imports", "reading"} => member \in judged
  /\ phase = "reading" =>
       /\ position <= Len(member.text.imports)
       /\ \E k \in 1..Len(Candidates[imported]) : Candidates[imported][k] = found
       /\ edits = 0 => found \in _resolve_import(imported)
  /\ phase = "done" /\ BelowLimit => queue = << >>

CleanInv == report.clean => \A j \in judged : j.text.clean

(* What a label stands for.                                                *)
Holds(r) ==
  /\ r.label \in Files => r.text = disk[r.label]
  /\ r.label = Entry => r.text = entry

Resolved(name) ==
  \A f \in _resolve_import(name) : f \in Known \/ disk[f].status # "text"

(* Over files nobody changed, what was read is what is there, and an       *)
(* import leads where it led when it was followed.                         *)
StillInv ==
  edits = 0 /\ phase # "raised" =>
    /\ \A r \in judged \cup Members(queue) : Holds(r)
    /\ Entry \in Known
    /\ \A j \in judged : \A i \in 1..Len(j.text.imports) :
         Pending(j, i) \/ Resolved(j.text.imports[i])

ScanInv == ScanTypeOK /\ PlaceInv /\ ImportsInv /\ CleanInv /\ StillInv

-----------------------------------------------------------------------------
(* Taking the head of a queue leaves the others.                           *)
LEMMA TailMembers ==
  ASSUME NEW S, NEW q \in Seq(S), q # << >>
  PROVE  /\ Head(q) \in S /\ Tail(q) \in Seq(S)
         /\ Members(q) = {Head(q)} \cup Members(Tail(q))
<1>1. Head(q) = q[1] /\ Len(q) >= 1 /\ Len(q) \in Nat /\ 1 \in 1..Len(q)
  OBVIOUS
<1>2. Tail(q) \in Seq(S) /\ Len(Tail(q)) = Len(q) - 1
  OBVIOUS
<1>3. \A i \in 1..Len(Tail(q)) : Tail(q)[i] = q[i + 1] /\ i + 1 \in 1..Len(q)
  BY <1>1, <1>2
<1>4. \A i \in 1..Len(q) : i = 1 \/ (i - 1 \in 1..Len(Tail(q)) /\ Tail(q)[i - 1] = q[i])
  BY <1>1, <1>2, <1>3
<1>5. Members(q) \subseteq {Head(q)} \cup Members(Tail(q))
  BY <1>1, <1>4 DEF Members
<1>6. {Head(q)} \cup Members(Tail(q)) \subseteq Members(q)
  BY <1>1, <1>3 DEF Members
<1> QED BY <1>1, <1>2, <1>5, <1>6

(* Appending adds one member.                                              *)
LEMMA AppendMembers ==
  ASSUME NEW S, NEW q \in Seq(S), NEW x \in S
  PROVE  Append(q, x) \in Seq(S) /\ Members(Append(q, x)) = Members(q) \cup {x}
<1>1. Append(q, x) \in Seq(S) /\ Len(Append(q, x)) = Len(q) + 1 /\ Len(q) \in Nat
  OBVIOUS
<1>2. \A i \in 1..Len(q) : Append(q, x)[i] = q[i] /\ i \in 1..Len(Append(q, x))
  BY <1>1
<1>3. Append(q, x)[Len(q) + 1] = x /\ Len(q) + 1 \in 1..Len(Append(q, x))
  BY <1>1
<1>4. \A i \in 1..Len(Append(q, x)) : i \in 1..Len(q) \/ i = Len(q) + 1
  BY <1>1
<1>5. Members(Append(q, x)) \subseteq Members(q) \cup {x}
  BY <1>2, <1>3, <1>4 DEF Members
<1>6. Members(q) \cup {x} \subseteq Members(Append(q, x))
  BY <1>2, <1>3 DEF Members
<1> QED BY <1>1, <1>5, <1>6

(* An import leads to one file at most, and that is one of its candidates. *)
LEMMA OneFilePerImport ==
  ASSUME NEW name \in Names
  PROVE  /\ \A f, g \in _resolve_import(name) : f = g
         /\ \A f \in _resolve_import(name) :
              f \in Files /\ \E k \in 1..Len(Candidates[name]) : Candidates[name][k] = f
<1> DEFINE c == Candidates[name]
<1>1. c \in Seq(Files) /\ Len(c) \in Nat
  BY ScanAssumption
<1>2. \A i, j \in 1..Len(c) : i <= j /\ j <= i => i = j
  BY <1>1
<1>3. \A f \in _resolve_import(name) :
        \E i \in 1..Len(c) : /\ f = c[i] /\ disk[c[i]].status # "absent"
                             /\ \A k \in 1..Len(c) : disk[c[k]].status # "absent" => i <= k
  BY DEF _resolve_import
<1>4. \A i \in 1..Len(c) : c[i] \in Files
  BY <1>1
<1> QED BY <1>2, <1>3, <1>4

(* What was read is a text whose imports are names.                        *)
LEMMA ReadFacts ==
  ASSUME NEW r \in Read
  PROVE  /\ r.label \in Labels /\ r.text \in Contents /\ r.text.status = "text"
         /\ r.text.clean \in BOOLEAN
         /\ r.text.imports \in Seq(Names) /\ Len(r.text.imports) \in Nat
         /\ \A i \in 1..Len(r.text.imports) : r.text.imports[i] \in Names
<1>1. r.label \in Labels /\ r.text \in Contents /\ r.text.status = "text"
  BY DEF Read
<1>2. r.text \in Content
  BY <1>1, ScanAssumption
<1>3. r.text.clean \in BOOLEAN /\ r.text.imports \in Seq(Names)
  BY <1>2 DEF Content
<1> QED BY <1>1, <1>3

(* The import the loop is at.                                              *)
LEMMA ImportedFacts ==
  ASSUME ScanTypeOK, position <= Len(member.text.imports)
  PROVE  imported \in Names /\ position \in 1..Len(member.text.imports)
<1>1. member \in Read /\ position \in Nat \ {0}
  BY DEF ScanTypeOK
<1>2. position \in 1..Len(member.text.imports)
  BY <1>1, ReadFacts
<1> QED BY <1>1, <1>2, ReadFacts DEF imported

(* ... and the file it reads.                                              *)
LEMMA ReadingFacts ==
  ASSUME ScanTypeOK, PlaceInv, phase = "reading"
  PROVE  imported \in Names /\ position \in 1..Len(member.text.imports) /\ found \in Files
<1>1. imported \in Names /\ position \in 1..Len(member.text.imports)
  BY ImportedFacts DEF PlaceInv
<1>2. Candidates[imported] \in Seq(Files)
  BY <1>1, ScanAssumption
<1> QED BY <1>1, <1>2 DEF PlaceInv

(* The types of the state are kept by every step.                          *)
LEMMA TypeStep ==
  ASSUME ScanTypeOK, PlaceInv, [ScanNext]_scanVars
  PROVE  ScanTypeOK'
<1> USE DEF ScanTypeOK
<1>1. ASSUME Missing, imported \in Names, phase' = "imports"
      PROVE  ScanTypeOK'
  BY <1>1 DEF Missing
<1>2. CASE SkipSeen
  BY <1>2, TailMembers DEF SkipSeen, More
<1>3. CASE ScanFile
  <2>1. Head(queue) \in Read /\ Tail(queue) \in Seq(Read)
    BY <1>3, TailMembers DEF ScanFile, More
  <2>2. Head(queue).label \in Labels /\ Head(queue).text.clean \in BOOLEAN
    BY <2>1, ReadFacts
  <2>3. scanned(Head(queue).text) \in [clean: BOOLEAN, missing_imports: SUBSET Names]
    BY <2>2 DEF scanned
  <2> QED BY <1>3, <2>1, <2>2, <2>3 DEF ScanFile
<1>4. CASE Finish BY <1>4 DEF Finish
<1>5. CASE EndImports BY <1>5 DEF EndImports
<1>6. CASE MissImport BY <1>1, <1>6, ImportedFacts DEF MissImport, AtImport
<1>7. CASE KnownImport BY <1>7 DEF KnownImport
<1>8. CASE FindImport
  <2>1. imported \in Names
    BY <1>8, ImportedFacts DEF FindImport, AtImport
  <2>2. found' \in Files
    BY <1>8, <2>1, OneFilePerImport DEF FindImport
  <2> QED BY <1>8, <2>2 DEF FindImport, Labels
<1>9. CASE ReadImport
  <2>1. found \in Files
    BY <1>9, ReadingFacts DEF ReadImport
  <2>2. [label |-> found, text |-> disk[found]] \in Read
    BY <1>9, <2>1 DEF ReadImport, Read, Labels
  <2>3. queue' \in Seq(Read)
    BY <1>9, <2>2, AppendMembers DEF ReadImport
  <2> QED BY <1>9, <2>3 DEF ReadImport
<1>10. CASE ReadFails BY <1>1, <1>10, ReadingFacts DEF ReadFails
<1>11. CASE ReadRaises \/ ResolveRaises BY <1>11 DEF ReadRaises, ResolveRaises
<1>12. CASE EditDisk
  <2>1. disk' \in [Files -> Contents]
    BY <1>12 DEF EditDisk
  <2>2. edits' \in 0..MaxEdits
    BY <1>12, ScanAssumption DEF EditDisk
  <2> QED BY <1>12, <2>1, <2>2 DEF EditDisk
<1>13. CASE UNCHANGED scanVars BY <1>13 DEF scanVars
<1> QED
  BY <1>2, <1>3, <1>4, <1>5, <1>6, <1>7, <1>8, <1>9, <1>10, <1>11, <1>12, <1>13
     DEF ScanNext, ScanStep

(* Nothing the scan knows, and no import it reported, is dropped again;    *)
(* while files are not changed, they are the same files.                   *)
LEMMA Grows ==
  ASSUME ScanTypeOK, [ScanNext]_scanVars
  PROVE  /\ Known \subseteq Known'
         /\ report.missing_imports \subseteq report.missing_imports'
         /\ report'.clean => report.clean
         /\ entry' = entry
         /\ edits' = 0 => edits = 0 /\ disk' = disk
<1> USE DEF ScanTypeOK
<1>1. CASE SkipSeen
  BY <1>1, TailMembers DEF SkipSeen, More, Known
<1>2. CASE ScanFile
  <2>1. Members(queue) = {Head(queue)} \cup Members(Tail(queue))
    BY <1>2, TailMembers DEF ScanFile, More
  <2>2. Known \subseteq Known'
    BY <1>2, <2>1 DEF ScanFile, Known
  <2> QED BY <1>2, <2>2 DEF ScanFile, scanned
<1>3. CASE ReadImport
  <2>1. Members(queue) \subseteq Members(queue')
    <3>1. \A i \in 1..Len(queue) : queue'[i] = queue[i] /\ i \in 1..Len(queue')
      BY <1>3 DEF ReadImport
    <3> QED BY <3>1 DEF Members
  <2> QED BY <1>3, <2>1 DEF ReadImport, Known
<1>4. CASE EditDisk
  BY <1>4 DEF EditDisk, Known, Members
<1>5. CASE MissImport \/ ReadFails
  BY <1>5 DEF MissImport, ReadFails, Missing, Known, Members
<1>6. CASE Finish \/ EndImports \/ KnownImport \/ FindImport \/ ReadRaises \/ ResolveRaises \/ UNCHANGED scanVars
  BY <1>6 DEF Finish, EndImports, KnownImport, FindImport, ReadRaises, ResolveRaises, scanVars, Known, Members
<1> QED BY <1>1, <1>2, <1>3, <1>4, <1>5, <1>6 DEF ScanNext, ScanStep

(* A scan starts with nothing judged and the source in the queue.          *)
LEMMA InitInv == ScanInit => ScanInv
<1> SUFFICES ASSUME ScanInit PROVE ScanInv
  OBVIOUS
<1> USE DEF ScanInit
<1>1. Start(entry) \in Read
  BY DEF Start, Read, Labels
<1>2. ScanTypeOK
  BY <1>1, ScanAssumption DEF ScanTypeOK, Labels
<1>3. PlaceInv /\ ImportsInv /\ CleanInv
  BY DEF PlaceInv, ImportsInv, CleanInv
<1>4. Members(queue) = {Start(entry)}
  BY DEF Members
<1>5. StillInv
  <2>1. Start(entry).label = Entry /\ Start(entry).text = entry
    BY DEF Start
  <2>2. Holds(Start(entry))
    BY <2>1, ScanAssumption DEF Holds
  <2>3. Entry \in Known
    BY <1>4, <2>1 DEF Known
  <2> QED BY <1>4, <2>2, <2>3 DEF StillInv
<1> QED BY <1>2, <1>3, <1>5 DEF ScanInv

(* A step is at a place of the loop that its member and import fit.        *)
LEMMA PlaceStep ==
  ASSUME ScanInv, [ScanNext]_scanVars
  PROVE  PlaceInv'
<1> USE DEF ScanInv, PlaceInv
<1>1. CASE SkipSeen
  BY <1>1 DEF SkipSeen, BelowLimit
<1>2. CASE ScanFile
  BY <1>2 DEF ScanFile, BelowLimit
<1>3. CASE Finish
  BY <1>3 DEF Finish, More, BelowLimit
<1>4. CASE EndImports
  BY <1>4 DEF EndImports
<1>5. CASE MissImport
  BY <1>5 DEF MissImport, Missing, AtImport
<1>6. CASE KnownImport
  BY <1>6 DEF KnownImport, AtImport
<1>7. CASE FindImport
  <2>1. found' \in _resolve_import(imported) /\ imported \in Names
    BY <1>7, ImportedFacts DEF FindImport, AtImport, ScanInv
  <2>2. \E k \in 1..Len(Candidates[imported]) : Candidates[imported][k] = found'
    BY <2>1, OneFilePerImport
  <2>3. (found \in _resolve_import(imported))'
    BY <1>7, <2>1 DEF FindImport, _resolve_import, imported
  <2>4. (\E k \in 1..Len(Candidates[imported]) : Candidates[imported][k] = found)'
    BY <1>7, <2>2 DEF FindImport, imported
  <2> QED BY <1>7, <2>3, <2>4 DEF FindImport, AtImport
<1>8. CASE ReadImport \/ ReadFails \/ ReadRaises \/ ResolveRaises
  BY <1>8 DEF ReadImport, ReadFails, ReadRaises, ResolveRaises, Missing
<1>9. CASE EditDisk
  <2>1. edits' # 0
    BY <1>9 DEF EditDisk, ScanTypeOK
  <2>2. (phase = "reading" =>
           \E k \in 1..Len(Candidates[imported]) : Candidates[imported][k] = found)'
    BY <1>9 DEF EditDisk, imported
  <2> QED BY <1>9, <2>1, <2>2 DEF EditDisk, Ended
<1>10. CASE UNCHANGED scanVars
  BY <1>10 DEF scanVars, BelowLimit, imported, _resolve_import
<1> QED
  BY <1>1, <1>2, <1>3, <1>4, <1>5, <1>6, <1>7, <1>8, <1>9, <1>10 DEF ScanNext, ScanStep

(* The verdict counts every file that was judged.                          *)
LEMMA CleanStep ==
  ASSUME ScanInv, [ScanNext]_scanVars
  PROVE  CleanInv'
<1> USE DEF ScanInv, CleanInv, ScanTypeOK
<1>1. CASE ScanFile
  <2>1. Head(queue) \in Read
    BY <1>1, TailMembers DEF ScanFile, More
  <2>2. report'.clean = (report.clean /\ Head(queue).text.clean)
    BY <1>1 DEF ScanFile, scanned
  <2>3. report'.clean => report.clean /\ Head(queue).text.clean
    BY <2>2, Zenon
  <2> QED BY <1>1, <2>3 DEF ScanFile
<1>2. CASE MissImport \/ ReadFails
  BY <1>2 DEF MissImport, ReadFails, Missing
<1>3. CASE SkipSeen \/ Finish \/ EndImports \/ KnownImport \/ FindImport \/ ReadImport
           \/ ReadRaises \/ ResolveRaises \/ EditDisk \/ UNCHANGED scanVars
  BY <1>3 DEF SkipSeen, Finish, EndImports, KnownImport, FindImport, ReadImport,
     ReadRaises, ResolveRaises, EditDisk, scanVars
<1> QED BY <1>1, <1>2, <1>3 DEF ScanNext, ScanStep

(* An import the loop goes past is reported missing or leads to a file it  *)
(* knows by then; over files nobody changed, the one it stands for.        *)
LEMMA PassedImport ==
  ASSUME ScanInv, [ScanNext]_scanVars,
         phase \in {"imports", "reading"}, phase' # "raised",
         NEW i \in 1..Len(member.text.imports), position <= i,
         ~(phase' \in {"imports", "reading"} /\ member' = member /\ position' <= i),
         NEW name, name = member.text.imports[i]
  PROVE  /\ Accounted(name)'
         /\ edits' = 0 => Resolved(name)'
<1> USE DEF ScanInv
<1>1. member \in Read /\ position \in Nat \ {0} /\ Len(member.text.imports) \in Nat /\ i \in Nat
  BY ReadFacts DEF ScanTypeOK
<1>2. KnownImport \/ MissImport \/ ReadImport \/ ReadFails
  BY <1>1 DEF ScanNext, ScanStep, SkipSeen, ScanFile, Finish, EndImports, FindImport,
     AtImport, ReadRaises, ResolveRaises, EditDisk, scanVars
<1>3. member' = member /\ phase' = "imports" /\ position' = position + 1
      /\ disk' = disk /\ edits' = edits
  BY <1>2 DEF KnownImport, MissImport, ReadImport, ReadFails, Missing, AtImport
<1>4. position = i /\ position <= Len(member.text.imports)
  BY <1>1, <1>3
<1>5. imported = name /\ name \in Names
  BY <1>4, ImportedFacts DEF imported
<1>6. /\ \A f, g \in _resolve_import(name) : f = g
      /\ \A f \in _resolve_import(name) :
           \E k \in 1..Len(Candidates[name]) : Candidates[name][k] = f
  BY <1>5, OneFilePerImport
<1>7. _resolve_import(name)' = _resolve_import(name)
  BY <1>3 DEF _resolve_import
<1>8. CASE KnownImport
  <2>1. PICK f \in _resolve_import(name) : f \in seen
    BY <1>5, <1>8 DEF KnownImport
  <2>2. f \in Known'
    BY <2>1, <1>8 DEF KnownImport, Known
  <2>3. Accounted(name)'
    BY <1>6, <2>1, <2>2 DEF Accounted
  <2> QED BY <1>6, <1>7, <2>1, <2>2, <2>3 DEF Resolved
<1>9. CASE MissImport
  <2>1. name \in report'.missing_imports
    BY <1>5, <1>9 DEF MissImport, Missing, ScanTypeOK
  <2>2. _resolve_import(name) = {}
    BY <1>5, <1>9 DEF MissImport
  <2> QED BY <1>7, <2>1, <2>2 DEF Accounted, Resolved
<1>10. CASE ReadImport
  <2>1. PICK k \in 1..Len(Candidates[name]) : Candidates[name][k] = found
    BY <1>5, <1>10 DEF ReadImport, PlaceInv
  <2>2. found \in Known'
    <3>1. Len(queue) \in Nat /\ Len(queue') = Len(queue) + 1
          /\ queue'[Len(queue) + 1] = [label |-> found, text |-> disk[found]]
      BY <1>10 DEF ReadImport, ScanTypeOK
    <3> QED BY <3>1 DEF Known, Members
  <2>3. edits' = 0 => found \in _resolve_import(name)
    BY <1>3, <1>5, <1>10 DEF ReadImport, PlaceInv
  <2> QED BY <1>6, <1>7, <2>1, <2>2, <2>3 DEF Accounted, Resolved
<1>11. CASE ReadFails
  <2>1. name \in report'.missing_imports
    BY <1>5, <1>11 DEF ReadFails, Missing, ScanTypeOK
  <2>2. edits' = 0 => found \in _resolve_import(name)
    BY <1>3, <1>5, <1>11 DEF ReadFails, PlaceInv
  <2>3. disk'[found].status # "text"
    BY <1>3, <1>11 DEF ReadFails
  <2> QED BY <1>6, <1>7, <2>1, <2>2, <2>3 DEF Accounted, Resolved
<1> QED BY <1>2, <1>8, <1>9, <1>10, <1>11

(* What happens to the imports of a text, for one that was judged and for  *)
(* one that is judged by this step.                                        *)
LEMMA ImportStep ==
  ASSUME ScanInv, [ScanNext]_scanVars, phase' # "raised",
         NEW j \in judged', NEW i \in 1..Len(j.text.imports), ~Pending(j, i)'
  PROVE  /\ Accounted(j.text.imports[i])'
         /\ edits' = 0 => Resolved(j.text.imports[i])'
<1> USE DEF ScanInv
<1>1. j \in judged /\ phase # "raised"
  <2>1. CASE ScanFile
    BY <2>1 DEF ScanFile, Pending
  <2>2. CASE ~ScanFile
    BY <2>2 DEF ScanNext, ScanStep, SkipSeen, Finish, EndImports, MissImport, KnownImport,
       FindImport, AtImport, ReadImport, ReadFails, ReadRaises, ResolveRaises, EditDisk, Ended, Missing, scanVars
  <2> QED BY <2>1, <2>2
<1>2. CASE Pending(j, i)
  BY <1>1, <1>2, PassedImport DEF Pending
<1>3. CASE ~Pending(j, i)
  <2>1. j.text.imports[i] \in Names
    BY <1>1, ReadFacts DEF ScanTypeOK
  <2> DEFINE name == j.text.imports[i]
  <2>2. Accounted(name)
    BY <1>1, <1>3 DEF ImportsInv
  <2>3. Accounted(name)'
    BY <2>2, Grows DEF Accounted
  <2>4. ASSUME edits' = 0 PROVE Resolved(name)'
    <3>1. edits = 0 /\ disk' = disk /\ Known \subseteq Known'
      BY <2>4, Grows
    <3>2. Resolved(name)
      BY <1>1, <1>3, <3>1 DEF StillInv
    <3> QED BY <3>1, <3>2 DEF Resolved, _resolve_import
  <2> QED BY <2>3, <2>4
<1> QED BY <1>2, <1>3

(* Over files nobody changed, what was read stays what is there.           *)
LEMMA StillStep ==
  ASSUME ScanInv, [ScanNext]_scanVars, edits' = 0, phase' # "raised"
  PROVE  (\A r \in judged \cup Members(queue) : Holds(r))' /\ (Entry \in Known)'
<1> USE DEF ScanInv
<1>1. edits = 0 /\ disk' = disk /\ entry' = entry /\ Known \subseteq Known'
  BY Grows
<1>2. phase # "raised"
  BY DEF ScanNext, ScanStep, SkipSeen, ScanFile, Finish, EndImports, MissImport, KnownImport,
     FindImport, AtImport, ReadImport, ReadFails, ReadRaises, ResolveRaises, EditDisk, Ended, More, scanVars
<1>3. Entry \in Known /\ \A r \in judged \cup Members(queue) : Holds(r)
  BY <1>1, <1>2 DEF StillInv
<1>4. \A r : Holds(r) => Holds(r)'
  BY <1>1 DEF Holds
<1>5. \A r \in judged' \cup Members(queue)' :
        r \in judged \cup Members(queue) \/ (ReadImport /\ r = [label |-> found, text |-> disk[found]])
  <2>1. CASE SkipSeen
    BY <2>1, TailMembers DEF SkipSeen, More, ScanTypeOK, Members
  <2>2. CASE ScanFile
    <3>1. Members(queue) = {Head(queue)} \cup Members(Tail(queue))
      BY <2>2, TailMembers DEF ScanFile, More, ScanTypeOK
    <3>2. Members(queue)' = Members(Tail(queue))
      BY <2>2 DEF ScanFile, Members
    <3> QED BY <2>2, <3>1, <3>2 DEF ScanFile
  <2>3. CASE ReadImport
    <3>1. [label |-> found, text |-> disk[found]] \in Read
      BY <2>3, ReadingFacts DEF ReadImport, Read, Labels, ScanTypeOK
    <3>2. Members(queue)' = Members(Append(queue, [label |-> found, text |-> disk[found]]))
      BY <2>3 DEF ReadImport, Members
    <3> QED BY <2>3, <3>1, <3>2, AppendMembers DEF ReadImport, ScanTypeOK
  <2>4. CASE ~(SkipSeen \/ ScanFile \/ ReadImport)
    <3>1. queue' = queue /\ judged' = judged
      BY <2>4 DEF ScanNext, ScanStep, Finish, EndImports, MissImport, KnownImport, FindImport,
         ReadFails, ReadRaises, ResolveRaises, EditDisk, Missing, scanVars
    <3> QED BY <3>1 DEF Members
  <2> QED BY <2>1, <2>2, <2>3, <2>4
<1>6. ReadImport => Holds([label |-> found, text |-> disk[found]])
  <2>1. ReadImport => found \in Files
    BY ReadingFacts DEF ReadImport
  <2> QED BY <2>1, ScanAssumption DEF Holds
<1>7. \A r \in judged' \cup Members(queue)' : Holds(r)'
  BY <1>3, <1>4, <1>5, <1>6
<1> QED BY <1>1, <1>3, <1>7

(* Every step keeps the invariant.                                         *)
LEMMA InvStep ==
  ASSUME ScanInv, [ScanNext]_scanVars
  PROVE  ScanInv'
<1>1. ScanTypeOK' /\ PlaceInv' /\ CleanInv'
  BY TypeStep, PlaceStep, CleanStep DEF ScanInv
<1>2. ImportsInv'
  BY ImportStep DEF ImportsInv
<1>3. StillInv'
  BY ImportStep, StillStep DEF StillInv
<1> QED BY <1>1, <1>2, <1>3 DEF ScanInv

(* The invariant holds of every scan.                                      *)
LEMMA Invariance == ScanSpec => []ScanInv
<1> QED BY InitInv, InvStep, PTL DEF ScanSpec

(* A scan that ends with an empty queue knows what it has seen.            *)
LEMMA AtTheEnd ==
  ASSUME ScanInv, phase = "done", BelowLimit
  PROVE  Known = seen
BY DEF ScanInv, PlaceInv, Known, Members

(* The state of a scan keeps its shape.                                    *)
THEOREM ScanTypeCorrect == ScanSpec => []ScanTypeOK
<1>1. ScanInv => ScanTypeOK
  BY DEF ScanInv
<1> QED BY <1>1, Invariance, PTL

(* A scan that ends below its limit left nothing out: of every text it     *)
(* scanned, each import is reported missing or was scanned as well.        *)
THEOREM NothingIsLeftOut == ScanSpec => []NothingLeftOut
<1>1. ASSUME ScanInv PROVE NothingLeftOut
  <2>1. SUFFICES ASSUME phase = "done", BelowLimit,
                        NEW j \in judged, NEW i \in 1..Len(j.text.imports)
                 PROVE  Accounted(j.text.imports[i]) /\ Known = seen
    BY DEF NothingLeftOut, Accounted
  <2>2. ~Pending(j, i)
    BY <2>1 DEF Pending
  <2> QED BY <1>1, <2>1, <2>2, AtTheEnd DEF ScanInv, ImportsInv
<1> QED BY <1>1, Invariance, PTL

(* A clean report that ended below its limit, over files nobody changed,   *)
(* is of a source and imports that are clean, the indirect ones included:  *)
(* what was scanned, with what has no text, is closed under imports.       *)
THEOREM ScanFailsClosed == ScanSpec => []FailsClosed
<1>1. ASSUME ScanInv PROVE FailsClosed
  <2>1. SUFFICES ASSUME phase = "done", BelowLimit, edits = 0, report.clean
                 PROVE  entry.clean /\ \A f \in Reachable : disk[f].status = "text" => disk[f].clean
    BY DEF FailsClosed
  <2>2. Known = seen
    BY <1>1, <2>1, AtTheEnd
  <2>3. \A l \in seen : \E j \in judged : j.label = l /\ Holds(j) /\ j.text.clean
    BY <1>1, <2>1 DEF ScanInv, PlaceInv, CleanInv, StillInv
  <2>4. \A j \in judged : \A i \in 1..Len(j.text.imports) : Resolved(j.text.imports[i])
    BY <1>1, <2>1 DEF ScanInv, StillInv, Pending
  <2>5. PICK e \in judged : e.label = Entry /\ e.text = entry /\ e.text.clean
    BY <1>1, <2>1, <2>2, <2>3 DEF ScanInv, StillInv, Holds
  <2> DEFINE C == {f \in Files : f \in seen \/ disk[f].status # "text"}
  <2>6. \A f \in C : disk[f].status = "text" =>
          \E j \in judged : j.text = disk[f] /\ j.text.clean
    BY <2>3 DEF Holds
  <2>7. ClosedUnderImports(C)
    <3>1. SUFFICES ASSUME NEW text \in {entry} \cup {disk[f] : f \in C}, text.status = "text",
                          NEW i \in 1..Len(text.imports)
                   PROVE  _resolve_import(text.imports[i]) \subseteq C
      BY DEF ClosedUnderImports
    <3>2. PICK j \in judged : j.text = text
      BY <3>1, <2>5, <2>6
    <3>3. text.imports[i] \in Names /\ Resolved(text.imports[i])
      BY <1>1, <3>2, <2>4, ReadFacts DEF ScanInv, ScanTypeOK
    <3>4. \A f \in _resolve_import(text.imports[i]) : f \in Files
      BY <3>3, OneFilePerImport
    <3> QED BY <2>2, <3>3, <3>4 DEF Resolved
  <2>8. C \in SUBSET Files
    OBVIOUS
  <2>9. Reachable \subseteq C
    BY <2>7, <2>8 DEF Reachable
  <2> QED BY <2>5, <2>6, <2>9
<1> QED BY <1>1, Invariance, PTL

-----------------------------------------------------------------------------
(* Why a scan ends.  It stays within its limit and within the imports of   *)
(* the file it is at.                                                      *)
BoundsInv ==
  /\ IsFiniteSet(seen) /\ Cardinality(seen) <= max_files
  /\ phase = "imports" => position <= Len(member.text.imports) + 1

LEMMA CurrentFacts ==
  ASSUME ScanInv
  PROVE  /\ Len(member.text.imports) \in Nat /\ position \in Nat \ {0} /\ Len(queue) \in Nat
         /\ phase = "reading" => position <= Len(member.text.imports)
BY ReadFacts DEF ScanInv, ScanTypeOK, PlaceInv

LEMMA BoundsStart == ScanInit => BoundsInv
BY FS_EmptySet, ScanAssumption DEF ScanInit, BoundsInv

LEMMA BoundsStep ==
  ASSUME ScanInv, BoundsInv, [ScanNext]_scanVars
  PROVE  BoundsInv'
<1> USE CurrentFacts DEF BoundsInv
<1>1. CASE ScanFile
  <2>1. Cardinality(seen) \in Nat /\ Cardinality(seen) < max_files /\ max_files \in Nat
    BY <1>1, FS_CardinalityType, ScanAssumption DEF ScanFile, More
  <2>2. seen' = seen \cup {Head(queue).label} /\ Head(queue).label \notin seen
    BY <1>1 DEF ScanFile
  <2>3. IsFiniteSet(seen') /\ Cardinality(seen') = Cardinality(seen) + 1
    BY <2>2, FS_AddElement
  <2>4. position' = 1 /\ Len(member'.text.imports) \in Nat
    <3>1. member' \in Read
      BY <1>1, TypeStep DEF ScanInv, ScanTypeOK
    <3> QED BY <1>1, <3>1, ReadFacts DEF ScanFile
  <2> QED BY <2>1, <2>3, <2>4
<1>2. CASE SkipSeen \/ Finish \/ EndImports \/ FindImport \/ ReadRaises \/ ResolveRaises
  BY <1>2 DEF SkipSeen, Finish, EndImports, FindImport, ReadRaises, ResolveRaises
<1>3. CASE MissImport \/ KnownImport
  BY <1>3 DEF MissImport, KnownImport, AtImport, Missing
<1>4. CASE ReadImport \/ ReadFails
  BY <1>4 DEF ReadImport, ReadFails, Missing
<1>5. CASE EditDisk
  BY <1>5 DEF EditDisk
<1>6. CASE UNCHANGED scanVars
  BY <1>6 DEF scanVars
<1> QED BY <1>1, <1>2, <1>3, <1>4, <1>5, <1>6 DEF ScanNext, ScanStep

(* What is left of a scan is counted in natural numbers.                   *)
ToGoNat == FilesToGo \in Nat /\ TurnsToGo \in Nat /\ QueueToGo \in Nat

LEMMA ToGoIsNatural ==
  ASSUME ScanInv, BoundsInv
  PROVE  ToGoNat
<1>1. FilesToGo \in Nat
  BY FS_CardinalityType, ScanAssumption DEF BoundsInv, FilesToGo
<1>2. TurnsToGo \in Nat
  BY CurrentFacts DEF BoundsInv, TurnsToGo
<1>3. QueueToGo \in Nat
  BY CurrentFacts DEF QueueToGo
<1> QED BY <1>1, <1>2, <1>3 DEF ToGoNat

(* Every turn brings a scan nearer to its end.                             *)
LEMMA TurnsCount ==
  ASSUME ScanInv, BoundsInv, ScanStep
  PROVE  Nearer
<1> USE CurrentFacts
<1>1. CASE ScanFile
  <2>1. Cardinality(seen) \in Nat /\ max_files \in Nat
    BY FS_CardinalityType, ScanAssumption DEF BoundsInv
  <2>2. Cardinality(seen') = Cardinality(seen) + 1
    BY <1>1, FS_AddElement DEF ScanFile, BoundsInv
  <2>3. FilesToGo' < FilesToGo
    BY <2>1, <2>2 DEF FilesToGo
  <2> QED BY <2>3 DEF Nearer
<1>2. CASE SkipSeen
  <2>1. Len(Tail(queue)) = Len(queue) - 1
    BY <1>2 DEF SkipSeen, More, ScanInv, ScanTypeOK
  <2>2. FilesToGo' = FilesToGo /\ TurnsToGo' = TurnsToGo
    BY <1>2 DEF SkipSeen, FilesToGo, TurnsToGo
  <2>3. QueueToGo' < QueueToGo
    BY <1>2, <2>1 DEF SkipSeen, QueueToGo, Ended
  <2> QED BY <2>2, <2>3 DEF Nearer
<1>3. CASE Finish
  <2>1. FilesToGo' = FilesToGo /\ TurnsToGo' = TurnsToGo
    BY <1>3 DEF Finish, FilesToGo, TurnsToGo
  <2>2. QueueToGo' < QueueToGo
    BY <1>3 DEF Finish, QueueToGo, Ended
  <2> QED BY <2>1, <2>2 DEF Nearer
<1>4. ASSUME UNCHANGED <<seen, member>>, TurnsToGo' < TurnsToGo
      PROVE  Nearer
  BY <1>4 DEF FilesToGo, Nearer
<1>5. CASE EndImports
  BY <1>4, <1>5 DEF EndImports, TurnsToGo, BoundsInv
<1>6. CASE MissImport \/ KnownImport \/ FindImport
  BY <1>4, <1>6 DEF MissImport, KnownImport, FindImport, AtImport, Missing, TurnsToGo
<1>7. CASE ReadImport \/ ReadFails \/ ReadRaises \/ ResolveRaises
  BY <1>4, <1>7 DEF ReadImport, ReadFails, ReadRaises, ResolveRaises, Missing, TurnsToGo
<1> QED BY <1>1, <1>2, <1>3, <1>5, <1>6, <1>7 DEF ScanStep

LEMMA BoundsInvariance == ScanSpec => [](ScanInv /\ BoundsInv /\ ToGoNat)
<1>1. ScanInit => ScanInv /\ BoundsInv
  BY InitInv, BoundsStart
<1>2. ScanInv /\ BoundsInv /\ [ScanNext]_scanVars => (ScanInv /\ BoundsInv)'
  BY InvStep, BoundsStep
<1>3. ScanInv /\ BoundsInv => ToGoNat
  BY ToGoIsNatural
<1> QED BY <1>1, <1>2, <1>3, PTL DEF ScanSpec

(* Whatever the imports and whoever edits the files, every turn of a scan  *)
(* counts, and it never scans more files than its limit.                   *)
THEOREM EveryTurnAlwaysCounts == ScanSpec => EveryTurnCounts
<1>1. ScanInv /\ BoundsInv /\ ToGoNat /\ ToGoNat' /\ [ScanNext]_scanVars =>
        [ScanStep => Nearer /\ {FilesToGo', TurnsToGo', QueueToGo'} \subseteq Nat]_scanVars
  <2> SUFFICES ASSUME ScanInv, BoundsInv, ToGoNat, ToGoNat', ScanStep
               PROVE  Nearer /\ {FilesToGo', TurnsToGo', QueueToGo'} \subseteq Nat
    OBVIOUS
  <2> QED BY TurnsCount DEF ToGoNat
<1> QED BY <1>1, BoundsInvariance, PTL DEF ScanSpec, EveryTurnCounts

(* The order of what is left: files before turns before the queue.         *)
TurnOrder ==
  LET less == OpToRel(<, Nat)
  IN LexPairOrdering(LexPairOrdering(less, less, Nat, Nat), less, Nat \X Nat, Nat)

ToGo == <<<<FilesToGo, TurnsToGo>>, QueueToGo>>

(* Nothing goes down in this order for ever ...                            *)
LEMMA OrderIsWellFounded == IsWellFoundedOn(TurnOrder, (Nat \X Nat) \X Nat)
<1> DEFINE less == OpToRel(<, Nat)
<1>1. IsWellFoundedOn(less, Nat)
  BY NatLessThanWellFounded
<1> HIDE DEF less
<1>2. IsWellFoundedOn(LexPairOrdering(less, less, Nat, Nat), Nat \X Nat)
  BY <1>1, WFLexPairOrdering
<1>3. IsWellFoundedOn(LexPairOrdering(LexPairOrdering(less, less, Nat, Nat), less,
                                      Nat \X Nat, Nat), (Nat \X Nat) \X Nat)
  BY <1>1, <1>2, WFLexPairOrdering
<1> QED BY <1>3 DEF TurnOrder, less

(* ... and every turn of a scan goes down in it: no scan has turns for     *)
(* ever, whatever the files and however often they are edited.             *)
THEOREM NoScanGoesOnForEver ==
  /\ ScanSpec => [][ScanStep => <<ToGo', ToGo>> \in TurnOrder]_scanVars
  /\ IsWellFoundedOn(TurnOrder, (Nat \X Nat) \X Nat)
<1>1. ScanInv /\ BoundsInv /\ ToGoNat /\ ToGoNat' /\ [ScanNext]_scanVars =>
        [ScanStep => <<ToGo', ToGo>> \in TurnOrder]_scanVars
  <2> SUFFICES ASSUME ScanInv, BoundsInv, ToGoNat, ToGoNat', ScanStep
               PROVE  <<ToGo', ToGo>> \in TurnOrder
    OBVIOUS
  <2>1. Nearer
    BY TurnsCount
  <2>2. ASSUME NEW f \in Nat, NEW t \in Nat, NEW q \in Nat,
               NEW g \in Nat, NEW u \in Nat, NEW r \in Nat,
               f < g \/ (f = g /\ t < u) \/ (f = g /\ t = u /\ q < r)
        PROVE  <<<<<<f, t>>, q>>, <<<<g, u>>, r>>>> \in TurnOrder
    <3> DEFINE less == OpToRel(<, Nat)
               pairs == LexPairOrdering(less, less, Nat, Nat)
    <3>1. \A m, n \in Nat : m < n => <<m, n>> \in less
      BY DEF OpToRel
    <3> HIDE DEF less
    <3>2. f < g \/ (f = g /\ t < u) => <<<<f, t>>, <<g, u>>>> \in pairs
      BY <3>1 DEF LexPairOrdering
    <3> HIDE DEF pairs
    <3>3. <<<<<<f, t>>, q>>, <<<<g, u>>, r>>>> \in LexPairOrdering(pairs, less, Nat \X Nat, Nat)
      BY <2>2, <3>1, <3>2 DEF LexPairOrdering
    <3> QED BY <3>3 DEF TurnOrder, pairs, less
  <2> QED BY <2>1, <2>2 DEF Nearer, ToGo, ToGoNat
<1> QED BY <1>1, BoundsInvariance, OrderIsWellFounded, PTL DEF ScanSpec
=============================================================================
