------------------------ MODULE ManifestLedgerProofs ------------------------
(***************************************************************************)
(* Proofs about ManifestLedger for any number of writers and readers, any  *)
(* bodies and any bounds.  The argument: a name belongs to the one writer  *)
(* that drafted it, that writer opens a file only when the file does not   *)
(* exist, so no complete file is ever lost (WholeGrows); a list of entries *)
(* that verifies therefore verifies for good, wherever a copy of it is     *)
(* held, and append extends such a copy by a stored, linked manifest.      *)
(***************************************************************************)
EXTENDS ManifestLedger, TLAPS

(* What the writer at each step of append knows about its pair of files.   *)
PairInv(w) ==
  /\ pc[w] = "json_open" =>
       Json(draft[w]) \in present \ whole /\ Markdown(draft[w]) \notin present
  /\ pc[w] = "json_written" =>
       Json(draft[w]) \in whole /\ Markdown(draft[w]) \notin present
  /\ pc[w] = "md_open" =>
       Json(draft[w]) \in whole /\ Markdown(draft[w]) \in present \ whole
  /\ pc[w] \in {"md_written", "index_open"} => Stored(draft[w])

(* ... and about the entries it read and the manifest it will add to them. *)
DraftInv(w) ==
  /\ draft[w].by = w
  /\ Verifies(base[w])
  /\ pc[w] # "idle" =>
       draft[w].sequence = Len(base[w]) /\ draft[w].previous = LastHash(base[w])

(* A verify in progress holds a list that verifies, is within it or just   *)
(* past it, and carries the hash of the entry it inspected last.           *)
ReaderInv(r) ==
  /\ Verifies(reader[r].entries)
  /\ reader[r].at <= Len(reader[r].entries) + 1
  /\ reader[r].at > 0 =>
       reader[r].previous = IF reader[r].at = 1 THEN Genesis
                            ELSE reader[r].entries[reader[r].at - 1].manifest_hash
  /\ reader[r].errors \subseteq {"index_unreadable"}

LedgerInv ==
  /\ LedgerTypeOK
  /\ Verifies(index.entries)
  /\ \A w \in Writers : PairInv(w) /\ DraftInv(w)
  /\ \A r \in Readers : ReaderInv(r)
  /\ ReceiptsKeepTheirFiles

-----------------------------------------------------------------------------
(* The index of a new ledger directory lists nothing, and verifies.        *)
LEMMA NoEntriesFacts ==
  /\ NoEntries \in Seq(Manifest) /\ Len(NoEntries) = 0 /\ Verifies(NoEntries)
  /\ Genesis \in Digest
BY DEF NoEntries, Verifies, Genesis, Digest

(* The record append builds from entries it read is a manifest.            *)
LEMMA NewManifestType ==
  ASSUME NEW entries \in Seq(Manifest), NEW w \in Writers, NEW body \in Bodies
  PROVE  NewManifest(entries, w, body) \in Manifest
<1>1. LastHash(entries) \in Digest
  <2>1. CASE Len(entries) = 0
    BY <2>1 DEF LastHash, Genesis, Digest
  <2>2. CASE Len(entries) # 0
    <3>1. Len(entries) \in 1..Len(entries)
      BY <2>2
    <3>2. entries[Len(entries)] \in Manifest
      BY <3>1
    <3> QED BY <2>2, <3>2 DEF LastHash, Manifest
  <2> QED BY <2>1, <2>2
<1>2. <<Len(entries), w, body>> \in Nat \X Writers \X Bodies
  OBVIOUS
<1>3. Append(LastHash(entries), <<Len(entries), w, body>>) \in Digest
  BY <1>1, <1>2 DEF Digest
<1> QED BY <1>1, <1>3 DEF NewManifest, Manifest, hash_canonical

(* A list that verifies still does with a stored manifest, numbered and    *)
(* linked by it, at its end: the step append takes from base to index.     *)
LEMMA VerifiesAppend ==
  ASSUME NEW entries \in Seq(Manifest), NEW m \in Manifest,
         Verifies(entries), Stored(m),
         m.sequence = Len(entries), m.previous = LastHash(entries)
  PROVE  Verifies(Append(entries, m))
<1> DEFINE longer == Append(entries, m)
<1>1. Len(longer) = Len(entries) + 1
  OBVIOUS
<1>2. SUFFICES ASSUME NEW i \in 1..Len(longer)
               PROVE  Linked(longer, i) /\ Stored(longer[i])
  BY DEF Verifies
<1>3. CASE i <= Len(entries)
  <2>1. longer[i] = entries[i] /\ (i > 1 => longer[i - 1] = entries[i - 1])
    BY <1>3
  <2>2. Linked(entries, i) /\ Stored(entries[i])
    BY <1>3 DEF Verifies
  <2> QED BY <2>1, <2>2 DEF Linked
<1>4. CASE i = Len(entries) + 1
  <2>1. longer[i] = m
    BY <1>4
  <2>2. m.previous = IF i = 1 THEN Genesis ELSE longer[i - 1].manifest_hash
    BY <1>4 DEF LastHash
  <2> QED BY <1>4, <2>1, <2>2 DEF Linked
<1> QED BY <1>1, <1>3, <1>4

(* A file name belongs to the writer that drafted its manifest.            *)
LEMMA NamesApart ==
  ASSUME NEW m, NEW n, m.by # n.by
  PROVE  Pair(m) \cap Pair(n) = {}
BY DEF Pair, Json, Markdown

(* A new ledger directory with no append under way satisfies it.           *)
LEMMA InitInv == LedgerInit => LedgerInv
<1> SUFFICES ASSUME LedgerInit PROVE LedgerInv
  OBVIOUS
<1> USE DEF LedgerInit
<1>1. LedgerTypeOK
  <2>1. \A w \in Writers : NoDraft(w) \in Manifest
    BY NewManifestType, NoEntriesFacts, LedgerAssumption DEF NoDraft
  <2>3. Idle \in [at: Nat, entries: Seq(Manifest), previous: Digest,
                  errors: SUBSET VerifyErrors]
    BY NoEntriesFacts DEF Idle
  <2>4. NoIndex \in [entries: Seq(Manifest), size: Nat]
    BY NoEntriesFacts DEF NoIndex, Size
  <2> QED BY <2>1, <2>3, <2>4, NoEntriesFacts DEF LedgerTypeOK, Steps
<1>2. \A w \in Writers : PairInv(w) /\ DraftInv(w)
  BY NoEntriesFacts DEF PairInv, DraftInv, NoDraft, NewManifest
<1>3. \A r \in Readers : ReaderInv(r)
  BY NoEntriesFacts DEF ReaderInv, Idle
<1> QED BY <1>1, <1>2, <1>3, NoEntriesFacts DEF LedgerInv, NoIndex, ReceiptsKeepTheirFiles

(* No step loses a complete file: a file is only ever opened by the writer *)
(* whose draft it stores, and only while it does not exist.                *)
LEMMA WholeGrows ==
  ASSUME LedgerInv, LedgerNext
  PROVE  whole \subseteq whole'
<1> USE DEF LedgerInv, LedgerTypeOK
<1>1. ASSUME NEW w \in Writers, OpenJson(w) PROVE whole \subseteq whole'
  BY <1>1 DEF OpenJson, NamesAreFree, Pair
<1>2. ASSUME NEW w \in Writers, OpenMarkdown(w) PROVE whole \subseteq whole'
  BY <1>2 DEF OpenMarkdown, Transition, PairInv
<1> QED
  BY <1>1, <1>2 DEF LedgerNext, WriterStep, ReaderStep, ReadIndex, ReadIndexRaises,
     RefuseOverwrite, WriteJson, WriteMarkdown, OpenIndex, WriteIndex, Fail,
     BeginVerify, VerifyEntry, EndVerify

(* Every step keeps every variable in its type.                            *)
LEMMA TypeStep ==
  ASSUME LedgerInv, LedgerNext
  PROVE  LedgerTypeOK'
<1>a. LedgerTypeOK /\ \A w \in Writers : PairInv(w)
  BY DEF LedgerInv
<1> USE <1>a DEF LedgerTypeOK
<1> USE NoEntriesFacts
<1>0. \A w \in Writers : NoDraft(w) \in Manifest
  BY NewManifestType, NoEntriesFacts, LedgerAssumption DEF NoDraft
<1>1. ASSUME NEW w \in Writers, NEW body \in Bodies, ReadIndex(w, body)
      PROVE  LedgerTypeOK'
  <2>1. NewManifest(index.entries, w, body) \in Manifest
    BY NewManifestType
  <2> QED BY <1>1, <2>1 DEF ReadIndex, Transition, Steps
<1>2. ASSUME NEW w \in Writers, ReadIndexRaises(w) PROVE LedgerTypeOK'
  BY <1>2 DEF ReadIndexRaises
<1>3. ASSUME NEW w \in Writers, RefuseOverwrite(w) PROVE LedgerTypeOK'
  BY <1>0, <1>3 DEF RefuseOverwrite, Leave, Steps
<1>4. ASSUME NEW w \in Writers, OpenJson(w) PROVE LedgerTypeOK'
  BY <1>4 DEF OpenJson, Transition, Steps, Json, FileNames
<1>5. ASSUME NEW w \in Writers, WriteJson(w) \/ WriteMarkdown(w)
      PROVE  LedgerTypeOK'
  <2>1. whole' \subseteq present'
    BY <1>5 DEF WriteJson, WriteMarkdown, Transition, PairInv
  <2> QED
    BY <1>5, <2>1 DEF WriteJson, WriteMarkdown, Transition, Steps
<1>6. ASSUME NEW w \in Writers, OpenMarkdown(w) PROVE LedgerTypeOK'
  BY <1>6 DEF OpenMarkdown, Transition, Steps, Markdown, FileNames
<1>7. ASSUME NEW w \in Writers, OpenIndex(w) PROVE LedgerTypeOK'
  BY <1>7 DEF OpenIndex, Transition, Steps
<1>8. ASSUME NEW w \in Writers, WriteIndex(w) PROVE LedgerTypeOK'
  <2>1. Append(base[w], draft[w]) \in Seq(Manifest)
    OBVIOUS
  <2>2. index' \in [entries: Seq(Manifest), size: Nat]
    BY <1>8, <2>1 DEF WriteIndex, Written, NewEntries, Size
  <2> QED BY <1>0, <1>8, <2>2 DEF WriteIndex, Leave, Steps
<1>9. ASSUME NEW w \in Writers, Fail(w) PROVE LedgerTypeOK'
  BY <1>0, <1>9 DEF Fail, Leave, Steps
<1>10. ASSUME NEW r \in Readers, BeginVerify(r) PROVE LedgerTypeOK'
  <2>1. reader'[r] \in [at: Nat, entries: Seq(Manifest), previous: Digest,
                        errors: SUBSET VerifyErrors]
    BY <1>10 DEF BeginVerify, Idle, VerifyErrors
  <2> QED BY <1>10, <2>1 DEF BeginVerify
<1>11. ASSUME NEW r \in Readers, VerifyEntry(r) PROVE LedgerTypeOK'
  <2> DEFINE item == reader[r].entries[reader[r].at]
  <2>1. item \in Manifest /\ item.manifest_hash \in Digest
    <3>1. reader[r].entries \in Seq(Manifest)
      OBVIOUS
    <3>2. reader[r].at \in 1..Len(reader[r].entries)
      BY <1>11 DEF VerifyEntry
    <3>3. item \in Manifest
      BY <3>1, <3>2
    <3> QED BY <3>3 DEF Manifest
  <2>2. EntryErrors(reader[r]) \subseteq VerifyErrors
    BY DEF EntryErrors, VerifyErrors
  <2>3. reader'[r] \in [at: Nat, entries: Seq(Manifest), previous: Digest,
                        errors: SUBSET VerifyErrors]
    BY <1>11, <2>1, <2>2 DEF VerifyEntry
  <2> QED BY <1>11, <2>3 DEF VerifyEntry
<1>12. ASSUME NEW r \in Readers, EndVerify(r) PROVE LedgerTypeOK'
  BY <1>12 DEF EndVerify, Idle, VerifyErrors
<1> QED
  BY <1>1, <1>2, <1>3, <1>4, <1>5, <1>6, <1>7, <1>8, <1>9, <1>10, <1>11, <1>12
     DEF LedgerNext, WriterStep, ReaderStep

(* The index always holds the entries some writer read and its own.        *)
LEMMA IndexStep ==
  ASSUME LedgerInv, LedgerNext
  PROVE  Verifies(index.entries)'
<1>1. whole \subseteq whole'
  BY WholeGrows
<1>2. CASE UNCHANGED index
  BY <1>1, <1>2 DEF LedgerInv, Verifies, Linked, Stored
<1>3. ASSUME NEW w \in Writers, OpenIndex(w) PROVE Verifies(index.entries)'
  BY <1>3, NoEntriesFacts DEF OpenIndex, Verifies
<1>4. ASSUME NEW w \in Writers, WriteIndex(w) PROVE Verifies(index.entries)'
  <2>1. base[w] \in Seq(Manifest) /\ draft[w] \in Manifest
    BY DEF LedgerInv, LedgerTypeOK
  <2>2. Verifies(Append(base[w], draft[w]))
    BY <1>4, <2>1, VerifiesAppend DEF WriteIndex, LedgerInv, PairInv, DraftInv
  <2>3. index'.entries = Append(base[w], draft[w]) /\ whole' = whole
    BY <1>4 DEF WriteIndex, NewEntries, Written
  <2> QED BY <2>2, <2>3 DEF Verifies, Linked, Stored
<1> QED
  BY <1>2, <1>3, <1>4 DEF LedgerNext, WriterStep, ReaderStep, ReadIndex,
     ReadIndexRaises, RefuseOverwrite, OpenJson, WriteJson, OpenMarkdown,
     WriteMarkdown, Fail, BeginVerify, VerifyEntry, EndVerify

(* A writer's step changes what PairInv says of that writer only; the      *)
(* other writers' drafts name other files.                                 *)
LEMMA PairStep ==
  ASSUME LedgerInv, LedgerNext, NEW u \in Writers
  PROVE  PairInv(u)'
<1>1. /\ whole \subseteq present /\ PairInv(u) /\ pc \in [Writers -> Steps]
      /\ \A w \in Writers : draft[w].by = w
      /\ draft \in [Writers -> Manifest]
  BY DEF LedgerInv, LedgerTypeOK, DraftInv
<1>2. \A w \in Writers : w # u =>
        /\ Json(draft[w]) \notin Pair(draft[u])
        /\ Markdown(draft[w]) \notin Pair(draft[u])
  BY <1>1, NamesApart DEF Pair
<1> USE <1>1, <1>2 DEF PairInv, Pair, Stored
<1>3. ASSUME NEW w \in Writers, NEW body \in Bodies, ReadIndex(w, body)
      PROVE  PairInv(u)'
  BY <1>3 DEF ReadIndex, Transition
<1>4. ASSUME NEW w \in Writers, ReadIndexRaises(w) PROVE PairInv(u)'
  BY <1>4 DEF ReadIndexRaises
<1>5. ASSUME NEW w \in Writers, RefuseOverwrite(w) \/ WriteIndex(w) \/ Fail(w)
      PROVE  PairInv(u)'
  BY <1>5 DEF RefuseOverwrite, WriteIndex, Fail, Leave
<1>6. ASSUME NEW w \in Writers, OpenJson(w) PROVE PairInv(u)'
  BY <1>6 DEF OpenJson, NamesAreFree, Transition, Json, Markdown
<1>7. ASSUME NEW w \in Writers, WriteJson(w) PROVE PairInv(u)'
  BY <1>7 DEF WriteJson, Transition
<1>8. ASSUME NEW w \in Writers, OpenMarkdown(w) PROVE PairInv(u)'
  BY <1>8 DEF OpenMarkdown, Transition, Json, Markdown
<1>9. ASSUME NEW w \in Writers, WriteMarkdown(w) PROVE PairInv(u)'
  BY <1>9 DEF WriteMarkdown, Transition
<1>10. ASSUME NEW w \in Writers, OpenIndex(w) PROVE PairInv(u)'
  BY <1>10 DEF OpenIndex, Transition
<1>11. ASSUME NEW r \in Readers, ReaderStep(r) PROVE PairInv(u)'
  BY <1>11 DEF ReaderStep, BeginVerify, VerifyEntry, EndVerify
<1> QED
  BY <1>3, <1>4, <1>5, <1>6, <1>7, <1>8, <1>9, <1>10, <1>11
     DEF LedgerNext, WriterStep

(* What a writer holds was read from an index that verified.               *)
LEMMA DraftStep ==
  ASSUME LedgerInv, LedgerNext, NEW u \in Writers
  PROVE  DraftInv(u)'
<1>1. /\ pc \in [Writers -> Steps] /\ draft \in [Writers -> Manifest]
      /\ base \in [Writers -> Seq(Manifest)]
      /\ DraftInv(u) /\ Verifies(index.entries)
  BY DEF LedgerInv, LedgerTypeOK
<1>2. whole \subseteq whole'
  BY WholeGrows
<1> USE <1>1, <1>2
<1>3. CASE UNCHANGED <<base[u], draft[u]>> /\ (pc'[u] # "idle" => pc[u] # "idle")
  BY <1>3 DEF DraftInv, Verifies, Linked, Stored
<1>4. ASSUME NEW w \in Writers, NEW body \in Bodies, ReadIndex(w, body)
      PROVE  DraftInv(u)'
  <2>1. CASE u = w
    <3>1. base'[u] = index.entries /\ draft'[u] = NewManifest(index.entries, u, body)
      BY <1>4, <2>1 DEF ReadIndex
    <3>2. Verifies(base[u])'
      BY <3>1 DEF Verifies, Linked, Stored
    <3> QED BY <3>1, <3>2 DEF DraftInv, NewManifest
  <2>2. CASE u # w
    BY <1>3, <1>4, <2>2 DEF ReadIndex, Transition
  <2> QED BY <2>1, <2>2
<1>5. ASSUME NEW w \in Writers, RefuseOverwrite(w) \/ WriteIndex(w) \/ Fail(w)
      PROVE  DraftInv(u)'
  <2>1. Leave(w)
    BY <1>5 DEF RefuseOverwrite, WriteIndex, Fail
  <2>2. CASE u = w
    <3>1. base'[u] = NoEntries /\ draft'[u].by = u /\ pc'[u] = "idle"
      BY <2>1, <2>2 DEF Leave, NoDraft, NewManifest
    <3> QED BY <3>1, NoEntriesFacts DEF DraftInv, Verifies
  <2>3. CASE u # w
    BY <1>3, <2>1, <2>3 DEF Leave
  <2> QED BY <2>2, <2>3
<1>6. ASSUME NEW w \in Writers,
             OpenJson(w) \/ WriteJson(w) \/ OpenMarkdown(w) \/ WriteMarkdown(w)
               \/ OpenIndex(w) \/ ReadIndexRaises(w)
      PROVE  DraftInv(u)'
  BY <1>3, <1>6 DEF OpenJson, WriteJson, OpenMarkdown, WriteMarkdown, OpenIndex,
     ReadIndexRaises, Transition
<1>7. ASSUME NEW r \in Readers, ReaderStep(r) PROVE DraftInv(u)'
  BY <1>3, <1>7 DEF ReaderStep, BeginVerify, VerifyEntry, EndVerify
<1> QED BY <1>4, <1>5, <1>6, <1>7 DEF LedgerNext, WriterStep

(* A verify in progress finds every entry of its snapshot as it should be. *)
LEMMA ReaderInvStep ==
  ASSUME LedgerInv, LedgerNext, NEW q \in Readers
  PROVE  ReaderInv(q)'
<1> DEFINE Reading == [at: Nat, entries: Seq(Manifest), previous: Digest,
                       errors: SUBSET VerifyErrors]
<1>1. /\ reader \in [Readers -> Reading] /\ reader[q] \in Reading
      /\ index.entries \in Seq(Manifest)
      /\ ReaderInv(q) /\ Verifies(index.entries) /\ whole \subseteq present
  BY DEF LedgerInv, LedgerTypeOK
<1>2. whole \subseteq whole'
  BY WholeGrows
<1>3. CASE reader'[q] = reader[q]
  BY <1>1, <1>2, <1>3 DEF ReaderInv, Verifies, Linked, Stored
<1>4. CASE reader'[q] = Idle
  BY <1>4, NoEntriesFacts DEF ReaderInv, Idle, Verifies
<1>5. CASE BeginVerify(q)
  <2>1. CASE Readable(index)
    <3>1. reader'[q] = [Idle EXCEPT !.at = 1, !.entries = index.entries]
      BY <1>1, <1>5, <2>1 DEF BeginVerify
    <3>2. /\ reader'[q].at = 1 /\ reader'[q].entries = index.entries
          /\ reader'[q].previous = Genesis /\ reader'[q].errors = {}
      BY <3>1 DEF Idle
    <3> QED BY <1>1, <1>2, <3>2 DEF ReaderInv, Verifies, Linked, Stored
  <2>2. CASE ~Readable(index)
    <3>1. /\ reader'[q].at = 0 /\ reader'[q].entries = NoEntries
          /\ reader'[q].errors = {"index_unreadable"}
      BY <1>1, <1>5, <2>2 DEF BeginVerify, Idle
    <3> QED BY <3>1, NoEntriesFacts DEF ReaderInv, Verifies
  <2> QED BY <2>1, <2>2
<1>6. CASE VerifyEntry(q)
  <2> DEFINE rd == reader[q]
             item == rd.entries[rd.at]
  <2>1. rd.at \in 1..Len(rd.entries)
    BY <1>6 DEF VerifyEntry
  <2>2. Linked(rd.entries, rd.at) /\ Pair(item) \subseteq whole
    BY <1>1, <2>1 DEF ReaderInv, Verifies, Stored
  <2>3. item.sequence = rd.at - 1 /\ item.previous = rd.previous
    BY <1>1, <2>1, <2>2 DEF Linked, ReaderInv
  <2>4. Pair(item) \subseteq present /\ Json(item) \in whole /\ Markdown(item) \in whole
    BY <1>1, <2>2 DEF Pair
  <2>5. EntryErrors(rd) = {}
    BY <2>3, <2>4 DEF EntryErrors
  <2>6. /\ reader'[q].at = rd.at + 1 /\ reader'[q].entries = rd.entries
        /\ reader'[q].previous = item.manifest_hash
        /\ reader'[q].errors = rd.errors
    BY <1>1, <1>6, <2>4, <2>5 DEF VerifyEntry
  <2>7. Verifies(rd.entries)'
    BY <1>1, <1>2, <1>6, <2>6 DEF ReaderInv, Verifies, Linked, Stored
  <2>8. Verifies(reader[q].entries)'
    BY <2>6, <2>7 DEF Verifies, Linked, Stored
  <2>9. reader'[q].at <= Len(reader'[q].entries) + 1
    BY <1>1, <2>1, <2>6
  <2>10. reader'[q].at # 1 /\ reader'[q].at - 1 = rd.at
    BY <1>1, <2>1, <2>6
  <2>11. rd.errors \subseteq {"index_unreadable"}
    BY <1>1 DEF ReaderInv
  <2> QED BY <2>6, <2>8, <2>9, <2>10, <2>11 DEF ReaderInv
<1>7. ASSUME NEW r \in Readers, ReaderStep(r) PROVE ReaderInv(q)'
  BY <1>1, <1>3, <1>4, <1>5, <1>6, <1>7
     DEF ReaderStep, BeginVerify, VerifyEntry, EndVerify
<1>8. ASSUME NEW w \in Writers, WriterStep(w) \/ Fail(w) PROVE ReaderInv(q)'
  BY <1>3, <1>8 DEF WriterStep, ReadIndex, ReadIndexRaises, RefuseOverwrite, OpenJson,
     WriteJson, OpenMarkdown, WriteMarkdown, OpenIndex, WriteIndex, Fail
<1> QED BY <1>7, <1>8 DEF LedgerNext

(* A receipt is issued for a stored manifest, and stays stored.            *)
LEMMA ReceiptStep ==
  ASSUME LedgerInv, LedgerNext
  PROVE  ReceiptsKeepTheirFiles'
<1>1. whole \subseteq whole'
  BY WholeGrows
<1>2. ASSUME NEW w \in Writers, WriteIndex(w) PROVE ReceiptsKeepTheirFiles'
  BY <1>2 DEF WriteIndex, LedgerInv, PairInv, ReceiptsKeepTheirFiles, Stored
<1>3. CASE UNCHANGED receipts
  BY <1>1, <1>3 DEF LedgerInv, ReceiptsKeepTheirFiles, Stored
<1> QED
  BY <1>2, <1>3 DEF LedgerNext, WriterStep, ReaderStep, ReadIndex, ReadIndexRaises,
     RefuseOverwrite, OpenJson, WriteJson, OpenMarkdown, WriteMarkdown, OpenIndex,
     Fail, BeginVerify, VerifyEntry, EndVerify

(* Nothing LedgerInv says depends on more than the ledger's own variables. *)
LEMMA StutterInv ==
  ASSUME LedgerInv, UNCHANGED ledgerVars
  PROVE  LedgerInv'
<1> USE DEF LedgerInv, ledgerVars
<1>1. LedgerTypeOK'
  BY DEF LedgerTypeOK
<1>2. Verifies(index.entries)' /\ ReceiptsKeepTheirFiles'
  BY DEF Verifies, Linked, Stored, ReceiptsKeepTheirFiles
<1>3. ASSUME NEW w \in Writers PROVE PairInv(w)' /\ DraftInv(w)'
  BY DEF PairInv, DraftInv, Verifies, Linked, Stored
<1>4. ASSUME NEW r \in Readers PROVE ReaderInv(r)'
  BY DEF ReaderInv, Verifies, Linked, Stored
<1> QED BY <1>1, <1>2, <1>3, <1>4

(* The inductive invariant.                                                *)
THEOREM LedgerInvariant == LedgerSpec => []LedgerInv
<1>1. LedgerInit => LedgerInv
  BY InitInv
<1>2. LedgerInv /\ [LedgerNext]_ledgerVars => LedgerInv'
  BY TypeStep, IndexStep, PairStep, DraftStep, ReaderInvStep, ReceiptStep, StutterInv
     DEF LedgerInv
<1> QED BY <1>1, <1>2, PTL DEF LedgerSpec

(* Every variable keeps its type.                                          *)
THEOREM LedgerTypeCorrect == LedgerSpec => []LedgerTypeOK
<1>1. LedgerInv => LedgerTypeOK
  BY DEF LedgerInv
<1> QED BY <1>1, LedgerInvariant, PTL

(* An index that can be read lists a chain verify accepts, however the     *)
(* steps of any number of appends interleave and wherever they die.        *)
THEOREM ChainAlwaysVerifies == LedgerSpec => []ReadableIndexVerifies
<1>1. LedgerInv => ReadableIndexVerifies
  BY DEF LedgerInv, ReadableIndexVerifies
<1> QED BY <1>1, LedgerInvariant, PTL

(* verify never blames the files for a race with append or a crash in it.  *)
THEOREM VerifyNeverFalselyAlarms == LedgerSpec => []NoFalseAlarm
<1>1. LedgerInv => NoFalseAlarm
  BY DEF LedgerInv, ReaderInv, NoFalseAlarm
<1> QED BY <1>1, LedgerInvariant, PTL

(* The pair behind a receipt stays complete.                               *)
THEOREM ReceiptsAreKept == LedgerSpec => []ReceiptsKeepTheirFiles
<1>1. LedgerInv => ReceiptsKeepTheirFiles
  BY DEF LedgerInv
<1> QED BY <1>1, LedgerInvariant, PTL

(* No append ever truncates a complete file of the ledger.                 *)
THEOREM CompleteFilesStay == LedgerSpec => CompleteFilesAreKept
<1>1. LedgerInv /\ [LedgerNext]_ledgerVars => [whole \subseteq whole']_ledgerVars
  BY WholeGrows
<1> QED BY <1>1, LedgerInvariant, PTL DEF LedgerSpec, CompleteFilesAreKept

(* With no append under way an unreadable index stays unreadable: append   *)
(* raises before it touches a file, and verify writes nothing.             *)
THEOREM WreckIsPermanent == LedgerSpec => WreckedForever
<1>1. LedgerInv /\ [LedgerNext]_ledgerVars => [Wrecked => Wrecked']_ledgerVars
  <2> SUFFICES ASSUME LedgerNext, Wrecked PROVE Wrecked'
    OBVIOUS
  <2>1. \A w \in Writers : pc[w] = "idle"
    BY DEF Wrecked, InFlight
  <2>2. UNCHANGED <<index, pc>>
    BY <2>1 DEF Wrecked, LedgerNext, WriterStep, ReaderStep, ReadIndex, ReadIndexRaises,
       RefuseOverwrite, OpenJson, WriteJson, OpenMarkdown, WriteMarkdown, OpenIndex,
       WriteIndex, Fail, Transition, BeginVerify, VerifyEntry, EndVerify
  <2> QED BY <2>2 DEF Wrecked, InFlight, Readable
<1> QED BY <1>1, LedgerInvariant, PTL DEF LedgerSpec, WreckedForever

-----------------------------------------------------------------------------
(* Where only one process appends.                                         *)
OneWriter == \E w : Writers = {w}

BeforeIndex == {"drafted", "json_open", "json_written", "md_open", "md_written"}

Listed(m, entries) == \E i \in 1..Len(entries) : entries[i] = m

(* Nobody else writes the index, so what the writer read is what it is,    *)
(* until the writer itself empties it; it stays empty only by a failure;   *)
(* and the receipts are among the entries that are in the file, or in the  *)
(* hands of the one who is about to write it.                              *)
SoleInv(w) ==
  /\ pc[w] \in BeforeIndex => Readable(index) /\ base[w] = index.entries
  /\ pc[w] = "index_open" => index.size = 0
  /\ pc[w] = "idle" /\ ~Readable(index) => failures > 0
  /\ Readable(index) => \A m \in receipts : Listed(m, index.entries)
  /\ pc[w] = "index_open" => \A m \in receipts : Listed(m, base[w])

(* A text in an empty file can be read, and an empty file cannot.          *)
LEMMA IndexSizes ==
  ASSUME LedgerTypeOK
  PROVE  /\ index.size = 0 => ~Readable(index)
         /\ \A entries \in Seq(Manifest) : index.size = 0 =>
              Readable(Written(entries)) /\ Written(entries).entries = entries
<1>1. index.entries \in Seq(Manifest)
  BY DEF LedgerTypeOK
<1> QED BY <1>1 DEF Readable, Written, Size

(* What is listed stays listed in a longer list.                           *)
LEMMA ListedAppend ==
  ASSUME NEW entries \in Seq(Manifest), NEW m
  PROVE  /\ Listed(m, Append(entries, m))
         /\ \A n : Listed(n, entries) => Listed(n, Append(entries, m))
<1>1. Listed(m, Append(entries, m))
  <2>1. /\ Len(entries) + 1 \in 1..Len(Append(entries, m))
        /\ Append(entries, m)[Len(entries) + 1] = m
    OBVIOUS
  <2> QED BY <2>1 DEF Listed
<1>2. ASSUME NEW n, Listed(n, entries) PROVE Listed(n, Append(entries, m))
  <2>1. PICK i \in 1..Len(entries) : entries[i] = n
    BY <1>2 DEF Listed
  <2>2. i \in 1..Len(Append(entries, m)) /\ Append(entries, m)[i] = n
    BY <2>1
  <2> QED BY <2>2 DEF Listed
<1> QED BY <1>1, <1>2

(* A new ledger with its one writer idle satisfies it.                     *)
LEMMA SoleStart ==
  ASSUME NEW w \in Writers, LedgerInit
  PROVE  SoleInv(w)
BY DEF LedgerInit, SoleInv, BeforeIndex, NoIndex, Readable

(* The step of the one writer that writes the index.                       *)
LEMMA SoleWrite ==
  ASSUME LedgerInv, NEW w \in Writers, SoleInv(w), WriteIndex(w)
  PROVE  /\ ~Readable(index) /\ pc[w] = "index_open" /\ pc'[w] = "idle"
         /\ Readable(index') /\ index'.entries = Append(base[w], draft[w])
         /\ base[w] \in Seq(Manifest) /\ draft[w] \in Manifest
<1>1. LedgerTypeOK /\ base[w] \in Seq(Manifest) /\ draft[w] \in Manifest
  BY DEF LedgerInv, LedgerTypeOK
<1>2. Append(base[w], draft[w]) \in Seq(Manifest)
  BY <1>1
<1>3. /\ pc[w] = "index_open" /\ pc'[w] = "idle"
      /\ index' = Written(Append(base[w], draft[w]))
  BY <1>1 DEF WriteIndex, Leave, NewEntries, LedgerTypeOK
<1>4. index.size = 0
  BY <1>3 DEF SoleInv
<1> QED BY <1>1, <1>2, <1>3, <1>4, IndexSizes

(* Every step of a ledger with one writer keeps it.                        *)
LEMMA SoleStep ==
  ASSUME LedgerInv, NEW w, Writers = {w}, SoleInv(w), [LedgerNext]_ledgerVars
  PROVE  SoleInv(w)'
<1> USE DEF BeforeIndex
<1>0. LedgerTypeOK /\ w \in Writers /\ index.entries \in Seq(Manifest)
      /\ base[w] \in Seq(Manifest) /\ draft[w] \in Manifest
  BY DEF LedgerInv, LedgerTypeOK
<1>1. ASSUME NEW body \in Bodies, ReadIndex(w, body) PROVE SoleInv(w)'
  BY <1>0, <1>1 DEF ReadIndex, Transition, SoleInv, LedgerTypeOK
<1>2. CASE ReadIndexRaises(w)
  BY <1>2 DEF ReadIndexRaises, SoleInv
<1>3. CASE RefuseOverwrite(w)
  BY <1>0, <1>3 DEF RefuseOverwrite, Leave, SoleInv, LedgerTypeOK
<1>4. CASE OpenJson(w) \/ WriteJson(w) \/ OpenMarkdown(w) \/ WriteMarkdown(w)
  BY <1>0, <1>4 DEF OpenJson, WriteJson, OpenMarkdown, WriteMarkdown, Transition, SoleInv,
                    LedgerTypeOK
<1>5. CASE OpenIndex(w)
  <2>1. /\ pc[w] = "md_written" /\ pc'[w] = "index_open"
        /\ index'.size = 0 /\ index'.entries = NoEntries
        /\ UNCHANGED <<base, receipts, failures>>
    BY <1>0, <1>5 DEF OpenIndex, Transition, LedgerTypeOK
  <2>2. ~Readable(index')
    BY <2>1, NoEntriesFacts DEF Readable, Size
  <2>3. \A m \in receipts : Listed(m, base[w])
    BY <2>1 DEF SoleInv
  <2> QED BY <2>1, <2>2, <2>3 DEF SoleInv
<1>6. CASE WriteIndex(w)
  <2>1. /\ pc[w] = "index_open" /\ pc'[w] = "idle"
        /\ Readable(index') /\ index'.entries = Append(base[w], draft[w])
    BY <1>0, <1>6, SoleWrite
  <2>2. receipts' = receipts \cup {draft[w]}
    BY <1>6 DEF WriteIndex
  <2>3. \A m \in receipts' : Listed(m, index'.entries)
    BY <1>0, <2>1, <2>2, ListedAppend DEF SoleInv
  <2> QED BY <2>1, <2>3 DEF SoleInv
<1>7. CASE Fail(w)
  BY <1>0, <1>7 DEF Fail, Leave, SoleInv, LedgerTypeOK
<1>8. ASSUME NEW r \in Readers, ReaderStep(r) PROVE SoleInv(w)'
  BY <1>8 DEF ReaderStep, BeginVerify, VerifyEntry, EndVerify, SoleInv
<1>9. CASE UNCHANGED ledgerVars
  BY <1>9 DEF ledgerVars, SoleInv
<1> QED BY <1>1, <1>2, <1>3, <1>4, <1>5, <1>6, <1>7, <1>8, <1>9 DEF LedgerNext, WriterStep

(* It holds in every state of a ledger with one writer.                    *)
THEOREM SoleInvariant == OneWriter /\ LedgerSpec => [](\A w \in Writers : SoleInv(w))
<1> SUFFICES ASSUME OneWriter PROVE LedgerSpec => [](\A w \in Writers : SoleInv(w))
  OBVIOUS
<1>1. LedgerInit => \A w \in Writers : SoleInv(w)
  BY SoleStart
<1>2. LedgerInv /\ (\A w \in Writers : SoleInv(w)) /\ [LedgerNext]_ledgerVars
        => (\A w \in Writers : SoleInv(w))'
  <2> SUFFICES ASSUME LedgerInv, \A w \in Writers : SoleInv(w), [LedgerNext]_ledgerVars,
                      NEW w, Writers = {w}
               PROVE  SoleInv(w)'
    BY DEF OneWriter
  <2> QED BY SoleStep
<1> QED BY <1>1, <1>2, LedgerInvariant, PTL DEF LedgerSpec

(* With one writer every manifest a caller was given is in the index,      *)
(* whenever it can be read.                                                *)
THEOREM ReceiptsAreIndexed == OneWriter /\ LedgerSpec => []ReceiptsStayIndexed
<1> SUFFICES ASSUME OneWriter PROVE LedgerSpec => []ReceiptsStayIndexed
  OBVIOUS
<1>1. (\A w \in Writers : SoleInv(w)) => ReceiptsStayIndexed
  BY DEF OneWriter, SoleInv, Listed, ReceiptsStayIndexed
<1> QED BY <1>1, SoleInvariant, PTL

(* With one writer the index is left unreadable by failures only.          *)
THEOREM OnlyFailuresEverWreck == OneWriter /\ LedgerSpec => []OnlyFailuresWreck
<1> SUFFICES ASSUME OneWriter PROVE LedgerSpec => []OnlyFailuresWreck
  OBVIOUS
<1>1. LedgerTypeOK /\ (\A w \in Writers : SoleInv(w)) => OnlyFailuresWreck
  BY DEF OneWriter, SoleInv, OnlyFailuresWreck, Wrecked, InFlight
<1> QED BY <1>1, SoleInvariant, LedgerTypeCorrect, PTL

-----------------------------------------------------------------------------
(* The log of a ledger with one writer, by where the writer is.            *)
LEMMA LogOfOne ==
  ASSUME NEW w, Writers = {w}
  PROVE  /\ Readable(index) => recorded = index.entries /\ index_lost = FALSE
         /\ ~Readable(index) /\ pc[w] = "index_open" => recorded = base[w] /\ index_lost = FALSE
         /\ ~Readable(index) /\ pc[w] # "index_open" => recorded = NoEntries /\ index_lost = TRUE
<1>1. pc[w] = "index_open" => Rewriting = {w}
  BY DEF Rewriting
<1>2. pc[w] # "index_open" => Rewriting = {}
  BY DEF Rewriting
<1>3. index_lost \in BOOLEAN
  BY DEF index_lost
<1>4. (CHOOSE v \in {w} : TRUE) = w
  OBVIOUS
<1> QED BY <1>1, <1>2, <1>3, <1>4 DEF recorded, index_lost

(* The same of the state after a step.                                     *)
LEMMA LogOfOneThen ==
  ASSUME NEW w, Writers = {w}
  PROVE  /\ Readable(index') => recorded' = index'.entries /\ index_lost' = FALSE
         /\ ~Readable(index') /\ pc'[w] = "index_open" =>
              recorded' = base'[w] /\ index_lost' = FALSE
         /\ ~Readable(index') /\ pc'[w] # "index_open" =>
              recorded' = NoEntries /\ index_lost' = TRUE
<1>1. pc'[w] = "index_open" => Rewriting' = {w}
  BY DEF Rewriting
<1>2. pc'[w] # "index_open" => Rewriting' = {}
  BY DEF Rewriting
<1>3. index_lost' \in BOOLEAN
  BY DEF index_lost
<1>4. (CHOOSE v \in {w} : TRUE) = w
  OBVIOUS
<1> QED BY <1>1, <1>2, <1>3, <1>4 DEF recorded, index_lost, Readable

(* A step of the one writer appends a record, loses the log or is none of  *)
(* the log's.                                                              *)
LEMMA LogStep ==
  ASSUME LedgerInv, NEW w, Writers = {w}, SoleInv(w), [LedgerNext]_ledgerVars
  PROVE  [Log!LogNext]_<<recorded, index_lost>>
<1>0. LedgerTypeOK /\ w \in Writers /\ index.entries \in Seq(Manifest)
      /\ base[w] \in Seq(Manifest) /\ draft[w] \in Manifest
  BY DEF LedgerInv, LedgerTypeOK
<1>1. CASE index' = index /\ (pc'[w] = "index_open" <=> pc[w] = "index_open")
           /\ (pc[w] = "index_open" => base'[w] = base[w])
  <2>1. recorded' = recorded /\ index_lost' = index_lost
    <3>1. CASE Readable(index)
      <4>1. Readable(index')
        BY <1>1, <3>1
      <4> QED BY <1>1, <3>1, <4>1, LogOfOne, LogOfOneThen
    <3>2. CASE ~Readable(index)
      <4>1. ~Readable(index')
        BY <1>1, <3>2
      <4>2. CASE pc[w] = "index_open"
        <5>1. pc'[w] = "index_open" /\ base'[w] = base[w]
          BY <1>1, <4>2
        <5>2. recorded = base[w] /\ index_lost = FALSE
          BY <3>2, <4>2, LogOfOne
        <5>3. recorded' = base'[w] /\ index_lost' = FALSE
          BY <4>1, <5>1, LogOfOneThen
        <5> QED BY <5>1, <5>2, <5>3
      <4>3. CASE pc[w] # "index_open"
        BY <1>1, <3>2, <4>1, <4>3, LogOfOne, LogOfOneThen
      <4> QED BY <4>2, <4>3
    <3> QED BY <3>1, <3>2
  <2> QED BY <2>1
<1>2. CASE OpenIndex(w)
  <2>1. /\ pc[w] = "md_written" /\ pc'[w] = "index_open" /\ base' = base
        /\ index'.size = 0 /\ index'.entries = NoEntries
    BY <1>0, <1>2 DEF OpenIndex, Transition, LedgerTypeOK
  <2>2. ~Readable(index')
    BY <2>1, NoEntriesFacts DEF Readable, Size
  <2>3. Readable(index) /\ base[w] = index.entries
    BY <2>1 DEF SoleInv, BeforeIndex
  <2> QED BY <2>1, <2>2, <2>3, LogOfOne, LogOfOneThen
<1>3. CASE WriteIndex(w)
  <2>1. /\ ~Readable(index) /\ pc[w] = "index_open"
        /\ Readable(index') /\ index'.entries = Append(base[w], draft[w])
    BY <1>0, <1>3, SoleWrite
  <2>2. /\ recorded = base[w] /\ index_lost = FALSE
        /\ recorded' = Append(base[w], draft[w]) /\ index_lost' = FALSE
    BY <2>1, LogOfOne, LogOfOneThen
  <2>3. draft[w].sequence = Len(base[w]) /\ draft[w].previous = LastHash(base[w])
    BY <1>0, <2>1 DEF LedgerInv, DraftInv
  <2>4. base[w] # <<>> => draft[w].previous = base[w][Len(base[w])].manifest_hash
    BY <1>0, <2>3 DEF LastHash
  <2>5. /\ Len(Append(base[w], draft[w])) = Len(base[w]) + 1
        /\ SubSeq(Append(base[w], draft[w]), 1, Len(base[w])) = base[w]
        /\ Append(base[w], draft[w])[Len(base[w]) + 1] = draft[w]
    BY <1>0
  <2>6. Log!AppendRecord
    BY <2>2, <2>3, <2>4, <2>5 DEF Log!AppendRecord
  <2> QED BY <2>6 DEF Log!LogNext
<1>4. CASE Fail(w)
  <2>1. index' = index /\ pc'[w] = "idle"
    BY <1>0, <1>4 DEF Fail, Leave, LedgerTypeOK
  <2>2. CASE pc[w] = "index_open"
    <3>1. ~Readable(index)
      BY <1>0, <2>2, IndexSizes DEF SoleInv
    <3>2. Log!Lose
      BY <2>1, <2>2, <3>1, LogOfOne, LogOfOneThen DEF Log!Lose, NoEntries
    <3> QED BY <3>2 DEF Log!LogNext
  <2>3. CASE pc[w] # "index_open"
    BY <2>1, <2>3, <1>1
  <2> QED BY <2>2, <2>3
<1>5. ASSUME NEW body \in Bodies, ReadIndex(w, body) PROVE [Log!LogNext]_<<recorded, index_lost>>
  BY <1>0, <1>1, <1>5 DEF ReadIndex, Transition, LedgerTypeOK
<1>6. CASE ReadIndexRaises(w) \/ RefuseOverwrite(w)
  BY <1>0, <1>1, <1>6 DEF ReadIndexRaises, RefuseOverwrite, Leave, LedgerTypeOK
<1>7. CASE OpenJson(w) \/ WriteJson(w) \/ OpenMarkdown(w) \/ WriteMarkdown(w)
  BY <1>0, <1>1, <1>7
     DEF OpenJson, WriteJson, OpenMarkdown, WriteMarkdown, Transition, LedgerTypeOK
<1>8. ASSUME NEW r \in Readers, ReaderStep(r) PROVE [Log!LogNext]_<<recorded, index_lost>>
  BY <1>1, <1>8 DEF ReaderStep, BeginVerify, VerifyEntry, EndVerify
<1>9. CASE UNCHANGED ledgerVars
  BY <1>1, <1>9 DEF ledgerVars
<1> QED BY <1>2, <1>3, <1>4, <1>5, <1>6, <1>7, <1>8, <1>9 DEF LedgerNext, WriterStep

(* A ledger with one writer is an append-only log to its caller: every     *)
(* record is numbered and linked by the log it extends, and nothing is     *)
(* rewritten or lost unless a failure in the index write loses it all.     *)
THEOREM OneWriterKeepsALog == OneWriter /\ LedgerSpec => ImplementsAppendOnlyLog
<1> SUFFICES ASSUME OneWriter PROVE LedgerSpec => ImplementsAppendOnlyLog
  OBVIOUS
<1>1. LedgerInit => Log!LogInit
  <2> SUFFICES ASSUME LedgerInit PROVE Log!LogInit
    OBVIOUS
  <2>1. Readable(index) /\ index.entries = <<>>
    BY DEF LedgerInit, NoIndex, Readable, NoEntries
  <2>2. PICK w : Writers = {w}
    BY DEF OneWriter
  <2> QED BY <2>1, <2>2, LogOfOne DEF Log!LogInit
<1>2. LedgerInv /\ (\A w \in Writers : SoleInv(w)) /\ [LedgerNext]_ledgerVars
        => [Log!LogNext]_<<recorded, index_lost>>
  <2> SUFFICES ASSUME LedgerInv, \A w \in Writers : SoleInv(w), [LedgerNext]_ledgerVars,
                      NEW w, Writers = {w}
               PROVE  [Log!LogNext]_<<recorded, index_lost>>
    BY DEF OneWriter
  <2> QED BY LogStep
<1> QED BY <1>1, <1>2, LedgerInvariant, SoleInvariant, PTL
        DEF LedgerSpec, ImplementsAppendOnlyLog, Log!LogSpec
=============================================================================
