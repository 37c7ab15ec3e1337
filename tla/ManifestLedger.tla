--------------------------- MODULE ManifestLedger ---------------------------
(***************************************************************************)
(* The permanent manifest ledger of src/src/mvpc/nexus/manifest_ledger.py: *)
(* a directory that holds a JSON/Markdown pair per manifest and one index  *)
(* file that lists them in order.  The code takes no lock, so the model    *)
(* lets any number of processes append to one directory, lets each of them *)
(* die between any two file operations, and lets other processes verify    *)
(* the directory meanwhile.                                                *)
(*                                                                         *)
(* Path.write_text is an open that truncates followed by one write: two    *)
(* steps here.  A write puts its bytes at the start of the file, so when   *)
(* another process has meanwhile written a longer text the tail of that    *)
(* text remains.  A text is abstracted to its value and its size.          *)
(*                                                                         *)
(* SHA-256 is collision free: the digest of a manifest that names the      *)
(* digest of its predecessor is the path of manifests back to genesis.     *)
(***************************************************************************)
EXTENDS Naturals, Sequences

CONSTANTS
  Writers,      \* processes that call append
  Readers,      \* processes that call verify
  Bodies,       \* what a call hashes besides the chain: time, status, payload
  MaxCalls,     \* bound: calls of append over a behaviour
  MaxFailures   \* bound: crashes and write errors over a behaviour

ASSUME LedgerAssumption ==
  Bodies # {} /\ MaxCalls \in Nat /\ MaxFailures \in Nat

VARIABLES
  index,     \* the index file: the entries it was last given and its size
  present,   \* files <<manifest, extension>> that exist
  whole,     \* the files among them whose text is complete
  pc,        \* where each writer is in append
  base,      \* the entries each writer read from the index
  draft,     \* the manifest each writer is storing
  receipts,  \* manifests whose append returned to its caller
  reader,    \* each verify call: its snapshot, position and findings
  calls, failures

ledgerVars == <<index, present, whole, pc, base, draft, receipts, reader,
                calls, failures>>

Genesis == <<>>
Digest == Seq(Nat \X Writers \X Bodies)

(***************************************************************************)
(* "by" stands for what tells two processes' manifests apart: created_at   *)
(* in microseconds and the fingerprint capture times in the payload.  One  *)
(* process may hash equal bodies twice (a repeated call, a stepped clock). *)
(***************************************************************************)
Manifest == [sequence: Nat, previous: Digest, by: Writers, body: Bodies,
             manifest_hash: Digest]

hash_canonical(sequence, previous, w, body) ==
  Append(previous, <<sequence, w, body>>)

Json(m) == <<m, "json">>
Markdown(m) == <<m, "md">>
Pair(m) == {Json(m), Markdown(m)}

(* The size of the text of an index, counted in entries plus the frame.    *)
Size(entries) == Len(entries) + 1

(* What json.loads accepts: neither the empty file an open leaves behind   *)
(* nor a text with the tail of a longer one after it.  A missing file      *)
(* reads as no entries, so it is represented by that text.                 *)
Readable(ix) == ix.size = Size(ix.entries)

NoEntries == <<>>

NoIndex == [entries |-> NoEntries, size |-> Size(NoEntries)]

(* Mutation: the new manifest links to the first entry, not to the last.   *)
FirstHash(entries) ==
  IF Len(entries) = 0 THEN Genesis ELSE entries[1].manifest_hash

(* entries[-1]["manifest_hash"] if entries else GENESIS_HASH               *)
LastHash(entries) ==
  IF Len(entries) = 0 THEN Genesis ELSE entries[Len(entries)].manifest_hash

NewManifest(entries, w, body) ==
  [sequence |-> Len(entries),
   previous |-> LastHash(entries),
   by |-> w,
   body |-> body,
   manifest_hash |-> hash_canonical(Len(entries), LastHash(entries), w, body)]

(* The draft of a writer that is not in append.                            *)
NoDraft(w) == NewManifest(NoEntries, w, CHOOSE body \in Bodies : TRUE)

-----------------------------------------------------------------------------
(* append: one action per file operation.                                  *)

Transition(w, from, to) == pc[w] = from /\ pc' = [pc EXCEPT ![w] = to]

(* The call ends and its locals are gone.                                  *)
Leave(w) ==
  /\ pc' = [pc EXCEPT ![w] = "idle"]
  /\ base' = [base EXCEPT ![w] = NoEntries]
  /\ draft' = [draft EXCEPT ![w] = NoDraft(w)]

(* Mutation: a text that does not parse is read as an empty index.         *)
ReadIndexLeniently(w, body) ==
  /\ calls < MaxCalls
  /\ Transition(w, "idle", "drafted")
  /\ calls' = calls + 1
  /\ base' = [base EXCEPT ![w] = index.entries]
  /\ draft' = [draft EXCEPT ![w] = NewManifest(index.entries, w, body)]
  /\ UNCHANGED <<index, present, whole, receipts, reader, failures>>

(* _read_index, then the record to store.  A malformed index raises.       *)
ReadIndex(w, body) ==
  /\ calls < MaxCalls
  /\ Readable(index)
  /\ Transition(w, "idle", "drafted")
  /\ calls' = calls + 1
  /\ base' = [base EXCEPT ![w] = index.entries]
  /\ draft' = [draft EXCEPT ![w] = NewManifest(index.entries, w, body)]
  /\ UNCHANGED <<index, present, whole, receipts, reader, failures>>

ReadIndexRaises(w) ==
  /\ calls < MaxCalls
  /\ pc[w] = "idle"
  /\ ~Readable(index)
  /\ calls' = calls + 1
  /\ UNCHANGED <<index, present, whole, pc, base, draft, receipts, reader,
                 failures>>

(* Mutation: the names of the new pair are taken to be free.               *)
AssumedFree(w) == TRUE

NamesAreFree(w) == Pair(draft[w]) \cap present = {}

(* Mutation: the names are looked at only once the index is open.          *)
RefuseOverwriteLate(w) ==
  /\ pc[w] = "index_open"
  /\ ~NamesAreFree(w)
  /\ Leave(w)
  /\ UNCHANGED <<index, present, whole, receipts, reader, calls, failures>>

(* "Refusing to overwrite permanent manifest": FileExistsError.            *)
RefuseOverwrite(w) ==
  /\ pc[w] = "drafted"
  /\ ~NamesAreFree(w)
  /\ Leave(w)
  /\ UNCHANGED <<index, present, whole, receipts, reader, calls, failures>>

OpenJson(w) ==
  /\ Transition(w, "drafted", "json_open")
  /\ NamesAreFree(w)
  /\ present' = present \cup {Json(draft[w])}
  /\ whole' = whole \ {Json(draft[w])}
  /\ UNCHANGED <<index, base, draft, receipts, reader, calls, failures>>

(* Mutation: the JSON text goes to the path of the Markdown companion.     *)
WriteJsonElsewhere(w) ==
  /\ Transition(w, "json_open", "json_written")
  /\ whole' = whole \cup {Markdown(draft[w])}
  /\ UNCHANGED <<index, present, base, draft, receipts, reader, calls, failures>>

WriteJson(w) ==
  /\ Transition(w, "json_open", "json_written")
  /\ whole' = whole \cup {Json(draft[w])}
  /\ UNCHANGED <<index, present, base, draft, receipts, reader, calls, failures>>

OpenMarkdown(w) ==
  /\ Transition(w, "json_written", "md_open")
  /\ present' = present \cup {Markdown(draft[w])}
  /\ whole' = whole \ {Markdown(draft[w])}
  /\ UNCHANGED <<index, base, draft, receipts, reader, calls, failures>>

WriteMarkdown(w) ==
  /\ Transition(w, "md_open", "md_written")
  /\ whole' = whole \cup {Markdown(draft[w])}
  /\ UNCHANGED <<index, present, base, draft, receipts, reader, calls, failures>>

OpenIndex(w) ==
  /\ Transition(w, "md_written", "index_open")
  /\ index' = [entries |-> NoEntries, size |-> 0]
  /\ UNCHANGED <<present, whole, base, draft, receipts, reader, calls, failures>>

(* Mutation: the index lists the new entry alone.                          *)
EntriesDropped(w) == <<draft[w]>>

NewEntries(w) == Append(base[w], draft[w])

(* Mutation: the text never leaves the buffer.                             *)
Unflushed(entries) == [entries |-> entries, size |-> index.size]

(* A text put at the start of the index as it is now.                      *)
Written(entries) ==
  [entries |-> entries,
   size |-> IF index.size > Size(entries) THEN index.size ELSE Size(entries)]

(* The text of the entries read, plus the new one; then the pair returns.  *)
WriteIndex(w) ==
  /\ pc[w] = "index_open"
  /\ Leave(w)
  /\ index' = Written(NewEntries(w))
  /\ receipts' = receipts \cup {draft[w]}
  /\ UNCHANGED <<present, whole, reader, calls, failures>>

(* The process dies, or the write it is about to do raises OSError: append *)
(* undoes nothing.                                                         *)
Fail(w) ==
  /\ failures < MaxFailures
  /\ pc[w] # "idle"
  /\ Leave(w)
  /\ failures' = failures + 1
  /\ UNCHANGED <<index, present, whole, receipts, reader, calls>>

-----------------------------------------------------------------------------
(* verify: the index is read once, then the files of each entry in turn.   *)

Idle == [at |-> 0, entries |-> NoEntries, previous |-> Genesis, errors |-> {}]

BeginVerify(r) ==
  /\ reader' = [reader EXCEPT ![r] =
       IF Readable(index)
       THEN [Idle EXCEPT !.at = 1, !.entries = index.entries]
       ELSE [Idle EXCEPT !.errors = {"index_unreadable"}]]
  /\ reader[r].at = 0
  /\ UNCHANGED <<index, present, whole, pc, base, draft, receipts, calls, failures>>

(* Mutation: positions are compared as if the entries counted from one.    *)
EntryErrorsFromOne(rd) ==
  IF rd.entries[rd.at].sequence # rd.at THEN {"sequence_mismatch"} ELSE {}

(* The errors verify appends for the entry at the reader's position.  A    *)
(* complete file holds what append wrote, so its own hash always fits.     *)
EntryErrors(rd) ==
  LET item == rd.entries[rd.at] IN
  (IF item.sequence # rd.at - 1 THEN {"sequence_mismatch"} ELSE {})
  \cup
  (IF ~(Pair(item) \subseteq present) THEN {"manifest_pair_missing"}
   ELSE IF Json(item) \notin whole THEN {"JSON_unreadable"}
   ELSE (IF item.previous # rd.previous THEN {"previous_hash_mismatch"} ELSE {})
        \cup
        (IF Markdown(item) \notin whole THEN {"Markdown_hash_mismatch"} ELSE {}))

(* A pair that is missing or unreadable leaves the running hash alone.     *)
VerifyEntry(r) ==
  LET rd == reader[r]
      item == rd.entries[rd.at]
      skip == ~(Pair(item) \subseteq present) \/ Json(item) \notin whole
  IN
  /\ rd.at \in 1..Len(rd.entries)
  /\ reader' = [reader EXCEPT ![r] =
       [at |-> rd.at + 1,
        entries |-> rd.entries,
        previous |-> IF skip THEN rd.previous ELSE item.manifest_hash,
        errors |-> rd.errors \cup EntryErrors(rd)]]
  /\ UNCHANGED <<index, present, whole, pc, base, draft, receipts, calls, failures>>

EndVerify(r) ==
  /\ reader[r].at > Len(reader[r].entries)
  /\ reader' = [reader EXCEPT ![r] = Idle]
  /\ UNCHANGED <<index, present, whole, pc, base, draft, receipts, calls, failures>>

-----------------------------------------------------------------------------
LedgerInit ==
  /\ index = NoIndex
  /\ present = {}
  /\ whole = {}
  /\ pc = [w \in Writers |-> "idle"]
  /\ base = [w \in Writers |-> NoEntries]
  /\ draft = [w \in Writers |-> NoDraft(w)]
  /\ receipts = {}
  /\ reader = [r \in Readers |-> Idle]
  /\ calls = 0
  /\ failures = 0

WriterStep(w) ==
  \/ \E body \in Bodies : ReadIndex(w, body)
  \/ ReadIndexRaises(w)
  \/ RefuseOverwrite(w)
  \/ OpenJson(w)
  \/ WriteJson(w)
  \/ OpenMarkdown(w)
  \/ WriteMarkdown(w)
  \/ OpenIndex(w)
  \/ WriteIndex(w)

ReaderStep(r) == BeginVerify(r) \/ VerifyEntry(r) \/ EndVerify(r)

LedgerNext ==
  \/ \E w \in Writers : WriterStep(w) \/ Fail(w)
  \/ \E r \in Readers : ReaderStep(r)

LedgerSpec == LedgerInit /\ [][LedgerNext]_ledgerVars

(* A call of append or verify that has begun runs on to its end unless it  *)
(* fails: the operating system schedules the process.  Nothing obliges a   *)
(* caller to begin one.                                                    *)
Advance(w) == pc[w] # "idle" /\ WriterStep(w)

FairLedgerSpec == LedgerSpec /\ \A w \in Writers : WF_ledgerVars(Advance(w))

-----------------------------------------------------------------------------
Steps == {"idle", "drafted", "json_open", "json_written", "md_open",
          "md_written", "index_open"}

VerifyErrors == {"index_unreadable", "sequence_mismatch", "manifest_pair_missing",
                 "JSON_unreadable", "previous_hash_mismatch",
                 "Markdown_hash_mismatch"}

FileNames == Manifest \X {"json", "md"}

(* Every variable has the shape the code gives it.                         *)
LedgerTypeOK ==
  /\ index \in [entries: Seq(Manifest), size: Nat]
  /\ present \subseteq FileNames
  /\ whole \subseteq present
  /\ pc \in [Writers -> Steps]
  /\ base \in [Writers -> Seq(Manifest)]
  /\ draft \in [Writers -> Manifest]
  /\ receipts \subseteq Manifest
  /\ reader \in [Readers -> [at: Nat, entries: Seq(Manifest), previous: Digest,
                             errors: SUBSET VerifyErrors]]
  /\ calls \in Nat
  /\ failures \in Nat

(* What verify asks of a list of entries: each is at its position, names   *)
(* the hash of the one before it, and has both of its files complete.      *)
Stored(m) == Pair(m) \subseteq whole

Linked(entries, i) ==
  /\ entries[i].sequence = i - 1
  /\ entries[i].previous = IF i = 1 THEN Genesis ELSE entries[i - 1].manifest_hash

Verifies(entries) ==
  \A i \in 1..Len(entries) : Linked(entries, i) /\ Stored(entries[i])

(* Whatever the writers' order of steps and wherever they die, an index    *)
(* that can be read lists a chain verify accepts: append writes the pair   *)
(* before the index, and only ever extends entries it read.                *)
ReadableIndexVerifies == Readable(index) => Verifies(index.entries)

(* A verify that runs while others append or die may find the index        *)
(* unreadable; it never reports a manifest missing, torn or unlinked, so   *)
(* those errors always mean that a file was altered from outside.          *)
NoFalseAlarm == \A r \in Readers : reader[r].errors \subseteq {"index_unreadable"}

(* A manifest whose pair was returned to a caller has both of its files,   *)
(* complete, from then on, whoever appends or dies later.                  *)
ReceiptsKeepTheirFiles == \A m \in receipts : Stored(m)

(* A complete file is never opened again, not even by a call that repeats  *)
(* one that died and so hashes to the same name: "Refusing to overwrite    *)
(* permanent manifest".                                                    *)
CompleteFilesAreKept == [][whole \subseteq whole']_ledgerVars

(* Once an index is unreadable and no writer is past reading it, no call   *)
(* of append or verify ever makes it readable again: recovery is manual.   *)
InFlight == {w \in Writers : pc[w] # "idle"}

Wrecked == ~Readable(index) /\ InFlight = {}

WreckedForever == [][Wrecked => Wrecked']_ledgerVars

(* Every manifest a caller was given is in the index whenever it can be    *)
(* read: the chain is "linear", so nothing appended later displaces it.    *)
ReceiptsStayIndexed ==
  Readable(index) =>
    \A m \in receipts : \E i \in 1..Len(index.entries) : index.entries[i] = m

(* Only a failure leaves the index unreadable with no writer about to      *)
(* write it: appends that all return leave a ledger that can be read.      *)
OnlyFailuresWreck == Wrecked => failures > 0

(* An index emptied by a call in flight is given its text again, or that   *)
(* call failed.                                                            *)
TruncationIsTransient ==
  (~Readable(index) /\ failures = 0) ~> (Readable(index) \/ failures > 0)

-----------------------------------------------------------------------------
(* What a ledger is to the caller of its one writer.  While the writer     *)
(* holds the index open the log is what it read from it.                   *)
Rewriting == {w \in Writers : pc[w] = "index_open"}

recorded ==
  IF Readable(index) THEN index.entries
  ELSE IF Rewriting # {} THEN base[CHOOSE w \in Rewriting : TRUE]
  ELSE NoEntries

index_lost == ~Readable(index) /\ Rewriting = {}

Log == INSTANCE AppendOnlyLog WITH log <- recorded, lost <- index_lost

(* With one writer the index is an append-only log of linked manifests: no *)
(* call rewrites, reorders or drops what an earlier call recorded, unless  *)
(* a failure during the index write loses the whole index.                 *)
ImplementsAppendOnlyLog == Log!LogSpec
=============================================================================
