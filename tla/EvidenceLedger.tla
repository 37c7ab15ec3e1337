--------------------------- MODULE EvidenceLedger ---------------------------
(***************************************************************************)
(* EvidenceLedger of ledger.py: entries chained by their hashes, each with *)
(* the payload it was given - the very object, which the caller may change *)
(* afterwards -, a map of successors that detects forks, and save and load.*)
(* The list and its entries are open to every caller, as is the file.      *)
(* load appends every entry of the file anew.  A digest stands for what it *)
(* is of: that of an entry for the kinds, payloads and times up to it.     *)
(***************************************************************************)
EXTENDS Naturals, Sequences

CONSTANTS
  Offered,     \* what is appended: a kind with the content of a payload
  Altered,     \* what a part of an entry becomes when somebody changes it
  MaxClock,    \* bound: appends and loads
  MaxChanges   \* bound: changes of an entry, the list or the file

ASSUME LedgerAssumption ==
  /\ MaxClock \in Nat /\ MaxChanges \in Nat
  /\ \A item \in Offered : item = [kind |-> item.kind, content |-> item.content]

VARIABLES
  entries,      \* the list of the ledger in memory
  by_prev,      \* parents with the children appended to them
  saved,        \* the file: status and what load reads of it
  appended,     \* history: all that was appended
  laundered,    \* history: a change went through the file
  clock, changes

evidenceVars == <<entries, by_prev, saved, appended, laundered, clock, changes>>

Payload(content, allow_branch) == [content |-> content, allow_branch |-> allow_branch]

Mark(kind, created_at, payload) == [kind |-> kind, created_at |-> created_at, payload |-> payload]

-----------------------------------------------------------------------------
tip_hash(list) == IF list = <<>> THEN <<>> ELSE list[Len(list)].entry_hash

(* An entry made at a time, chained to a tip.                              *)
NewEntry(tip, item, allow_branch, time) ==
  LET payload == Payload(item.content, allow_branch) IN
  [kind |-> item.kind, created_at |-> time, payload |-> payload, payload_hash |-> payload,
   previous_hash |-> tip, entry_hash |-> Append(tip, Mark(item.kind, time, payload))]

Children(list) ==
  {<<list[i].previous_hash, list[i].entry_hash>> : i \in 1..Len(list)}

HasChild(parent) == \E edge \in by_prev : edge[1] = parent

(* append: a second child of the tip is refused unless it is marked.       *)
append(item, allow_branch) ==
  LET e == NewEntry(tip_hash(entries), item, allow_branch, clock) IN
  /\ clock < MaxClock
  /\ allow_branch \/ ~HasChild(tip_hash(entries))
  /\ entries' = Append(entries, e)
  /\ by_prev' = by_prev \cup {<<tip_hash(entries), e.entry_hash>>}
  /\ appended' = Append(appended, item)
  /\ clock' = clock + 1
  /\ UNCHANGED <<saved, laundered, changes>>

Change == changes < MaxChanges /\ changes' = changes + 1

(* A caller changes an object it appended, or its mark.                    *)
MutatePayload(i) ==
  /\ Change
  /\ i \in 1..Len(entries)
  /\ \E content \in {entries[i].payload.content, Altered}, allow_branch \in BOOLEAN :
       entries' = [entries EXCEPT ![i].payload = Payload(content, allow_branch)]
  /\ UNCHANGED <<by_prev, saved, appended, laundered, clock>>

(* A caller changes an entry: its payload together with the hash of it, or *)
(* a field that is hashed in entry_hash only.                              *)
RewriteEntry(i) ==
  LET e == entries[i]
      payload == Payload(Altered, e.payload.allow_branch)
  IN
  /\ Change
  /\ i \in 1..Len(entries)
  /\ \E changed \in {[e EXCEPT !.payload = payload, !.payload_hash = payload],
                     [e EXCEPT !.kind = Altered], [e EXCEPT !.created_at = Altered]} :
       entries' = [entries EXCEPT ![i] = changed]
  /\ UNCHANGED <<by_prev, saved, appended, laundered, clock>>

(* A caller takes entries out of the list; the map of successors stays.    *)
RemoveEntries(first, last) ==
  /\ Change
  /\ first \in 1..Len(entries) /\ last \in first..Len(entries)
  /\ entries' = SubSeq(entries, 1, first - 1) \o SubSeq(entries, last + 1, Len(entries))
  /\ UNCHANGED <<by_prev, saved, appended, laundered, clock>>

Items(list) ==
  [i \in 1..Len(list) |-> [kind |-> list[i].kind, content |-> list[i].payload.content]]

(* save writes all entries, altered or not, or is interrupted.             *)
save ==
  /\ \E status \in {"whole", "torn"} :
       saved' = [status |-> status, items |-> Items(entries), appended |-> appended,
                 laundered |-> laundered \/ Items(entries) # appended]
  /\ saved' # saved
  /\ UNCHANGED <<entries, by_prev, appended, laundered, clock, changes>>

(* Somebody changes an entry in the file, or cuts it.                      *)
EditSaved(i) ==
  /\ Change
  /\ saved.status = "whole" /\ i \in 1..Len(saved.items)
  /\ \E items \in {[saved.items EXCEPT ![i].content = Altered],
                   [saved.items EXCEPT ![i].kind = Altered], SubSeq(saved.items, 1, i - 1)} :
       saved' = [saved EXCEPT !.items = items, !.laundered = TRUE]
  /\ UNCHANGED <<entries, by_prev, appended, laundered, clock>>

(* load: every payload is marked and appended to a new ledger; the hashes  *)
(* and times in the file are not looked at.                                *)
load ==
  LET items == saved.items
      tip(i) == [j \in 1..i |-> Mark(items[j].kind, clock, Payload(items[j].content, TRUE))]
      list == [i \in 1..Len(items) |-> NewEntry(tip(i - 1), items[i], TRUE, clock)]
  IN
  /\ clock < MaxClock
  /\ saved.status = "whole"
  /\ entries' = list
  /\ by_prev' = Children(list)
  /\ appended' = saved.appended
  /\ laundered' = saved.laundered
  /\ clock' = clock + 1
  /\ UNCHANGED <<saved, changes>>

-----------------------------------------------------------------------------
(* Mutation: verify_chain looks at the links only.                         *)
payload_ok_never(e) == TRUE

(* The payload has its hash, or had it before it was marked.               *)
payload_ok(e) ==
  \/ e.payload = e.payload_hash
  \/ Payload(e.payload.content, FALSE) = e.payload_hash

(* verify_chain: the entries with an error.                                *)
verify_chain(list) ==
  {i \in 1..Len(list) :
     \/ list[i].previous_hash # (IF i = 1 THEN <<>> ELSE list[i - 1].entry_hash)
     \/ ~payload_ok(list[i])}

NothingSaved == [status |-> "absent", items |-> <<>>, appended |-> <<>>, laundered |-> FALSE]

EvidenceInit ==
  /\ entries = <<>> /\ by_prev = {}
  /\ saved = NothingSaved
  /\ appended = <<>> /\ laundered = FALSE
  /\ clock = 0 /\ changes = 0

EvidenceStep ==
  \/ \E item \in Offered, allow_branch \in BOOLEAN : append(item, allow_branch)
  \/ \E i \in 1..Len(entries) : MutatePayload(i)
  \/ \E i \in 1..Len(entries) : RewriteEntry(i)
  \/ \E first, last \in 1..Len(entries) : RemoveEntries(first, last)
  \/ save \/ load
  \/ \E i \in 1..Len(saved.items) : EditSaved(i)

EvidenceSpec == EvidenceInit /\ [][EvidenceStep]_evidenceVars

-----------------------------------------------------------------------------
(* What verify_chain does not look at: whether an entry has its own hash.  *)
Sealed(e) ==
  e.entry_hash = Append(e.previous_hash, Mark(e.kind, e.created_at, e.payload_hash))

(* Something that was appended after the tip, or beside a marked entry, is *)
(* not on the list any more.                                               *)
LossShows ==
  \/ HasChild(tip_hash(entries))
  \/ \E i \in 1..Len(entries), edge \in by_prev :
       /\ edge[1] = entries[i].previous_hash /\ edge[2] # entries[i].entry_hash
       /\ entries[i].payload_hash.allow_branch

(* A chain that verifies, and whose entries have their own hashes, is all  *)
(* that was appended, entry by entry and through any number of saves and   *)
(* loads that nobody tampered with; or the end of it was cut off, and then *)
(* the ledger in memory knows of a child of the tip, which append refuses  *)
(* to add a second one to, or of one beside an entry that says it is a     *)
(* branch.  A ledger nobody changed verifies, is complete, and takes its   *)
(* next entry unmarked.                                                    *)
ChainIsRight ==
  /\ /\ verify_chain(entries) = {} /\ ~laundered
     /\ \A i \in 1..Len(entries) : Sealed(entries[i])
     => Items(entries) = appended \/ LossShows
  /\ changes = 0 => verify_chain(entries) = {} /\ Items(entries) = appended /\ ~LossShows

(* The alteration of a ledger is detected: a chain that verifies holds     *)
(* what was appended to it.                                                *)
AlterationIsDetected == verify_chain(entries) = {} => Items(entries) = appended
=============================================================================
