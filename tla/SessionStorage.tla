--------------------------- MODULE SessionStorage ---------------------------
(***************************************************************************)
(* How a session is kept on disk (internal/history), with what the agent   *)
(* does to it between two saves (internal/agent).                          *)
(*                                                                         *)
(* A session has two files: a JSONL file with an entry per line, appended  *)
(* to or replaced as a whole, and a metadata file that tells how many      *)
(* conversation messages it holds.  A save writes the first, then the      *)
(* second; each write may fail, and the process may stop between two of    *)
(* them.  A load reads both and refuses when they disagree.                *)
(*                                                                         *)
(* An entry is told apart by its number and its kind: "msg" is a message   *)
(* of the conversation, "audit" the record of a tool execution, "state"    *)
(* the compacted items, "junk" a line that cannot be decoded.              *)
(***************************************************************************)
EXTENDS Integers, Sequences, Selection

CONSTANTS
  MaxEntries,   \* entries ever made (bound of the check)
  MaxFailures   \* writes that fail (bound of the check)

ASSUME BoundsAssumption == MaxEntries \in Nat /\ MaxFailures \in Nat

VARIABLES
  mem,       \* the session in memory: its entries, how many of them are
             \* persisted, whether a rewrite is required, compacted or not
  file,      \* the JSONL file; torn: its last line has no newline
  meta,      \* the metadata file
  pc,        \* where the save in progress is
  todo,      \* the entries it has yet to append
  made,      \* entries made so far
  failures,  \* writes that failed so far
  outcome,   \* none before the first save, then ok, failed, or open while a
             \* save is running or after a crash cut it off
  want,      \* what the last save that was begun was to store
  versions,  \* what the last completed save and every later one was to store
  broken     \* since the file was last replaced: "append" when an append
             \* broke off part-way, "repair" when a repair was not rewritten

disk == <<file, meta>>
ghosts == <<outcome, want, versions, broken>>
vars == <<mem, file, meta, pc, todo, made, failures, outcome, want, versions, broken>>

----------------------------------------------------------------------------
(* Entries. *)

Kinds == {"msg", "audit"}
Entry(n, k) == [id |-> n, kind |-> k]
Junk == Entry(0, "junk")
Header == Entry(0, "state")

ConversationEntries == [id : Nat, kind : {"msg"}]
SessionEntries == [id : Nat, kind : Kinds]
Decodable == SessionEntries \cup {Header}

isConversationMessageEntry(e) == e \in ConversationEntries

Conversation(s) == Only(s, ConversationEntries)

conversationMessageCount(s) == Len(Conversation(s))

storageEntries(m) ==
  IF m.compact THEN <<Header>> \o m.entries ELSE m.entries

unsavedMessages(m) == SubSeq(m.entries, m.persisted + 1, Len(m.entries))

(* Slip: the count of persisted entries stays behind. *)
KeepCount(m) == [m EXCEPT !.rewrite = FALSE]

markPersisted(m) ==
  [m EXCEPT !.persisted = Len(m.entries), !.rewrite = FALSE]

(* What a session is, whatever of it is written already. *)
Content(m) == [entries |-> m.entries, compact |-> m.compact]

Session(c) ==
  [entries |-> c.entries, compact |-> c.compact,
   persisted |-> Len(c.entries), rewrite |-> FALSE]

NewSession == Session([entries |-> <<>>, compact |-> FALSE])

NoFile == [present |-> FALSE, lines |-> <<>>, torn |-> FALSE]
NoMeta == [present |-> FALSE, count |-> 0, items |-> FALSE]

----------------------------------------------------------------------------
(* Load. *)

loadSessionMessages(f) == Only(f.lines, Decodable)

Loaded(f) ==
  LET read == loadSessionMessages(f)
  IN [entries |-> Only(read, SessionEntries),
      compact |-> \E i \in DOMAIN read : read[i] = Header]

canLoadWithoutHistoryFile(d) == d.count = 0 /\ ~d.items

validateLoadedConversationIntegrity(d, c) ==
  /\ conversationMessageCount(c.entries) = d.count
  /\ d.items => c.compact

Loads(f, d) ==
  /\ d.present
  /\ IF f.present
       THEN validateLoadedConversationIntegrity(d, Loaded(f))
       ELSE canLoadWithoutHistoryFile(d)

----------------------------------------------------------------------------
(* Save and Rewrite: one step for each thing they do to the disk. *)

Up == pc /= "down"

Init ==
  /\ mem = NewSession
  /\ file = NoFile
  /\ meta = NoMeta
  /\ pc = "idle"
  /\ todo = <<>>
  /\ made = 0
  /\ failures = 0
  /\ outcome = "none"
  /\ want = Content(NewSession)
  /\ versions = {}
  /\ broken = {}

(* The session becomes m, and is saved or rewritten at once. *)
Begin(m, how) ==
  /\ pc = "idle"
  /\ mem' = m
  /\ pc' = how
  /\ outcome' = "open"
  /\ want' = Content(m)
  /\ versions' = versions \cup {Content(m)}
  /\ UNCHANGED <<disk, todo, failures, broken>>

MayFail == failures < MaxFailures /\ failures' = failures + 1

(* A write failed: the save returns the error, the agent only warns. *)
Fail ==
  /\ MayFail
  /\ pc' = "idle"
  /\ todo' = <<>>
  /\ outcome' = "failed"
  /\ UNCHANGED <<mem, meta, made, want, versions>>

Rewriting == pc = "rewrite" \/ (pc = "save" /\ mem.rewrite)

(* Slip: the file is replaced without the compacted items. *)
ReplaceEntriesOnly ==
  /\ Rewriting
  /\ file' = IF storageEntries(mem) = <<>> THEN NoFile
             ELSE [present |-> TRUE, lines |-> mem.entries, torn |-> FALSE]
  /\ mem' = markPersisted(mem)
  /\ pc' = "meta"
  /\ broken' = {}
  /\ UNCHANGED <<meta, todo, made, failures, outcome, want, versions>>

(* The JSONL file is replaced at once by a rename, or removed when there   *)
(* is no entry.                                                            *)
Rewrite ==
  /\ Rewriting
  /\ file' = IF storageEntries(mem) = <<>> THEN NoFile
             ELSE [present |-> TRUE, lines |-> storageEntries(mem), torn |-> FALSE]
  /\ mem' = markPersisted(mem)
  /\ pc' = "meta"
  /\ broken' = {}
  /\ UNCHANGED <<meta, todo, made, failures, outcome, want, versions>>

(* Slip: the rewrite is marked as done although it failed. *)
RewriteGivenUp ==
  /\ Rewriting
  /\ MayFail
  /\ mem' = markPersisted(mem)
  /\ pc' = "idle"
  /\ outcome' = "failed"
  /\ UNCHANGED <<disk, todo, made, want, versions, broken>>

(* Nothing of the old file is lost.  Nothing tells a later save that a     *)
(* rewrite was wanted when no rewrite was required by the session itself.  *)
RewriteFails ==
  /\ Rewriting
  /\ Fail
  /\ broken' = IF mem.rewrite THEN broken ELSE broken \cup {"repair"}
  /\ UNCHANGED file

(* Nothing to append: only the metadata is written. *)
SaveNothing ==
  /\ pc = "save"
  /\ ~mem.rewrite
  /\ unsavedMessages(mem) = <<>>
  /\ pc' = "meta"
  /\ UNCHANGED <<mem, disk, todo, made, failures, ghosts>>

OpenForAppend ==
  /\ pc = "save"
  /\ ~mem.rewrite
  /\ unsavedMessages(mem) /= <<>>
  /\ pc' = "append"
  /\ todo' = unsavedMessages(mem)
  /\ file' = [file EXCEPT !.present = TRUE]
  /\ UNCHANGED <<mem, meta, made, failures, ghosts>>

OpenFails ==
  /\ pc = "save"
  /\ ~mem.rewrite
  /\ unsavedMessages(mem) /= <<>>
  /\ Fail
  /\ UNCHANGED <<file, broken>>

(* One write per line.  After a line without a newline the text of the     *)
(* entry runs on in that line, and neither can be decoded.                 *)
Written(f, e) ==
  IF f.torn
    THEN [f EXCEPT !.torn = FALSE]
    ELSE [f EXCEPT !.lines = Append(@, e)]

AppendLine ==
  /\ pc = "append"
  /\ file' = Written(file, Head(todo))
  /\ todo' = Tail(todo)
  /\ IF Len(todo) = 1
       THEN mem' = markPersisted(mem) /\ pc' = "meta"
       ELSE UNCHANGED <<mem, pc>>
  /\ UNCHANGED <<meta, made, failures, ghosts>>

(* A write that fails has written nothing of its line, or the front part   *)
(* of it: the error leaves before markPersisted either way.                *)
AppendFails ==
  /\ pc = "append"
  /\ Fail
  /\ \/ /\ UNCHANGED file
        /\ broken' = IF todo = unsavedMessages(mem) THEN broken
                     ELSE broken \cup {"append"}
     \/ /\ ~file.torn
        /\ file' = [file EXCEPT !.lines = Append(@, Junk), !.torn = TRUE]
        /\ broken' = broken \cup {"append"}

(* The metadata is replaced by a rename. *)
saveMetadata ==
  /\ pc = "meta"
  /\ meta' = [present |-> TRUE,
              count |-> conversationMessageCount(mem.entries),
              items |-> mem.compact]
  /\ pc' = "idle"
  /\ outcome' = "ok"
  /\ versions' = {want}
  /\ UNCHANGED <<mem, file, todo, made, failures, want, broken>>

MetadataFails ==
  /\ pc = "meta"
  /\ MayFail
  /\ pc' = "idle"
  /\ outcome' = "failed"
  /\ UNCHANGED <<mem, disk, todo, made, want, versions, broken>>

----------------------------------------------------------------------------
(* What the agent does to the session: each is followed by a save. *)

MakeEntry == made < MaxEntries /\ made' = made + 1

AddEntry ==
  /\ MakeEntry
  /\ \E k \in Kinds :
       Begin([mem EXCEPT !.entries = Append(@, Entry(made + 1, k))], "save")

(* Without a change: the save command, a switch of the session, the end of *)
(* the process.                                                            *)
SaveAgain == Begin(mem, "save") /\ UNCHANGED made

(* A compression replaces the messages by a summary and the last of them,  *)
(* or by compacted items and no message; audit entries go.                 *)
ReplaceMessagesFromAPI(msgs, items) ==
  Begin([entries |-> msgs, persisted |-> 0, rewrite |-> TRUE, compact |-> items],
        "rewrite")

Compress ==
  /\ mem.entries /= <<>>
  /\ \/ /\ MakeEntry
        /\ \E k \in 1 .. Len(Conversation(mem.entries)) :
             ReplaceMessagesFromAPI(
               <<Entry(made + 1, "msg")>> \o
                 SubSeq(Conversation(mem.entries), k + 1,
                        Len(Conversation(mem.entries))),
               mem.compact)
     \/ ReplaceMessagesFromAPI(<<>>, TRUE) /\ UNCHANGED made

(* Slip: the entries given up still count as persisted. *)
TruncateEntriesOnly ==
  /\ \E n \in 0 .. Len(mem.entries) - 1 :
       Begin([mem EXCEPT !.entries = SubSeq(@, 1, n), !.rewrite = TRUE], "rewrite")
  /\ UNCHANGED made

(* Leaving the plan mode gives up the entries made in it. *)
TruncateMessages ==
  /\ \E n \in 0 .. Len(mem.entries) - 1 :
       Begin([mem EXCEPT !.entries = SubSeq(@, 1, n),
                         !.persisted = IF @ > n THEN n ELSE @,
                         !.rewrite = TRUE],
             "rewrite")
  /\ UNCHANGED made

ResetConversation ==
  /\ ReplaceMessagesFromAPI(<<>>, FALSE)
  /\ UNCHANGED made

(* The arguments of a call that is in the session are corrected in place;  *)
(* the session is rewritten without being marked for it.                   *)
RepairToolCall ==
  /\ MakeEntry
  /\ \E i \in DOMAIN mem.entries :
       /\ isConversationMessageEntry(mem.entries[i])
       /\ Begin([mem EXCEPT !.entries[i] = Entry(made + 1, "msg")], "rewrite")

Stop ==
  /\ Up
  /\ pc' = "down"
  /\ mem' = NewSession
  /\ todo' = <<>>
  /\ UNCHANGED <<disk, made, failures, ghosts>>

Resume ==
  /\ pc = "down"
  /\ Loads(file, meta)
  /\ mem' = Session(Loaded(file))
  /\ pc' = "idle"
  /\ UNCHANGED <<disk, todo, made, failures, ghosts>>

Next ==
  \/ AddEntry \/ SaveAgain \/ Compress \/ TruncateMessages
  \/ ResetConversation \/ RepairToolCall
  \/ Rewrite \/ RewriteFails \/ SaveNothing \/ OpenForAppend \/ OpenFails
  \/ AppendLine \/ AppendFails \/ saveMetadata \/ MetadataFails
  \/ Stop \/ Resume

Spec == Init /\ [][Next]_vars

----------------------------------------------------------------------------
(* Properties. *)

Entries == [id : 0 .. MaxEntries, kind : Kinds]
Lines == Entries \cup {Junk, Header}
Contents == [entries : Seq(Entries), compact : BOOLEAN]

(* Types of the session in memory, of the two files and of the save that   *)
(* is running: never more entries persisted than there are, and a line     *)
(* without a newline is the last one and not decodable                     *)
(* (history/session.go, history/storage.go).                               *)
TypeOK ==
  /\ Content(mem) \in Contents
  /\ mem.persisted \in 0 .. Len(mem.entries)
  /\ mem.rewrite \in BOOLEAN
  /\ file.present \in BOOLEAN /\ file.torn \in BOOLEAN
  /\ file.lines \in Seq(Lines)
  /\ file.torn => file.lines /= <<>> /\ file.lines[Len(file.lines)] = Junk
  /\ ~file.present => file.lines = <<>>
  /\ meta.present \in BOOLEAN /\ meta.items \in BOOLEAN
  /\ meta.count \in 0 .. MaxEntries
  /\ pc \in {"idle", "save", "rewrite", "append", "meta", "down"}
  /\ todo \in Seq(Entries) /\ (todo /= <<>> <=> pc = "append")
  /\ made \in 0 .. MaxEntries
  /\ failures \in 0 .. MaxFailures
  /\ outcome \in {"none", "open", "ok", "failed"}
  /\ want \in Contents
  /\ versions \subseteq Contents
  /\ broken \subseteq {"append", "repair"}

(* After a save that returned no error the session can be resumed, in this *)
(* process or a later one, and is exactly what was saved: the same entries *)
(* once each and in order, and the compacted state.  Failed writes before  *)
(* it do no harm, except an append that broke off part-way and a failed    *)
(* rewrite of a repaired call, until the file is replaced again            *)
(* (Storage.Save, Storage.Rewrite, Storage.Load).                          *)
SavedSessionLoads ==
  outcome = "ok" /\ broken = {} =>
    /\ Loads(file, meta)
    /\ Loaded(file) = want

(* Whenever a load succeeds, at any moment between two writes and after    *)
(* any of them failed, the conversation it returns is one the session had: *)
(* at the last completed save or at a later one, never a mixture of two.   *)
(* A rewrite that failed stays required, or the next entries would follow  *)
(* the old ones.  Left out are the two failures no later save repairs      *)
(* (Session.markPersisted, Storage.Rewrite, Storage.Load).                 *)
NeverAMixture ==
  Loads(file, meta) /\ broken = {} =>
    \E c \in versions :
      Conversation(Loaded(file).entries) = Conversation(c.entries)

(* The documentation says of the resume command that it resumes a saved    *)
(* session (docs/commands.md): here, whichever writes failed before the    *)
(* save that succeeded.                                                    *)
EverySavedSessionLoads ==
  outcome = "ok" => Loads(file, meta)
=============================================================================
