----------------------------- MODULE ToolCache ------------------------------
(***************************************************************************)
(* What the agent's tools keep of the files they have read (internal/      *)
(* agent/tool_cache*.go, internal/tools/execute_cache_invalidation.go):    *)
(* contents and listings, which are compared with the time of the file     *)
(* before they are used, and answers of searches, which are not: the tools *)
(* that change files take those away.  The tools of a batch that only read *)
(* run beside each other; one that changes files runs alone.  Others       *)
(* change files at any time: the user's editor, sub-agents, which have     *)
(* caches of their own, and commands that count as reading.                *)
(***************************************************************************)
EXTENDS Integers, FiniteSets

CONSTANTS
  Files,                \* files, all in one directory
  Folder,               \* that directory
  Readers,              \* goroutines of the parallel phase
  MaxFileCacheEntries,
  MaxFileTime           \* bound: time of the last change, from 1 on

ASSUME CacheAssumption ==
  /\ Folder \notin Files /\ IsFiniteSet(Files)
  /\ MaxFileCacheEntries \in Nat \ {0} /\ MaxFileTime \in Nat \ {0}

VARIABLES
  tcDisk,      \* per file its text (a number, 0: no file), its time, whether the pattern occurs
  tcFolderAt,  \* time of the directory
  tcClock,     \* changes so far, which is what time is
  tcKept,      \* files and dirs: entries of contents and listings
  tcSearches,  \* searches: the answer for the pattern alone ("one") and with others ("many")
  tcJob        \* per goroutine, what it is about and has in hand

tcVars == <<tcDisk, tcFolderAt, tcClock, tcKept, tcSearches, tcJob>>

Paths == Files \cup {Folder}
Exists(f) == tcDisk[f].text # 0

Content(p) == IF p = Folder THEN {f \in Files : Exists(f)} ELSE tcDisk[p].text
ModTime(p) == IF p = Folder THEN tcFolderAt ELSE tcDisk[p].time
Present(p) == p \in Files => Exists(p)

(* What a search finds: the files with the pattern, in their present texts. *)
Matches == {[file |-> f, text |-> tcDisk[f].text] : f \in {g \in Files : tcDisk[g].has}}
collectFilePaths(found) == {m.file : m \in found}

(* f[p] is gone, or is v. *)
Without(f, gone) == [q \in DOMAIN f \ gone |-> f[q]]
With(f, p, v) == [q \in DOMAIN f \cup {p} |-> IF q = p THEN v ELSE f[q]]

NoEntry == [content |-> 0, time |-> 0, clean |-> TRUE]
NoAnswer == [found |-> {}, affected |-> {}, others |-> {}]
Idle == [at |-> "idle", on |-> Folder, entry |-> NoEntry, answer |-> NoAnswer]
Nothing == [p \in {} |-> NoEntry]

TcInit ==
  /\ tcDisk \in [Files -> {[text |-> 0, time |-> 0, has |-> FALSE],
                           [text |-> 1, time |-> 1, has |-> TRUE]}]
  /\ tcFolderAt = 1
  /\ tcClock = 1
  /\ tcKept = Nothing
  /\ tcSearches = Nothing
  /\ tcJob = [r \in Readers |-> Idle]

-----------------------------------------------------------------------------
(* GetFile, GetDir: read_file and list_dir, and a search for the functions *)
(* around what it has found, look into the cache first.                    *)

Goes(r, place) == tcJob' = [tcJob EXCEPT ![r].at = place]

Read(r, p) ==
  /\ tcJob[r].at = "idle"
  /\ tcJob' = [tcJob EXCEPT ![r] =
       [Idle EXCEPT !.at = IF p \in DOMAIN tcKept THEN "stat" ELSE "load", !.on = p,
                    !.entry = IF p \in DOMAIN tcKept THEN tcKept[p] ELSE NoEntry]]
  /\ UNCHANGED <<tcDisk, tcFolderAt, tcClock, tcKept, tcSearches>>

Unchanged(p, entry) == Present(p) /\ ModTime(p) <= entry.time

StatEntry(r) ==
  /\ tcJob[r].at = "stat"
  /\ Goes(r, IF Unchanged(tcJob[r].on, tcJob[r].entry) THEN "touch" ELSE "drop")
  /\ UNCHANGED <<tcDisk, tcFolderAt, tcClock, tcKept, tcSearches>>

(* Slip: the entry is brought up to date with the file it was compared to. *)
TouchRenewed(r) ==
  /\ tcJob[r].at = "touch"
  /\ Present(tcJob[r].on)
  /\ tcKept' = With(tcKept, tcJob[r].on, [tcJob[r].entry EXCEPT !.time = ModTime(tcJob[r].on)])
  /\ tcJob' = [tcJob EXCEPT ![r] = Idle]
  /\ UNCHANGED <<tcDisk, tcFolderAt, tcClock, tcSearches>>

(* The entry is put back as it was read, over what came meanwhile. *)
TouchEntry(r) ==
  /\ tcJob[r].at = "touch"
  /\ tcKept' = With(tcKept, tcJob[r].on, tcJob[r].entry)
  /\ tcJob' = [tcJob EXCEPT ![r] = Idle]
  /\ UNCHANGED <<tcDisk, tcFolderAt, tcClock, tcSearches>>

DropEntry(r) ==
  /\ tcJob[r].at = "drop"
  /\ tcKept' = Without(tcKept, {tcJob[r].on})
  /\ Goes(r, "load")
  /\ UNCHANGED <<tcDisk, tcFolderAt, tcClock, tcSearches>>

LoadContent(r) ==
  /\ tcJob[r].at = "load"
  /\ LET p == tcJob[r].on
     IN tcJob' = [tcJob EXCEPT ![r] =
          IF Present(p) THEN [@ EXCEPT !.at = "restat", !.entry.content = Content(p)] ELSE Idle]
  /\ UNCHANGED <<tcDisk, tcFolderAt, tcClock, tcKept, tcSearches>>

(* SetFile, SetDir: the time is that of the file now, not when it was      *)
(* read; "clean" is a ghost, false when it has changed in between.         *)
StatForStore(r) ==
  /\ tcJob[r].at = "restat"
  /\ LET p == tcJob[r].on
     IN tcJob' = [tcJob EXCEPT ![r] =
          IF Present(p)
          THEN [@ EXCEPT !.at = "set", !.entry.time = ModTime(p),
                         !.entry.clean = Content(p) = tcJob[r].entry.content]
          ELSE Idle]
  /\ UNCHANGED <<tcDisk, tcFolderAt, tcClock, tcKept, tcSearches>>

(* pruneOldestEntries: over the limit, the oldest and a tenth more go;     *)
(* which are the oldest is left open.                                      *)
Pruned(kept, p) ==
  LET files == DOMAIN kept \cap Files
      over == Cardinality(files) - MaxFileCacheEntries + MaxFileCacheEntries \div 10
  IN IF Cardinality(files) <= MaxFileCacheEntries THEN {kept}
     ELSE {Without(kept, gone) : gone \in {g \in SUBSET (files \ {p}) : Cardinality(g) = over}}

StoreEntry(r) ==
  /\ tcJob[r].at = "set"
  /\ tcKept' \in Pruned(With(tcKept, tcJob[r].on, tcJob[r].entry), tcJob[r].on)
  /\ tcJob' = [tcJob EXCEPT ![r] = Idle]
  /\ UNCHANGED <<tcDisk, tcFolderAt, tcClock, tcSearches>>

-----------------------------------------------------------------------------
(* search_code with one pattern, and with several, of which the others are *)
(* left out.  An answer from the cache changes nothing; a search reads all *)
(* files in one step; "others" is a ghost, the files that others changed   *)
(* since.                                                                  *)

Found == [found |-> Matches, affected |-> collectFilePaths(Matches), others |-> {}]

Search(r) ==
  /\ tcJob[r].at = "idle"
  /\ "one" \notin DOMAIN tcSearches
  /\ tcJob' = [tcJob EXCEPT ![r] = [Idle EXCEPT !.at = "one", !.answer = Found]]
  /\ UNCHANGED <<tcDisk, tcFolderAt, tcClock, tcKept, tcSearches>>

(* Each pattern is searched for by itself, out of the cache if it is there. *)
SearchMany(r) ==
  /\ tcJob[r].at = "idle"
  /\ "many" \notin DOMAIN tcSearches
  /\ tcJob' = [tcJob EXCEPT ![r] =
       IF "one" \in DOMAIN tcSearches
       THEN [Idle EXCEPT !.at = "many", !.answer = tcSearches["one"]]
       ELSE [Idle EXCEPT !.at = "each", !.answer = Found]]
  /\ UNCHANGED <<tcDisk, tcFolderAt, tcClock, tcKept, tcSearches>>

(* Nothing found is not kept, except among several patterns. *)
SetSearch(r) ==
  LET job == tcJob[r]
  IN /\ job.at \in {"one", "each", "many"}
     /\ tcSearches' = CASE job.at = "many" -> With(tcSearches, "many", job.answer)
                        [] job.answer.found = {} -> tcSearches
                        [] OTHER -> With(tcSearches, "one", job.answer)
     /\ tcJob' = [tcJob EXCEPT ![r] = IF job.at = "each" THEN [@ EXCEPT !.at = "many"] ELSE Idle]
     /\ UNCHANGED <<tcDisk, tcFolderAt, tcClock, tcKept>>

-----------------------------------------------------------------------------
(* Changes of files *)

Written == {[text |-> tcClock + 1, time |-> tcClock + 1, has |-> b] : b \in BOOLEAN}
Removed == [text |-> 0, time |-> 0, has |-> FALSE]

ChangeFile(f, new) ==
  /\ tcClock < MaxFileTime
  /\ tcClock' = tcClock + 1
  /\ tcDisk' = [tcDisk EXCEPT ![f] = new]
  /\ tcFolderAt' = IF Exists(f) = (new.text # 0) THEN tcFolderAt ELSE tcClock + 1

(* ToolBatch.SequentialRunsAlone *)
Alone == \A r \in Readers : tcJob[r].at = "idle"

(* Slip: the first answer about the file goes, the others stay. *)
ForgetFirst(f) ==
  LET about == {k \in DOMAIN tcSearches : f \in tcSearches[k].affected}
  IN tcSearches' = Without(tcSearches, IF "one" \in about THEN {"one"} ELSE about)

InvalidateSearchCacheForFile(f) ==
  tcSearches' = Without(tcSearches, {k \in DOMAIN tcSearches : f \in tcSearches[k].affected})

(* write_file, str_replace; one that fails forgets all the same. *)
WriteFile(f) ==
  /\ Alone
  /\ \/ \E new \in Written : ChangeFile(f, new)
     \/ UNCHANGED <<tcDisk, tcFolderAt, tcClock>>
  /\ tcKept' = Without(tcKept, {f})
  /\ InvalidateSearchCacheForFile(f)
  /\ UNCHANGED tcJob

(* delete_file *)
DeleteFile(f) ==
  /\ Alone
  /\ Exists(f)
  /\ ChangeFile(f, Removed)
  /\ tcKept' = Without(tcKept, {f, Folder})
  /\ InvalidateSearchCacheForFile(f)
  /\ UNCHANGED tcJob

(* apply_patch, run_skill_script and bash, unless its command is known to  *)
(* read only, may change any file: Clear.                                  *)
ChangeAny(f) ==
  /\ Alone
  /\ \E new \in Written \cup {Removed} : new.text # tcDisk[f].text /\ ChangeFile(f, new)
  /\ tcKept' = Nothing
  /\ tcSearches' = Nothing
  /\ UNCHANGED tcJob

(* Others change a file, which the cache is not told. *)
ChangedByOthers(f) ==
  /\ \E new \in Written \cup {Removed} : new.text # tcDisk[f].text /\ ChangeFile(f, new)
  /\ tcSearches' = [k \in DOMAIN tcSearches |-> [tcSearches[k] EXCEPT !.others = @ \cup {f}]]
  /\ tcJob' = [r \in Readers |->
       IF tcJob[r].at \in {"one", "each", "many"}
       THEN [tcJob[r] EXCEPT !.answer.others = @ \cup {f}] ELSE tcJob[r]]
  /\ UNCHANGED tcKept

-----------------------------------------------------------------------------
(* Load: entries of files that are gone or newer are left out. *)
Load(stored) == [p \in {q \in DOMAIN stored : Unchanged(q, stored[q])} |-> stored[p]]

(* The process ends and another one starts.  Save has stored contents and  *)
(* listings and no searches; or it failed, was killed before or inside it, *)
(* and what cannot be read is removed.  What an older process had stored   *)
(* loads as this one would have kept it unused, times being compared by    *)
(* Load only.                                                              *)
NextProcess ==
  /\ tcKept' \in {Load(tcKept), Nothing}
  /\ tcSearches' = Nothing
  /\ tcJob' = [r \in Readers |-> Idle]
  /\ UNCHANGED <<tcDisk, tcFolderAt, tcClock>>

-----------------------------------------------------------------------------
Reader(r) ==
  \/ \E p \in Paths : Read(r, p)
  \/ StatEntry(r) \/ TouchEntry(r) \/ DropEntry(r) \/ LoadContent(r)
  \/ StatForStore(r) \/ StoreEntry(r)
  \/ Search(r) \/ SearchMany(r) \/ SetSearch(r)

TcNext ==
  \/ \E r \in Readers : Reader(r)
  \/ \E f \in Files : WriteFile(f) \/ DeleteFile(f) \/ ChangeAny(f) \/ ChangedByOthers(f)
  \/ NextProcess

TcSpec == TcInit /\ [][TcNext]_tcVars

-----------------------------------------------------------------------------
Texts == [content : 0 .. MaxFileTime, time : 0 .. MaxFileTime, clean : BOOLEAN]
Listings == [content : SUBSET Files, time : 0 .. MaxFileTime, clean : BOOLEAN]
Answers == [found : SUBSET [file : Files, text : 1 .. MaxFileTime],
            affected : SUBSET Files, others : SUBSET Files]

EntryOK(p, e) == e \in (IF p = Folder THEN Listings ELSE Texts)

TcTypeOK ==
  /\ \A f \in Files : tcDisk[f] \in
       [text : 0 .. MaxFileTime, time : 0 .. MaxFileTime, has : BOOLEAN]
  /\ tcClock \in 1 .. MaxFileTime /\ tcFolderAt \in 1 .. tcClock
  /\ DOMAIN tcKept \subseteq Paths /\ \A p \in DOMAIN tcKept : EntryOK(p, tcKept[p])
  /\ DOMAIN tcSearches \subseteq {"one", "many"}
  /\ \A k \in DOMAIN tcSearches : tcSearches[k] \in Answers
  /\ \A r \in Readers :
       /\ tcJob[r].at \in {"idle", "stat", "touch", "drop", "load", "restat", "set",
                           "one", "each", "many"}
       /\ tcJob[r].on \in Paths /\ tcJob[r].answer \in Answers

(* An entry that would be used tells what the file holds, whatever tools,  *)
(* others and restarts have done and however the goroutines put entries    *)
(* back over each other: unless the file changed after it was read and     *)
(* before its time was taken, which nothing notices later.                 *)
CachedReadCurrent ==
  \A p \in DOMAIN tcKept :
    tcKept[p].clean /\ Unchanged(p, tcKept[p]) => tcKept[p].content = Content(p)

(* What an answer from the cache says of a file it lists is true, also     *)
(* right after the agent has changed that file; it may be wrong of files   *)
(* that others have changed, and may lack files that had no match when it  *)
(* was found.                                                              *)
AnswerKnowsOwnEdits ==
  \A k \in DOMAIN tcSearches :
    \A f \in tcSearches[k].affected \ tcSearches[k].others :
      {m \in tcSearches[k].found : m.file = f} = {m \in Matches : m.file = f}
=============================================================================
