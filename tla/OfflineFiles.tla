------------------------------ MODULE OfflineFiles ------------------------------
(***************************************************************************)
(* Query results and cardinalities that outlive a process: ResultCache     *)
(* (db/_cache.py) and OfflineCardinalities (opt/_cardinalities.py).  Both  *)
(* read a file when they are created, answer from memory, and write the    *)
(* whole file when the process exits.  Several processes, and several      *)
(* objects in one process, may use the same file; nothing locks it.        *)
(*                                                                         *)
(* An entry says whose answer it is and in which form the caller gets it:  *)
(* as the database gave it ("rows"), as the lists JSON makes of its rows,  *)
(* or as an unknown cardinality.                                           *)
(***************************************************************************)
EXTENDS Integers, SequencesExt, FiniteSetsExt

CONSTANTS
  Processes,
  Queries,
  Slow,       \* the queries whose execution may run into the estimator's timeout
  NotJson,    \* the queries whose rows JSON cannot express (decimals, binary data)
  Programs,   \* what the processes may do with files: kind, database, file, update it or not,
              \* one cache for all callers in the process or not
  NoFile,     \* a cache that stays in memory
  MaxStarts,  \* bound: processes that are started
  MaxStores   \* bound: caches and estimators in one process

Uses == UNION Programs
Files == {use.file : use \in Uses} \ {NoFile}

ASSUME UsesAssumption ==
  \A use \in Uses : /\ use.kind \in {"cache", "cards"} /\ {use.updates, use.shared} \subseteq BOOLEAN
                    /\ use.kind = "cards" => ~use.shared
                    /\ use.file = NoFile => use.kind = "cache" /\ ~use.updates
                    /\ use.kind = "cache" /\ use.file # NoFile => use.updates
ASSUME KindsHaveTheirFiles ==
  \A use, other \in Uses : use.file = other.file => use.kind = other.kind
ASSUME BoundsAssumption == {MaxStarts, MaxStores} \subseteq Nat /\ NotJson \union Slow \subseteq Queries

VARIABLES
  program,     \* the uses the processes make of files
  starts,      \* processes started so far
  proc,        \* "off", "running" or "exiting"
  stores,      \* the caches and estimators of each process
  atexit,      \* the stores to dump, in the order of their registration
  writing,     \* the store a process is dumping, and whether it is alone with the file
  disk,        \* the files
  overlapped,  \* files that two stores meant to write at the same time
  damaged,     \* files whose dump was broken off
  saved        \* the queries that were written to each file

vars == << program, starts, proc, stores, atexit, writing, disk, overlapped, damaged, saved >>

Nothing == [q \in {} |-> q]
NotWriting == [store |-> 0, alone |-> TRUE]
Torn == [state |-> "torn", entries |-> Nothing]

Init ==
  /\ program \in Programs
  /\ starts = 0
  /\ proc = [p \in Processes |-> "off"]
  /\ stores = [p \in Processes |-> << >>]
  /\ atexit = [p \in Processes |-> << >>]
  /\ writing = [p \in Processes |-> NotWriting]
  /\ disk = [f \in Files |-> [state |-> "missing", entries |-> Nothing]]
  /\ overlapped = {} /\ damaged = {}
  /\ saved = [f \in Files |-> {}]

StartProcess(p) ==
  /\ proc[p] = "off" /\ starts < MaxStarts
  /\ starts' = starts + 1
  /\ proc' = [proc EXCEPT ![p] = "running"]
  /\ UNCHANGED << program, stores, atexit, writing, disk, overlapped, damaged, saved >>

-------------------------------------------------------------------------------
(* Creating a cache or an estimator. *)

\* _caches
SharedCache(p, use) ==
  {i \in DOMAIN stores[p] : stores[p][i].use = use}

\* A store that may still write its file.
Pending(p, i) ==
  /\ stores[p][i].use.updates
  /\ proc[p] = "running" \/ i \in Range(atexit[p]) \/ writing[p].store = i

InUse(f) == \E p \in Processes : \E i \in DOMAIN stores[p] :
              stores[p][i].use.file = f /\ Pending(p, i)

Loaded(f) == IF f = NoFile THEN Nothing ELSE disk[f].entries

\* A cache registers its dump after it has read the file, an estimator when it has
\* something to add.
NewStore(p, use) ==
  /\ proc[p] = "running" /\ Len(stores[p]) < MaxStores
  /\ use.file # NoFile => disk[use.file].state # "torn"
  /\ stores' = [stores EXCEPT ![p] =
                  Append(@, [use |-> use, entries |-> Loaded(use.file)])]
  /\ atexit' = IF use.kind = "cache" /\ use.file # NoFile
               THEN [atexit EXCEPT ![p] = Append(@, Len(stores[p]) + 1)] ELSE atexit
  /\ overlapped' = overlapped \union {f \in {use.file} : use.updates /\ InUse(f)}
  /\ UNCHANGED << program, starts, proc, writing, disk, damaged, saved >>

\* Variant: every call makes a cache of its own.
CreateCacheAnew(p, use) == use.shared /\ NewStore(p, use)

\* create_cache gives the existing cache if there is one.
CreateCache(p, use) ==
  /\ use.shared
  /\ SharedCache(p, use) = {}
  /\ NewStore(p, use)

\* The constructors of ResultCache and OfflineCardinalities.
Construct(p, use) == ~use.shared /\ NewStore(p, use)

\* Variant: the dump is registered before the file is read.
LoadFailsAfterRegistration(p, use) ==
  /\ proc[p] = "running" /\ Len(stores[p]) < MaxStores
  /\ use.shared => SharedCache(p, use) = {}
  /\ use.kind = "cache" /\ use.file # NoFile /\ disk[use.file].state # "missing"
  /\ stores' = [stores EXCEPT ![p] =
                  Append(@, [use |-> use, entries |-> Nothing])]
  /\ atexit' = [atexit EXCEPT ![p] = Append(@, Len(stores[p]) + 1)]
  /\ overlapped' = overlapped \union {f \in {use.file} : InUse(f)}
  /\ proc' = [proc EXCEPT ![p] = "exiting"]
  /\ UNCHANGED << program, starts, writing, disk, damaged, saved >>

\* The file is malformed or reading it is interrupted: the exception ends the process,
\* whose other stores are dumped as usual.
LoadFails(p, use) ==
  /\ proc[p] = "running" /\ Len(stores[p]) < MaxStores
  /\ use.shared => SharedCache(p, use) = {}
  /\ use.file # NoFile /\ disk[use.file].state # "missing"
  /\ proc' = [proc EXCEPT ![p] = "exiting"]
  /\ UNCHANGED << program, starts, stores, atexit, writing, disk, overlapped, damaged, saved >>

-------------------------------------------------------------------------------
(* Answering queries.  An answer from memory changes nothing. *)

Known(entries, q, entry) ==
  [k \in DOMAIN entries \union {q} |-> IF k = q THEN entry ELSE entries[k]]

Fresh(p, i, q, entry) ==
  /\ proc[p] = "running" /\ q \notin DOMAIN stores[p][i].entries
  /\ stores' = [stores EXCEPT ![p][i].entries = Known(@, q, entry)]
  /\ UNCHANGED << program, starts, proc, writing, disk, overlapped, damaged, saved >>

ExecuteQuery(p, i, q) ==
  /\ stores[p][i].use.kind = "cache"
  /\ Fresh(p, i, q, [from |-> stores[p][i].use.db, as |-> "rows"])
  /\ UNCHANGED atexit

\* An estimator that has timed out knows as much as one that has an answer.
EstimateByFallback(p, i, q) ==
  /\ stores[p][i].use.kind = "cards"
  /\ \E form \in {"rows"} \union (IF q \in Slow THEN {"unknown"} ELSE {}) :
       Fresh(p, i, q, [from |-> stores[p][i].use.db, as |-> form])
  /\ atexit' = IF stores[p][i].use.updates /\ i \notin Range(atexit[p])
               THEN [atexit EXCEPT ![p] = Append(@, i)] ELSE atexit

-------------------------------------------------------------------------------
(* Leaving. *)

Exit(p) ==
  /\ proc[p] = "running"
  /\ proc' = [proc EXCEPT ![p] = "exiting"]
  /\ UNCHANGED << program, starts, stores, atexit, writing, disk, overlapped, damaged, saved >>

FileWrittenBy(p) == IF writing[p].store = 0 THEN NoFile ELSE stores[p][writing[p].store].use.file

\* The handlers run in the reverse order of their registration.  Opening the file
\* empties it.
OpenDump(p) ==
  /\ proc[p] = "exiting" /\ writing[p] = NotWriting /\ atexit[p] # << >>
  /\ LET store == Last(atexit[p])
         file == stores[p][store].use.file
         others == {r \in Processes : FileWrittenBy(r) = file}
     IN /\ writing' = [r \in Processes |->
                         IF r = p THEN [store |-> store, alone |-> others = {}]
                         ELSE [writing[r] EXCEPT !.alone = @ /\ r \notin others]]
        /\ disk' = [disk EXCEPT ![file] = Torn]
  /\ atexit' = [atexit EXCEPT ![p] = Front(@)]
  /\ UNCHANGED << program, starts, proc, stores, overlapped, damaged, saved >>

\* What is left of an entry after it was written and read.
Reloaded(kind, entry) ==
  IF kind = "cache" THEN [entry EXCEPT !.as = "lists"] ELSE entry

Serializable(store) == store.use.kind = "cache" => DOMAIN store.entries \intersect NotJson = {}

WriteDump(p) ==
  /\ writing[p] # NotWriting
  /\ LET store == stores[p][writing[p].store]
         file == store.use.file
     IN /\ Serializable(store)
        /\ disk' = [disk EXCEPT ![file] =
                      [state |-> "complete",
                       entries |-> [q \in DOMAIN store.entries |->
                                      Reloaded(store.use.kind, store.entries[q])]]]
        /\ saved' = [saved EXCEPT ![file] = @ \union DOMAIN store.entries]
  /\ writing' = [writing EXCEPT ![p] = NotWriting]
  /\ UNCHANGED << program, starts, proc, stores, atexit, overlapped, damaged >>

\* A value that JSON cannot express, or two processes that write into each other's text.
DumpFails(p) ==
  /\ writing[p] # NotWriting
  /\ LET store == stores[p][writing[p].store]
         file == store.use.file
     IN /\ ~Serializable(store) \/ ~writing[p].alone
        /\ disk' = [disk EXCEPT ![file] = Torn]
        /\ damaged' = damaged \union {file}
  /\ writing' = [writing EXCEPT ![p] = NotWriting]
  /\ UNCHANGED << program, starts, proc, stores, atexit, overlapped, saved >>

Cleared(p) ==
  /\ proc' = [proc EXCEPT ![p] = "off"]
  /\ stores' = [stores EXCEPT ![p] = << >>]
  /\ atexit' = [atexit EXCEPT ![p] = << >>]
  /\ writing' = [writing EXCEPT ![p] = NotWriting]

Terminate(p) ==
  /\ proc[p] = "exiting" /\ writing[p] = NotWriting /\ atexit[p] = << >>
  /\ Cleared(p)
  /\ UNCHANGED << program, starts, disk, overlapped, damaged, saved >>

\* The process is killed: no handler runs, and an open dump stays as it is.
Crash(p) ==
  /\ proc[p] # "off"
  /\ Cleared(p)
  /\ damaged' = damaged \union ({FileWrittenBy(p)} \ {NoFile})
  /\ UNCHANGED << program, starts, disk, overlapped, saved >>

Next ==
  \E p \in Processes :
    \/ StartProcess(p)
    \/ \E use \in program : CreateCache(p, use) \/ Construct(p, use) \/ LoadFails(p, use)
    \/ \E i \in DOMAIN stores[p], q \in Queries :
         ExecuteQuery(p, i, q) \/ EstimateByFallback(p, i, q)
    \/ Exit(p) \/ OpenDump(p) \/ WriteDump(p) \/ DumpFails(p)
    \/ Terminate(p) \/ Crash(p)

Spec == Init /\ [][Next]_vars
-------------------------------------------------------------------------------
(* Properties. *)

\* "Some cache updates being lost": a result that was written to a file is lost, or the
\* file unreadable, only if two stores had it open for update at the same time or a dump
\* was broken off.  Processes that fail to read the file, are interrupted, die before they
\* dump, or use the file one after the other lose nothing.
NothingIsLost ==
  \A f \in Files \ (overlapped \union damaged) :
    (\A p \in Processes : FileWrittenBy(p) # f) =>
       disk[f].state # "torn" /\ saved[f] \subseteq DOMAIN disk[f].entries

Extends(after, before) ==
  \A q \in DOMAIN before : q \in DOMAIN after /\ after[q] = before[q]

AnswersStay ==
  \A p \in Processes : \A i \in DOMAIN stores[p] : \A j \in DOMAIN stores'[p] :
    stores[p][i].use.shared /\ stores[p][i].use = stores'[p][j].use =>
      Extends(stores'[p][j].entries, stores[p][i].entries)

\* "Repeated calls with the same db and offline_cache combination return the exact same
\* ResultCache": whatever other processes make of the file, a process that has been given
\* an answer by a shared cache is given the same one for the rest of its life.
AnswersAreStable == [][AnswersStay]_vars

\* An answer comes from another database only if the same file is used for both.
AnswersAreOwn ==
  \A p \in Processes : \A i \in DOMAIN stores[p] :
    LET use == stores[p][i].use
        entries == stores[p][i].entries
    IN \A q \in DOMAIN entries :
         \/ entries[q].from = use.db
         \/ /\ use.file # NoFile
            /\ \E other \in program : other.file = use.file /\ other.db = entries[q].from
===============================================================================
