-------------------------- MODULE OfflineFilesProofs --------------------------
(***************************************************************************)
(* For any processes, queries and programs: what was written to a file is  *)
(* lost only in the situations NothingIsLost names, answers come from a    *)
(* database the file is used for, and those of a shared cache stay.        *)
(***************************************************************************)
EXTENDS OfflineFiles, SequenceTheorems, TLAPS

Entry == [from : {use.db : use \in Uses}, as : {"rows", "lists", "unknown"}]
Entries == UNION {[known -> Entry] : known \in SUBSET Queries}
Store == [use : Uses, entries : Entries]

Types ==
  /\ program \in Programs
  /\ proc \in [Processes -> {"off", "running", "exiting"}]
  /\ stores \in [Processes -> Seq(Store)]
  /\ atexit \in [Processes -> Seq(Nat)]
  /\ writing \in [Processes -> [store : Nat, alone : BOOLEAN]]
  /\ disk \in [Files -> [state : {"missing", "torn", "complete"}, entries : Entries]]
  /\ saved \in [Files -> SUBSET Queries]

\* Only a process that runs or exits has stores; only stores that update their file are
\* dumped.
Handlers(p) ==
  /\ proc[p] = "off" => stores[p] = << >>
  /\ \A i \in DOMAIN stores[p] : stores[p][i].use \in program
  /\ \A k \in DOMAIN atexit[p] :
       atexit[p][k] \in DOMAIN stores[p] /\ stores[p][atexit[p][k]].use.updates
  /\ writing[p] # NotWriting =>
       /\ proc[p] = "exiting"
       /\ writing[p].store \in DOMAIN stores[p] /\ stores[p][writing[p].store].use.updates

\* A file that was never used at the same time and whose dumps all succeeded has one store
\* at most that may still write it; this store knows all that was ever written, and so does
\* the file unless it is being written.
OnlyWriter(f) ==
  \A p, r \in Processes : \A i \in DOMAIN stores[p], j \in DOMAIN stores[r] :
    /\ stores[p][i].use.file = f /\ Pending(p, i)
    /\ stores[r][j].use.file = f /\ Pending(r, j)
    => p = r /\ i = j

WriterKnows(f) ==
  \A p \in Processes : \A i \in DOMAIN stores[p] :
    stores[p][i].use.file = f /\ Pending(p, i) => saved[f] \subseteq DOMAIN stores[p][i].entries

DiskKnows(f) ==
  (\A p \in Processes : FileWrittenBy(p) # f) =>
    disk[f].state # "torn" /\ saved[f] \subseteq DOMAIN disk[f].entries

Unharmed == Files \ (overlapped \union damaged)

FilesAreSafe == \A f \in Unharmed : OnlyWriter(f) /\ WriterKnows(f) /\ DiskKnows(f)

\* What a file holds comes from a database it is used for.
DiskIsOwn ==
  \A f \in Files : \A q \in DOMAIN disk[f].entries :
    \E other \in program : other.file = f /\ other.db = disk[f].entries[q].from

\* There is one shared cache of each kind in a process.
SharedOnce ==
  \A p \in Processes : \A i, j \in DOMAIN stores[p] :
    stores[p][i].use.shared /\ stores[p][i].use = stores[p][j].use => i = j

IInv ==
  /\ Types
  /\ \A p \in Processes : Handlers(p)
  /\ FilesAreSafe
  /\ AnswersAreOwn /\ DiskIsOwn
  /\ SharedOnce

-------------------------------------------------------------------------------
(* Facts about single states. *)

LEMMA FileOfUse == ASSUME Types, NEW use \in program PROVE use \in Uses /\ (use.updates => use.file \in Files)
  BY UsesAssumption DEF UsesAssumption, Types, Uses, Files

LEMMA NoEntries == Nothing \in Entries /\ DOMAIN Nothing = {}
<1>1. Nothing \in [{} -> Entry]
  BY DEF Nothing
<1> QED
  BY <1>1 DEF Entries, Nothing

LEMMA EntriesOfDomain == ASSUME NEW e \in Entries PROVE DOMAIN e \subseteq Queries /\ e \in [DOMAIN e -> Entry]
  BY DEF Entries

LEMMA LoadedTypes == ASSUME Types, NEW f \in Files \union {NoFile} PROVE Loaded(f) \in Entries
  BY NoEntries DEF Types, Loaded

\* Who writes a file may write it.
LEMMA WriterIsPending ==
  ASSUME Types, NEW p \in Processes, Handlers(p), NEW f \in Files, FileWrittenBy(p) = f
  PROVE  /\ writing[p].store \in DOMAIN stores[p]
         /\ stores[p][writing[p].store].use.file = f
         /\ Pending(p, writing[p].store)
<1>1. f # NoFile
  BY DEF Files
<1>2. writing[p].store # 0
  BY <1>1 DEF FileWrittenBy
<1>3. writing[p] # NotWriting
  BY <1>2 DEF NotWriting
<1> QED
  BY <1>2, <1>3 DEF Handlers, FileWrittenBy, Pending

\* A handler is registered behind the others.
LEMMA AppendedHandler ==
  ASSUME Types, NEW p \in Processes, NEW i \in Nat, NEW updates,
         atexit' = atexit \/ (updates /\ atexit' = [atexit EXCEPT ![p] = Append(atexit[p], i)])
  PROVE  /\ atexit' \in [Processes -> Seq(Nat)] /\ \A r \in Processes \ {p} : atexit'[r] = atexit[r]
         /\ \A k \in DOMAIN atexit'[p] :
              \/ k \in DOMAIN atexit[p] /\ atexit'[p][k] = atexit[p][k]
              \/ updates /\ atexit'[p][k] = i
<1>1. atexit \in [Processes -> Seq(Nat)] /\ atexit[p] \in Seq(Nat)
  BY DEF Types
<1>2. Append(atexit[p], i) \in Seq(Nat)
  BY <1>1, AppendProperties
<1>3. atexit' \in [Processes -> Seq(Nat)] /\ \A r \in Processes \ {p} : atexit'[r] = atexit[r]
  BY <1>1, <1>2
<1>4. CASE atexit' = atexit
  BY <1>3, <1>4
<1>5. CASE updates /\ atexit' = [atexit EXCEPT ![p] = Append(atexit[p], i)]
  <2>1. atexit'[p] = Append(atexit[p], i)
    BY <1>1, <1>5
  <2>2. Len(atexit'[p]) = Len(atexit[p]) + 1
    BY <1>1, <2>1, AppendProperties
  <2>3. DOMAIN atexit'[p] = 1 .. Len(atexit[p]) + 1 /\ DOMAIN atexit[p] = 1 .. Len(atexit[p])
    BY <1>1, <1>2, <2>1, <2>2, LenProperties
  <2> QED
    BY <1>1, <1>3, <1>5, <2>1, <2>3, AppendProperties, LenProperties
<1> QED
  BY <1>4, <1>5

-------------------------------------------------------------------------------
(* Initial states. *)

LEMMA InitIInv == Init => IInv
<1> SUFFICES ASSUME Init PROVE IInv
  OBVIOUS
<1>1. Types
  BY NoEntries DEF Init, Types, NotWriting
<1>2. \A p \in Processes : Handlers(p) /\ DOMAIN stores[p] = {} /\ DOMAIN atexit[p] = {}
  BY DEF Init, Handlers, NotWriting
<1>3. FilesAreSafe
  BY <1>2, NoEntries DEF Init, FilesAreSafe, Unharmed, OnlyWriter, WriterKnows, DiskKnows
<1>4. AnswersAreOwn /\ SharedOnce
  BY <1>2 DEF AnswersAreOwn, SharedOnce
<1>5. DiskIsOwn
  BY NoEntries DEF Init, DiskIsOwn
<1> QED
  BY <1>1, <1>2, <1>3, <1>4, <1>5 DEF IInv

-------------------------------------------------------------------------------
(* Steps that give no store more to write and no file other contents. *)

\* Stores that may still write could do so before, and know no less.
FewerWriters ==
  \A p \in Processes : \A i \in DOMAIN stores'[p] :
    Pending(p, i)' =>
      /\ i \in DOMAIN stores[p] /\ Pending(p, i)
      /\ stores'[p][i].use = stores[p][i].use
      /\ DOMAIN stores[p][i].entries \subseteq DOMAIN stores'[p][i].entries

LEMMA FewerWritersKnow ==
  ASSUME FilesAreSafe, FewerWriters, UNCHANGED saved, NEW f \in Unharmed
  PROVE  OnlyWriter(f)' /\ WriterKnows(f)'
<1>1. OnlyWriter(f) /\ WriterKnows(f)
  BY DEF FilesAreSafe
<1>2. OnlyWriter(f)'
  BY <1>1 DEF OnlyWriter, FewerWriters
<1>3. WriterKnows(f)'
  BY <1>1 DEF WriterKnows, FewerWriters
<1> QED
  BY <1>2, <1>3

LEMMA FewerWritersAreSafe ==
  ASSUME FilesAreSafe, FewerWriters, UNCHANGED << disk, saved >>,
         overlapped \subseteq overlapped', damaged \subseteq damaged',
         \A p \in Processes : \A f \in Files \ damaged' : FileWrittenBy(p) = f => FileWrittenBy(p)' = f
  PROVE  FilesAreSafe'
<1> SUFFICES ASSUME NEW f \in Unharmed' PROVE (OnlyWriter(f) /\ WriterKnows(f) /\ DiskKnows(f))'
  BY DEF FilesAreSafe
<1>1. f \in Unharmed /\ f \in Files \ damaged'
  BY DEF Unharmed
<1>2. OnlyWriter(f)' /\ WriterKnows(f)'
  BY <1>1, FewerWritersKnow
<1>3. DiskKnows(f)
  BY <1>1 DEF FilesAreSafe
<1>4. DiskKnows(f)'
  BY <1>1, <1>3 DEF DiskKnows
<1> QED
  BY <1>2, <1>4

LEMMA StartProcessIInv == ASSUME IInv, NEW p \in Processes, StartProcess(p) PROVE IInv'
<1>1. Types /\ proc' = [proc EXCEPT ![p] = "running"] /\ DOMAIN stores[p] = {}
      /\ UNCHANGED << program, stores, atexit, writing, disk, overlapped, damaged, saved >>
  BY DEF IInv, Handlers, StartProcess
<1>2. Types'
  BY <1>1 DEF Types
<1>3. \A r \in Processes : Handlers(r)'
  BY <1>1 DEF IInv, Types, Handlers, StartProcess
<1>4. FewerWriters
  BY <1>1 DEF FewerWriters, Pending, Types
<1>5. FilesAreSafe'
  BY <1>1, <1>4, FewerWritersAreSafe DEF IInv, FileWrittenBy
<1>6. AnswersAreOwn' /\ DiskIsOwn' /\ SharedOnce'
  BY <1>1 DEF IInv, AnswersAreOwn, DiskIsOwn, SharedOnce
<1> QED
  BY <1>2, <1>3, <1>5, <1>6 DEF IInv

\* LoadFails and Exit.
LEMMA LeaveIInv ==
  ASSUME IInv, NEW p \in Processes, proc[p] = "running", proc' = [proc EXCEPT ![p] = "exiting"],
         UNCHANGED << program, stores, atexit, writing, disk, overlapped, damaged, saved >>
  PROVE  IInv'
<1>1. Types'
  BY DEF IInv, Types
<1>2. \A r \in Processes : Handlers(r)'
  BY DEF IInv, Types, Handlers
<1>3. FewerWriters
  BY DEF IInv, Types, FewerWriters, Pending
<1>4. FilesAreSafe'
  BY <1>3, FewerWritersAreSafe DEF IInv, FileWrittenBy
<1>5. AnswersAreOwn' /\ DiskIsOwn' /\ SharedOnce'
  BY DEF IInv, AnswersAreOwn, DiskIsOwn, SharedOnce
<1> QED
  BY <1>1, <1>2, <1>4, <1>5 DEF IInv

\* Terminate and Crash.
LEMMA ClearedIInv ==
  ASSUME IInv, NEW p \in Processes, Cleared(p),
         damaged' = damaged \/ damaged' = damaged \union ({FileWrittenBy(p)} \ {NoFile}),
         writing[p] = NotWriting \/ damaged' = damaged \union ({FileWrittenBy(p)} \ {NoFile}),
         UNCHANGED << program, disk, overlapped, saved >>
  PROVE  IInv'
<1>1. /\ proc' = [proc EXCEPT ![p] = "off"] /\ stores' = [stores EXCEPT ![p] = << >>]
      /\ atexit' = [atexit EXCEPT ![p] = << >>] /\ writing' = [writing EXCEPT ![p] = NotWriting]
  BY DEF Cleared
<1>2. Types
  BY DEF IInv
<1>3. Types'
  BY <1>1, <1>2 DEF Types, NotWriting
<1>4. /\ stores'[p] = << >> /\ atexit'[p] = << >> /\ writing'[p] = NotWriting
      /\ \A r \in Processes \ {p} : /\ stores'[r] = stores[r] /\ atexit'[r] = atexit[r]
                                    /\ writing'[r] = writing[r] /\ proc'[r] = proc[r]
  BY <1>1, <1>2 DEF Types
<1>5. \A r \in Processes : Handlers(r)'
  BY <1>4 DEF IInv, Handlers
<1>6. FewerWriters
  BY <1>4 DEF FewerWriters, Pending
<1>7. ASSUME NEW r \in Processes, NEW f \in Files \ damaged', FileWrittenBy(r) = f
      PROVE  FileWrittenBy(r)' = f
  <2>1. r # p
    BY <1>7 DEF FileWrittenBy, Files, NotWriting
  <2> QED
    BY <1>4, <1>7, <2>1 DEF FileWrittenBy
<1>8. FilesAreSafe'
  BY <1>6, <1>7, FewerWritersAreSafe DEF IInv
<1>9. AnswersAreOwn' /\ DiskIsOwn' /\ SharedOnce'
  BY <1>4 DEF IInv, AnswersAreOwn, DiskIsOwn, SharedOnce
<1> QED
  BY <1>3, <1>5, <1>8, <1>9 DEF IInv

-------------------------------------------------------------------------------
(* New answers. *)

\* What Fresh does to the stores.
LEMMA FreshStores ==
  ASSUME Types, NEW p \in Processes, NEW i \in DOMAIN stores[p], NEW q \in Queries, NEW entry \in Entry,
         Fresh(p, i, q, entry)
  PROVE  /\ stores' \in [Processes -> Seq(Store)]
         /\ \A r \in Processes : DOMAIN stores'[r] = DOMAIN stores[r]
         /\ \A r \in Processes : \A j \in DOMAIN stores[r] :
              /\ stores'[r][j].use = stores[r][j].use
              /\ << r, j >> # << p, i >> => stores'[r][j] = stores[r][j]
         /\ stores'[p][i].entries = Known(stores[p][i].entries, q, entry)
<1> DEFINE new == Known(stores[p][i].entries, q, entry)
<1>1. stores[p] \in Seq(Store) /\ stores[p][i] \in Store /\ i \in 1 .. Len(stores[p])
  BY LenProperties, ElementOfSeq DEF Types
<1>2. stores[p][i].entries \in Entries
  BY <1>1 DEF Store
<1>3. new \in Entries
  <2>1. DOMAIN new \subseteq Queries /\ new \in [DOMAIN new -> Entry]
    BY <1>2, EntriesOfDomain DEF Known
  <2> QED
    BY <2>1 DEF Entries
<1>4. stores' = [stores EXCEPT ![p] = [stores[p] EXCEPT ![i] = [stores[p][i] EXCEPT !.entries = new]]]
  BY DEF Fresh
<1>5. [stores[p][i] EXCEPT !.entries = new] \in Store
  BY <1>1, <1>3 DEF Store
<1>6. [stores[p] EXCEPT ![i] = [stores[p][i] EXCEPT !.entries = new]] \in Seq(Store)
  BY <1>1, <1>5, ExceptSeq
<1> HIDE DEF new
<1>7. stores' \in [Processes -> Seq(Store)]
  BY <1>4, <1>6 DEF Types
<1>8. \A r \in Processes : DOMAIN stores'[r] = DOMAIN stores[r]
  BY <1>4 DEF Types
<1>9. ASSUME NEW r \in Processes, NEW j \in DOMAIN stores[r]
      PROVE  /\ stores'[r][j].use = stores[r][j].use
             /\ << r, j >> # << p, i >> => stores'[r][j] = stores[r][j]
  BY <1>1, <1>4, <1>9 DEF Types, Store
<1>10. stores'[p][i].entries = new
  BY <1>1, <1>4 DEF Types, Store
<1> QED
  BY <1>7, <1>8, <1>9, <1>10 DEF new

LEMMA FreshIInv ==
  ASSUME IInv, NEW p \in Processes, NEW i \in DOMAIN stores[p], NEW q \in Queries, NEW entry \in Entry,
         Fresh(p, i, q, entry), entry.from = stores[p][i].use.db,
         \/ atexit' = atexit
         \/ stores[p][i].use.updates /\ atexit' = [atexit EXCEPT ![p] = Append(@, i)]
  PROVE  IInv'
<1>1. Types /\ proc[p] = "running" /\ Handlers(p)
      /\ UNCHANGED << program, proc, writing, disk, overlapped, damaged, saved >>
  BY DEF IInv, Fresh
<1>2. /\ stores' \in [Processes -> Seq(Store)]
      /\ \A r \in Processes : DOMAIN stores'[r] = DOMAIN stores[r]
      /\ \A r \in Processes : \A j \in DOMAIN stores[r] :
           /\ stores'[r][j].use = stores[r][j].use
           /\ << r, j >> # << p, i >> => stores'[r][j] = stores[r][j]
      /\ stores'[p][i].entries = Known(stores[p][i].entries, q, entry)
  BY <1>1, FreshStores
<1>3. i \in Nat
  BY <1>1, LenProperties DEF Types
<1>4. atexit' \in [Processes -> Seq(Nat)] /\ \A r \in Processes \ {p} : atexit'[r] = atexit[r]
  BY <1>1, <1>3, AppendedHandler
<1>5. \A k \in DOMAIN atexit'[p] :
        \/ k \in DOMAIN atexit[p] /\ atexit'[p][k] = atexit[p][k]
        \/ stores[p][i].use.updates /\ atexit'[p][k] = i
  BY <1>1, <1>3, AppendedHandler
<1>6. Types'
  BY <1>1, <1>2, <1>4 DEF Types
<1>7. ASSUME NEW r \in Processes PROVE Handlers(r)'
  <2>1. Handlers(r)
    BY DEF IInv
  <2>2. CASE r = p
    <3>1. /\ DOMAIN stores'[p] = DOMAIN stores[p]
          /\ \A j \in DOMAIN stores[p] : stores'[p][j].use = stores[p][j].use
      BY <1>2
    <3>2. \A k \in DOMAIN atexit'[p] :
            atexit'[p][k] \in DOMAIN stores[p] /\ stores[p][atexit'[p][k]].use.updates
      BY <1>1, <1>5 DEF Handlers
    <3>3. \A k \in DOMAIN atexit'[p] :
            atexit'[p][k] \in DOMAIN stores'[p] /\ stores'[p][atexit'[p][k]].use.updates
      BY <3>1, <3>2
    <3>4. proc'[p] = "running" /\ writing'[p] = NotWriting
      BY <1>1 DEF Handlers
    <3>5. \A j \in DOMAIN stores'[p] : stores'[p][j].use \in program'
      BY <1>1, <3>1 DEF Handlers
    <3> QED
      BY <2>2, <3>3, <3>4, <3>5 DEF Handlers
  <2>3. CASE r # p
    <3>1. stores'[r] = stores[r] /\ atexit'[r] = atexit[r]
      BY <1>1, <1>4, <2>3 DEF Fresh, Types
    <3> QED
      BY <1>1, <2>1, <3>1 DEF Handlers
  <2> QED
    BY <2>2, <2>3
<1>8. \A r \in Processes : \A j \in DOMAIN stores[r] :
        DOMAIN stores[r][j].entries \subseteq DOMAIN stores'[r][j].entries
  <2>1. DOMAIN stores[p][i].entries \subseteq DOMAIN stores'[p][i].entries
    BY <1>2 DEF Known
  <2> QED
    BY <1>2, <2>1
<1>9. \A r \in Processes : \A j \in DOMAIN stores[r] : Pending(r, j)' => Pending(r, j)
  <2>1. ASSUME NEW r \in Processes, NEW j \in DOMAIN stores[r], Pending(r, j)' PROVE Pending(r, j)
    <3>1. stores[r][j].use.updates
      BY <1>2, <2>1 DEF Pending
    <3>2. CASE r = p
      BY <1>1, <3>1, <3>2 DEF Pending
    <3>3. CASE r # p
      BY <1>1, <1>4, <2>1, <3>1, <3>3 DEF Pending
    <3> QED
      BY <3>2, <3>3
  <2> QED
    BY <2>1
<1>10. FewerWriters
  BY <1>2, <1>8, <1>9 DEF FewerWriters
<1>11. \A r \in Processes : FileWrittenBy(r)' = FileWrittenBy(r)
  <2>1. ASSUME NEW r \in Processes PROVE FileWrittenBy(r)' = FileWrittenBy(r)
    <3>1. CASE writing[r] = NotWriting
      BY <1>1, <3>1 DEF FileWrittenBy, NotWriting
    <3>2. CASE writing[r] # NotWriting
      <4>1. writing[r].store \in DOMAIN stores[r]
        BY <3>2 DEF IInv, Handlers
      <4> QED
        BY <1>1, <1>2, <4>1 DEF FileWrittenBy
    <3> QED
      BY <3>1, <3>2
  <2> QED
    BY <2>1
<1>12. FilesAreSafe'
  BY <1>1, <1>10, <1>11, FewerWritersAreSafe DEF IInv
<1>13. AnswersAreOwn'
  <2>1. ASSUME NEW r \in Processes, NEW j \in DOMAIN stores[r], NEW known \in DOMAIN stores'[r][j].entries
        PROVE  \/ stores'[r][j].entries[known].from = stores'[r][j].use.db
               \/ /\ stores'[r][j].use.file # NoFile
                  /\ \E other \in program : /\ other.file = stores'[r][j].use.file
                                            /\ other.db = stores'[r][j].entries[known].from
    <3>1. AnswersAreOwn
      BY DEF IInv
    <3>2. CASE << r, j >> # << p, i >> \/ known # q
      <4>1. known \in DOMAIN stores[r][j].entries /\ stores'[r][j].entries[known] = stores[r][j].entries[known]
        BY <1>2, <2>1, <3>2 DEF Known
      <4>2. \/ stores[r][j].entries[known].from = stores[r][j].use.db
            \/ /\ stores[r][j].use.file # NoFile
               /\ \E other \in program : /\ other.file = stores[r][j].use.file
                                         /\ other.db = stores[r][j].entries[known].from
        BY <3>1, <4>1 DEF AnswersAreOwn
      <4>3. stores'[r][j].use = stores[r][j].use
        BY <1>2
      <4> QED
        BY <4>1, <4>2, <4>3
    <3>3. CASE << r, j >> = << p, i >> /\ known = q
      BY <1>2, <3>3 DEF Known
    <3> QED
      BY <3>2, <3>3
  <2> QED
    BY <1>1, <1>2, <2>1 DEF AnswersAreOwn
<1>14. DiskIsOwn'
  BY <1>1 DEF IInv, DiskIsOwn
<1>15. SharedOnce'
  BY <1>2 DEF IInv, SharedOnce
<1> QED
  BY <1>6, <1>7, <1>12, <1>13, <1>14, <1>15 DEF IInv
-------------------------------------------------------------------------------
(* A new store. *)

\* What NewStore does to the stores of the process.
LEMMA NewStoreStores ==
  ASSUME Types, NEW p \in Processes, NEW use \in program, NewStore(p, use), NEW n, n = Len(stores[p]) + 1
  PROVE  /\ n \in Nat /\ n \notin DOMAIN stores[p]
         /\ DOMAIN stores'[p] = DOMAIN stores[p] \union {n}
         /\ stores'[p][n] = [use |-> use, entries |-> Loaded(use.file)]
         /\ \A i \in DOMAIN stores[p] : stores'[p][i] = stores[p][i]
         /\ \A r \in Processes \ {p} : stores'[r] = stores[r]
         /\ stores' \in [Processes -> Seq(Store)]
<1> DEFINE new == [use |-> use, entries |-> Loaded(use.file)]
<1>1. stores[p] \in Seq(Store) /\ stores \in [Processes -> Seq(Store)]
  BY DEF Types
<1>2. new \in Store
  <2>1. use \in Uses /\ use.file \in Files \union {NoFile}
    BY FileOfUse DEF Files
  <2> QED
    BY <2>1, LoadedTypes DEF Store
<1>3. stores' = [stores EXCEPT ![p] = Append(stores[p], new)]
  BY DEF NewStore
<1> HIDE DEF new
<1>4. Append(stores[p], new) \in Seq(Store) /\ Len(Append(stores[p], new)) = n
      /\ Append(stores[p], new)[n] = new
      /\ \A i \in 1 .. Len(stores[p]) : Append(stores[p], new)[i] = stores[p][i]
  BY <1>1, <1>2, AppendProperties
<1>5. DOMAIN stores[p] = 1 .. n - 1 /\ DOMAIN Append(stores[p], new) = 1 .. n /\ n \in Nat \ {0}
  BY <1>1, <1>4, LenProperties
<1>6. stores'[p] = Append(stores[p], new) /\ \A r \in Processes \ {p} : stores'[r] = stores[r]
  BY <1>1, <1>3
<1>7. stores' \in [Processes -> Seq(Store)]
  BY <1>1, <1>3, <1>4
<1> QED
  BY <1>4, <1>5, <1>6, <1>7 DEF new

LEMMA NewStoreIInv ==
  ASSUME IInv, NEW p \in Processes, NEW use \in program, NewStore(p, use),
         use.shared => SharedCache(p, use) = {}
  PROVE  IInv'
<1> DEFINE n == Len(stores[p]) + 1
<1>1. Types /\ Handlers(p) /\ proc[p] = "running" /\ writing[p] = NotWriting
      /\ UNCHANGED << program, proc, writing, disk, damaged, saved >>
      /\ overlapped' = overlapped \union {f \in {use.file} : use.updates /\ InUse(f)}
  BY DEF IInv, NewStore, Handlers
<1>2. use \in Uses /\ (use.updates => use.file \in Files)
  BY <1>1, FileOfUse
<1>3. /\ n \in Nat /\ n \notin DOMAIN stores[p]
      /\ DOMAIN stores'[p] = DOMAIN stores[p] \union {n}
      /\ stores'[p][n] = [use |-> use, entries |-> Loaded(use.file)]
      /\ \A i \in DOMAIN stores[p] : stores'[p][i] = stores[p][i]
      /\ \A r \in Processes \ {p} : stores'[r] = stores[r]
      /\ stores' \in [Processes -> Seq(Store)]
  BY <1>1, NewStoreStores
<1>4. \/ atexit' = atexit
      \/ use.updates /\ atexit' = [atexit EXCEPT ![p] = Append(atexit[p], n)]
  BY <1>2, UsesAssumption DEF NewStore, UsesAssumption
<1> HIDE DEF n
<1>5. atexit' \in [Processes -> Seq(Nat)] /\ \A r \in Processes \ {p} : atexit'[r] = atexit[r]
  BY <1>1, <1>3, <1>4, AppendedHandler
<1>6. \A k \in DOMAIN atexit'[p] :
        \/ k \in DOMAIN atexit[p] /\ atexit'[p][k] = atexit[p][k]
        \/ use.updates /\ atexit'[p][k] = n
  BY <1>1, <1>3, <1>4, AppendedHandler
<1>7. Types'
  BY <1>1, <1>3, <1>5 DEF Types
<1>8. ASSUME NEW r \in Processes PROVE Handlers(r)'
  <2>1. CASE r = p
    <3>1. \A k \in DOMAIN atexit'[p] :
            atexit'[p][k] \in DOMAIN stores'[p] /\ stores'[p][atexit'[p][k]].use.updates
      BY <1>1, <1>3, <1>6 DEF Handlers
    <3>2. proc'[p] = "running" /\ writing'[p] = NotWriting
      BY <1>1
    <3>3. \A j \in DOMAIN stores'[p] : stores'[p][j].use \in program'
      BY <1>1, <1>3 DEF Handlers
    <3> QED
      BY <2>1, <3>1, <3>2, <3>3 DEF Handlers
  <2>2. CASE r # p
    <3>1. stores'[r] = stores[r] /\ atexit'[r] = atexit[r] /\ Handlers(r)
      BY <1>3, <1>5, <2>2 DEF IInv
    <3> QED
      BY <1>1, <3>1 DEF Handlers
  <2> QED
    BY <2>1, <2>2
<1>9. ASSUME NEW r \in Processes, NEW j \in DOMAIN stores'[r], Pending(r, j)'
      PROVE  \/ r = p /\ j = n /\ use.updates
             \/ j \in DOMAIN stores[r] /\ stores'[r][j] = stores[r][j] /\ Pending(r, j)
  <2>1. stores'[r][j].use.updates
    BY <1>9 DEF Pending
  <2>2. CASE r = p
    BY <1>1, <1>3, <2>1, <2>2 DEF Pending
  <2>3. CASE r # p
    <3>1. stores'[r] = stores[r] /\ atexit'[r] = atexit[r]
      BY <1>3, <1>5, <2>3
    <3> QED
      BY <1>1, <1>9, <3>1 DEF Pending
  <2> QED
    BY <2>2, <2>3
<1>10. ASSUME NEW r \in Processes PROVE FileWrittenBy(r)' = FileWrittenBy(r)
  <2>1. CASE r = p
    BY <1>1, <2>1 DEF FileWrittenBy, NotWriting
  <2>2. CASE r # p
    BY <1>1, <1>3, <2>2 DEF FileWrittenBy
  <2> QED
    BY <2>1, <2>2
<1>11. ASSUME NEW f \in Unharmed' PROVE (OnlyWriter(f) /\ WriterKnows(f) /\ DiskKnows(f))'
  <2>1. f \in Unharmed /\ f \in Files /\ ~(f = use.file /\ use.updates /\ InUse(f))
    BY <1>1, <1>11 DEF Unharmed
  <2>2. OnlyWriter(f) /\ WriterKnows(f) /\ DiskKnows(f)
    BY <2>1 DEF IInv, FilesAreSafe
  <2>3. DiskKnows(f)'
    BY <1>1, <1>10, <2>2 DEF DiskKnows
  <2>4. CASE f = use.file /\ use.updates
    <3>1. \A r \in Processes : \A j \in DOMAIN stores[r] :
            ~(stores[r][j].use.file = f /\ Pending(r, j))
      BY <2>1, <2>4 DEF InUse
    <3>2. \A r \in Processes : FileWrittenBy(r) # f
      BY <1>1, <2>1, <3>1, WriterIsPending DEF IInv
    <3>3. \A r \in Processes : \A j \in DOMAIN stores'[r] :
            stores'[r][j].use.file = f /\ Pending(r, j)' => r = p /\ j = n
      BY <1>9, <3>1
    <3>4. saved[f] \subseteq DOMAIN stores'[p][n].entries
      <4>1. stores'[p][n].entries = disk[f].entries
        BY <1>3, <2>1, <2>4 DEF Loaded, Files
      <4> QED
        BY <2>2, <3>2, <4>1 DEF DiskKnows
    <3>5. OnlyWriter(f)'
      BY <3>3 DEF OnlyWriter
    <3>6. WriterKnows(f)'
      BY <1>1, <3>3, <3>4 DEF WriterKnows
    <3> QED
      BY <2>3, <3>5, <3>6
  <2>5. CASE ~(f = use.file /\ use.updates)
    <3>1. ASSUME NEW r \in Processes, NEW j \in DOMAIN stores'[r], stores'[r][j].use.file = f, Pending(r, j)'
          PROVE  j \in DOMAIN stores[r] /\ stores'[r][j] = stores[r][j] /\ Pending(r, j)
      BY <1>3, <1>9, <2>5, <3>1
    <3>2. OnlyWriter(f)'
      BY <2>2, <3>1 DEF OnlyWriter
    <3>3. WriterKnows(f)'
      BY <1>1, <2>2, <3>1 DEF WriterKnows
    <3> QED
      BY <2>3, <3>2, <3>3
  <2> QED
    BY <2>4, <2>5
<1>12. FilesAreSafe'
  BY <1>11 DEF FilesAreSafe
<1>13. AnswersAreOwn'
  <2>1. ASSUME NEW r \in Processes, NEW j \in DOMAIN stores'[r], NEW known \in DOMAIN stores'[r][j].entries
        PROVE  \/ stores'[r][j].entries[known].from = stores'[r][j].use.db
               \/ /\ stores'[r][j].use.file # NoFile
                  /\ \E other \in program : /\ other.file = stores'[r][j].use.file
                                            /\ other.db = stores'[r][j].entries[known].from
    <3>1. CASE r = p /\ j = n
      <4>1. stores'[r][j].use = use /\ stores'[r][j].entries = Loaded(use.file)
        BY <1>3, <3>1
      <4>2. use.file # NoFile /\ use.file \in Files
        BY <1>2, <2>1, <4>1, NoEntries DEF Loaded, Files
      <4>3. known \in DOMAIN disk[use.file].entries /\ stores'[r][j].entries = disk[use.file].entries
        BY <2>1, <4>1, <4>2 DEF Loaded
      <4> QED
        BY <4>1, <4>2, <4>3 DEF IInv, DiskIsOwn
    <3>2. CASE ~(r = p /\ j = n)
      <4>1. j \in DOMAIN stores[r] /\ stores'[r][j] = stores[r][j]
        BY <1>3, <3>2
      <4> QED
        BY <2>1, <4>1 DEF IInv, AnswersAreOwn
    <3> QED
      BY <3>1, <3>2
  <2> QED
    BY <1>1, <2>1 DEF AnswersAreOwn
<1>14. DiskIsOwn'
  BY <1>1 DEF IInv, DiskIsOwn
<1>15. SharedOnce'
  <2>1. ASSUME NEW r \in Processes, NEW i \in DOMAIN stores'[r], NEW j \in DOMAIN stores'[r],
               stores'[r][i].use.shared, stores'[r][i].use = stores'[r][j].use
        PROVE  i = j
    <3>1. CASE r # p
      BY <1>3, <2>1, <3>1 DEF IInv, SharedOnce
    <3>2. CASE r = p /\ i # n /\ j # n
      BY <1>3, <2>1, <3>2 DEF IInv, SharedOnce
    <3>3. CASE r = p /\ i = n /\ j # n
      BY <1>3, <2>1, <3>3 DEF SharedCache
    <3>4. CASE r = p /\ i # n /\ j = n
      BY <1>3, <2>1, <3>4 DEF SharedCache
    <3> QED
      BY <3>1, <3>2, <3>3, <3>4
  <2> QED
    BY <2>1 DEF SharedOnce
<1> QED
  BY <1>7, <1>8, <1>12, <1>13, <1>14, <1>15 DEF IInv

-------------------------------------------------------------------------------
(* Dumps. *)

LEMMA OpenDumpIInv == ASSUME IInv, NEW p \in Processes, OpenDump(p) PROVE IInv'
<1> DEFINE store == Last(atexit[p])
           file == stores[p][store].use.file
           others == {r \in Processes : FileWrittenBy(r) = file}
<1>1. /\ Types /\ Handlers(p) /\ proc[p] = "exiting" /\ writing[p] = NotWriting /\ atexit[p] # << >>
      /\ UNCHANGED << program, proc, stores, overlapped, damaged, saved >>
      /\ atexit' = [atexit EXCEPT ![p] = Front(atexit[p])]
      /\ disk' = [disk EXCEPT ![file] = Torn]
      /\ writing' = [r \in Processes |->
                       IF r = p THEN [store |-> store, alone |-> others = {}]
                       ELSE [writing[r] EXCEPT !.alone = writing[r].alone /\ r \notin others]]
  BY DEF IInv, OpenDump
<1>2. atexit[p] \in Seq(Nat) /\ Len(atexit[p]) \in Nat \ {0} /\ DOMAIN atexit[p] = 1 .. Len(atexit[p])
  BY <1>1, EmptySeq, LenProperties DEF Types
<1>3. /\ store = atexit[p][Len(atexit[p])] /\ store \in Nat
      /\ store \in DOMAIN stores[p] /\ stores[p][store].use.updates
  BY <1>1, <1>2, ElementOfSeq DEF Handlers, Last
<1>4. stores[p][store].use \in program /\ file \in Files
  BY <1>1, <1>3, FileOfUse DEF Handlers
<1>5. Front(atexit[p]) \in Seq(Nat)
      /\ \A k \in DOMAIN Front(atexit[p]) : k \in DOMAIN atexit[p] /\ Front(atexit[p])[k] = atexit[p][k]
  <2>1. Front(atexit[p]) = [k \in 1 .. Len(atexit[p]) - 1 |-> atexit[p][k]]
    BY <1>2 DEF Front
  <2> QED
    BY <1>2, <2>1
<1> HIDE DEF store, file
<1>6. atexit'[p] = Front(atexit[p]) /\ \A r \in Processes \ {p} : atexit'[r] = atexit[r]
  BY <1>1 DEF Types
<1>7. /\ writing'[p].store = store /\ writing'[p] \in [store : Nat, alone : BOOLEAN]
      /\ \A r \in Processes \ {p} : /\ writing'[r].store = writing[r].store
                                    /\ writing'[r] \in [store : Nat, alone : BOOLEAN]
                                    /\ FileWrittenBy(r) # file => writing'[r] = writing[r]
  <2>1. ASSUME NEW r \in Processes PROVE writing[r] \in [store : Nat, alone : BOOLEAN]
    BY <1>1 DEF Types
  <2>2. ASSUME NEW r \in Processes \ {p}
        PROVE  writing'[r] = [writing[r] EXCEPT !.alone = writing[r].alone /\ r \notin others]
    BY <1>1
  <2>3. ASSUME NEW r \in Processes \ {p}, FileWrittenBy(r) # file PROVE writing'[r] = writing[r]
    <3>1. (writing[r].alone /\ r \notin others) = writing[r].alone
      BY <2>1, <2>3
    <3> QED
      BY <2>1, <2>2, <3>1
  <2>4. writing'[p].store = store /\ writing'[p] \in [store : Nat, alone : BOOLEAN]
    BY <1>1, <1>3
  <2>5. ASSUME NEW r \in Processes \ {p}
        PROVE  writing'[r].store = writing[r].store /\ writing'[r] \in [store : Nat, alone : BOOLEAN]
    BY <2>1, <2>2
  <2> QED
    BY <2>3, <2>4, <2>5
<1>8. Types'
  <2>1. writing' \in [Processes -> [store : Nat, alone : BOOLEAN]]
    BY <1>1, <1>7
  <2>2. atexit' \in [Processes -> Seq(Nat)]
    BY <1>1, <1>5 DEF Types
  <2>3. disk' \in [Files -> [state : {"missing", "torn", "complete"}, entries : Entries]]
    BY <1>1, NoEntries DEF Types, Torn
  <2> QED
    BY <1>1, <2>1, <2>2, <2>3 DEF Types
<1>9. ASSUME NEW r \in Processes PROVE Handlers(r)'
  <2>1. CASE r = p
    BY <1>1, <1>3, <1>5, <1>6, <1>7, <2>1 DEF Handlers
  <2>2. CASE r # p
    <3>1. writing'[r] # NotWriting => writing[r] # NotWriting
      BY <1>4, <1>7, <2>2 DEF FileWrittenBy, NotWriting, Files
    <3> QED
      BY <1>1, <1>6, <1>7, <2>2, <3>1 DEF IInv, Handlers
  <2> QED
    BY <2>1, <2>2
<1>10. ASSUME NEW r \in Processes, NEW j \in DOMAIN stores[r], Pending(r, j)' PROVE Pending(r, j)
  <2>1. CASE r = p
    <3>1. j \in Range(Front(atexit[p])) \/ j = store
      BY <1>1, <1>6, <1>7, <1>10, <2>1 DEF Pending
    <3>2. Range(Front(atexit[p])) \subseteq Range(atexit[p]) /\ store \in Range(atexit[p])
      <4>1. \A e \in Range(Front(atexit[p])) : e \in Range(atexit[p])
        <5> SUFFICES ASSUME NEW k \in DOMAIN Front(atexit[p])
                     PROVE  Front(atexit[p])[k] \in Range(atexit[p])
          BY DEF Range
        <5> QED
          BY <1>5 DEF Range
      <4>2. Len(atexit[p]) \in DOMAIN atexit[p]
        BY <1>2
      <4>3. store \in Range(atexit[p])
        BY <1>3, <4>2 DEF Range
      <4> QED
        BY <4>1, <4>3
    <3> QED
      BY <1>1, <1>10, <2>1, <3>1, <3>2 DEF Pending
  <2>2. CASE r # p
    BY <1>1, <1>6, <1>7, <1>10, <2>2 DEF Pending
  <2> QED
    BY <2>1, <2>2
<1>11. FewerWriters
  BY <1>1, <1>10 DEF FewerWriters
<1>12. FileWrittenBy(p)' = file /\ \A r \in Processes \ {p} : FileWrittenBy(r)' = FileWrittenBy(r)
  <2>1. store # 0
    BY <1>1, <1>3, LenProperties DEF Types
  <2> QED
    BY <1>1, <1>7, <2>1 DEF FileWrittenBy, file
<1>13. ASSUME NEW f \in Unharmed' PROVE (OnlyWriter(f) /\ WriterKnows(f) /\ DiskKnows(f))'
  <2>1. f \in Unharmed /\ f \in Files
    BY <1>1, <1>13 DEF Unharmed
  <2>2. OnlyWriter(f)' /\ WriterKnows(f)'
    BY <1>1, <1>11, <2>1, FewerWritersKnow DEF IInv
  <2>3. DiskKnows(f)'
    <3>1. SUFFICES ASSUME \A r \in Processes : FileWrittenBy(r)' # f
                   PROVE  disk'[f].state # "torn" /\ saved'[f] \subseteq DOMAIN disk'[f].entries
      BY DEF DiskKnows
    <3>2. f # file /\ \A r \in Processes \ {p} : FileWrittenBy(r) # f
      BY <1>12, <3>1
    <3>3. FileWrittenBy(p) # f
      BY <1>1, <2>1 DEF FileWrittenBy, NotWriting, Files
    <3>4. disk[f].state # "torn" /\ saved[f] \subseteq DOMAIN disk[f].entries
      BY <2>1, <3>2, <3>3 DEF IInv, FilesAreSafe, DiskKnows
    <3>5. disk'[f] = disk[f]
      BY <1>1, <2>1, <3>2 DEF Types
    <3> QED
      BY <1>1, <3>4, <3>5
  <2> QED
    BY <2>2, <2>3
<1>14. FilesAreSafe'
  BY <1>13 DEF FilesAreSafe
<1>15. DiskIsOwn'
  <2>1. \A f \in Files : disk'[f] = disk[f] \/ DOMAIN disk'[f].entries = {}
    BY <1>1, NoEntries DEF Types, Torn
  <2> QED
    BY <1>1, <2>1 DEF IInv, DiskIsOwn
<1>16. AnswersAreOwn' /\ SharedOnce'
  BY <1>1 DEF IInv, AnswersAreOwn, SharedOnce
<1> QED
  BY <1>8, <1>9, <1>14, <1>15, <1>16 DEF IInv

\* A dump that ends, well or not.
LEMMA WriteDumpIInv == ASSUME IInv, NEW p \in Processes, WriteDump(p) PROVE IInv'
<1> DEFINE store == stores[p][writing[p].store]
           file == store.use.file
           written == [q \in DOMAIN store.entries |-> Reloaded(store.use.kind, store.entries[q])]
<1>1. /\ Types /\ Handlers(p) /\ writing[p] # NotWriting
      /\ UNCHANGED << program, starts, proc, stores, atexit, overlapped, damaged >>
      /\ disk' = [disk EXCEPT ![file] = [state |-> "complete", entries |-> written]]
      /\ saved' = [saved EXCEPT ![file] = saved[file] \union DOMAIN store.entries]
      /\ writing' = [writing EXCEPT ![p] = NotWriting]
  BY DEF IInv, WriteDump
<1>2. writing[p].store \in DOMAIN stores[p] /\ store.use.updates /\ store.use \in program
  BY <1>1 DEF Handlers
<1>3. file \in Files
  BY <1>1, <1>2, FileOfUse
<1>4. store \in Store
  BY <1>1, <1>2, LenProperties, ElementOfSeq DEF Types
<1>5. store.entries \in [DOMAIN store.entries -> Entry] /\ DOMAIN store.entries \subseteq Queries
  BY <1>4, EntriesOfDomain DEF Store
<1>6. DOMAIN written = DOMAIN store.entries /\ \A q \in DOMAIN written : written[q].from = store.entries[q].from
  BY <1>5 DEF Reloaded, Entry
<1>7. written \in Entries
  <2>1. written \in [DOMAIN store.entries -> Entry]
    BY <1>5 DEF Reloaded, Entry
  <2> QED
    BY <1>5, <2>1 DEF Entries
<1>8. FileWrittenBy(p) = file
  BY <1>1, <1>2, LenProperties DEF FileWrittenBy, Types
<1> HIDE DEF store, file, written
<1>9. Types'
  <2>1. disk' \in [Files -> [state : {"missing", "torn", "complete"}, entries : Entries]]
    BY <1>1, <1>7 DEF Types
  <2>2. saved' \in [Files -> SUBSET Queries]
    BY <1>1, <1>3, <1>5 DEF Types
  <2>3. writing' \in [Processes -> [store : Nat, alone : BOOLEAN]]
    BY <1>1 DEF Types, NotWriting
  <2> QED
    BY <1>1, <2>1, <2>2, <2>3 DEF Types
<1>10. writing'[p] = NotWriting /\ \A r \in Processes \ {p} : writing'[r] = writing[r]
  BY <1>1 DEF Types
<1>11. \A r \in Processes : Handlers(r)'
  BY <1>1, <1>10 DEF IInv, Handlers
<1>12. FewerWriters
  <2>1. ASSUME NEW r \in Processes, NEW j \in DOMAIN stores[r], Pending(r, j)' PROVE Pending(r, j)
    <3>1. writing'[r].store = j => writing[r].store = j
      BY <1>1, <1>10, <2>1, LenProperties DEF NotWriting, Types
    <3> QED
      BY <1>1, <2>1, <3>1 DEF Pending
  <2> QED
    BY <1>1, <2>1 DEF FewerWriters
<1>13. \A r \in Processes \ {p} : FileWrittenBy(r)' = FileWrittenBy(r)
  BY <1>1, <1>10 DEF FileWrittenBy
<1>14. ASSUME NEW f \in Unharmed' PROVE (OnlyWriter(f) /\ WriterKnows(f) /\ DiskKnows(f))'
  <2>1. f \in Unharmed /\ f \in Files
    BY <1>1, <1>14 DEF Unharmed
  <2>2. OnlyWriter(f) /\ WriterKnows(f) /\ DiskKnows(f)
    BY <2>1 DEF IInv, FilesAreSafe
  <2>3. OnlyWriter(f)'
    BY <1>12, <2>2 DEF OnlyWriter, FewerWriters
  <2>4. CASE f # file
    <3>1. disk'[f] = disk[f] /\ saved'[f] = saved[f]
      BY <1>1, <2>1, <2>4 DEF Types
    <3>2. WriterKnows(f)'
      BY <1>12, <2>2, <3>1 DEF WriterKnows, FewerWriters
    <3>3. DiskKnows(f)'
      BY <1>8, <1>13, <2>2, <2>4, <3>1 DEF DiskKnows
    <3> QED
      BY <2>3, <3>2, <3>3
  <2>5. CASE f = file
    <3>1. Pending(p, writing[p].store) /\ stores[p][writing[p].store].use.file = f
      BY <1>1, <1>2, <2>5 DEF Pending, store, file
    <3>2. saved[f] \subseteq DOMAIN store.entries
      BY <1>2, <2>2, <3>1 DEF WriterKnows, store
    <3>3. saved'[f] = DOMAIN store.entries /\ disk'[f] = [state |-> "complete", entries |-> written]
      BY <1>1, <2>1, <2>5, <3>2 DEF Types
    <3>4. DiskKnows(f)'
      BY <1>6, <3>3 DEF DiskKnows
    <3>5. ASSUME NEW r \in Processes, NEW j \in DOMAIN stores[r], stores[r][j].use.file = f, Pending(r, j)
          PROVE  stores[r][j] = store
      BY <1>2, <2>2, <3>1, <3>5 DEF OnlyWriter, store
    <3>6. WriterKnows(f)'
      BY <1>1, <1>12, <3>3, <3>5 DEF WriterKnows, FewerWriters
    <3> QED
      BY <2>3, <3>4, <3>6
  <2> QED
    BY <2>4, <2>5
<1>15. FilesAreSafe'
  BY <1>14 DEF FilesAreSafe
<1>16. DiskIsOwn'
  <2>1. ASSUME NEW q \in DOMAIN written
        PROVE  \E other \in program : other.file = file /\ other.db = written[q].from
    <3>1. q \in DOMAIN store.entries /\ written[q].from = store.entries[q].from
      BY <1>6
    <3>2. \/ store.entries[q].from = store.use.db
          \/ \E other \in program : other.file = store.use.file /\ other.db = store.entries[q].from
      BY <1>2, <3>1 DEF IInv, AnswersAreOwn, store
    <3> QED
      BY <1>2, <3>1, <3>2 DEF file
  <2>2. \A f \in Files : /\ f # file => disk'[f] = disk[f]
                         /\ f = file => disk'[f].entries = written
    BY <1>1 DEF Types
  <2> QED
    BY <1>1, <2>1, <2>2 DEF IInv, DiskIsOwn
<1>17. AnswersAreOwn' /\ SharedOnce'
  BY <1>1 DEF IInv, AnswersAreOwn, SharedOnce
<1> QED
  BY <1>9, <1>11, <1>15, <1>16, <1>17 DEF IInv

LEMMA DumpFailsIInv == ASSUME IInv, NEW p \in Processes, DumpFails(p) PROVE IInv'
<1> DEFINE file == stores[p][writing[p].store].use.file
<1>1. /\ Types /\ Handlers(p) /\ writing[p] # NotWriting
      /\ UNCHANGED << program, starts, proc, stores, atexit, overlapped, saved >>
      /\ disk' = [disk EXCEPT ![file] = Torn] /\ damaged' = damaged \union {file}
      /\ writing' = [writing EXCEPT ![p] = NotWriting]
  BY DEF IInv, DumpFails
<1>2. writing[p].store \in DOMAIN stores[p]
  BY <1>1 DEF Handlers
<1>3. FileWrittenBy(p) = file
  BY <1>1, <1>2, LenProperties DEF FileWrittenBy, Types
<1> HIDE DEF file
<1>4. Types'
  <2>1. disk' \in [Files -> [state : {"missing", "torn", "complete"}, entries : Entries]]
    BY <1>1, NoEntries DEF Types, Torn
  <2>2. writing' \in [Processes -> [store : Nat, alone : BOOLEAN]]
    BY <1>1 DEF Types, NotWriting
  <2> QED
    BY <1>1, <2>1, <2>2 DEF Types
<1>5. writing'[p] = NotWriting /\ \A r \in Processes \ {p} : writing'[r] = writing[r]
  BY <1>1 DEF Types
<1>6. \A r \in Processes : Handlers(r)'
  BY <1>1, <1>5 DEF IInv, Handlers
<1>7. FewerWriters
  <2>1. ASSUME NEW r \in Processes, NEW j \in DOMAIN stores[r], Pending(r, j)' PROVE Pending(r, j)
    <3>1. writing'[r].store = j => writing[r].store = j
      BY <1>1, <1>5, <2>1, LenProperties DEF NotWriting, Types
    <3> QED
      BY <1>1, <2>1, <3>1 DEF Pending
  <2> QED
    BY <1>1, <2>1 DEF FewerWriters
<1>8. \A r \in Processes \ {p} : FileWrittenBy(r)' = FileWrittenBy(r)
  BY <1>1, <1>5 DEF FileWrittenBy
<1>9. ASSUME NEW f \in Unharmed' PROVE (OnlyWriter(f) /\ WriterKnows(f) /\ DiskKnows(f))'
  <2>1. f \in Unharmed /\ f \in Files /\ f # file
    BY <1>1, <1>9 DEF Unharmed
  <2>2. OnlyWriter(f)' /\ WriterKnows(f)'
    BY <1>1, <1>7, <2>1, FewerWritersKnow DEF IInv
  <2>3. disk'[f] = disk[f] /\ saved'[f] = saved[f] /\ DiskKnows(f)
    BY <1>1, <2>1 DEF IInv, FilesAreSafe, Types
  <2>4. DiskKnows(f)'
    BY <1>3, <1>8, <2>1, <2>3 DEF DiskKnows
  <2> QED
    BY <2>2, <2>4
<1>10. FilesAreSafe'
  BY <1>9 DEF FilesAreSafe
<1>11. DiskIsOwn'
  <2>1. \A f \in Files : disk'[f] = disk[f] \/ DOMAIN disk'[f].entries = {}
    BY <1>1, NoEntries DEF Types, Torn
  <2> QED
    BY <1>1, <2>1 DEF IInv, DiskIsOwn
<1>12. AnswersAreOwn' /\ SharedOnce'
  BY <1>1 DEF IInv, AnswersAreOwn, SharedOnce
<1> QED
  BY <1>4, <1>6, <1>10, <1>11, <1>12 DEF IInv

-------------------------------------------------------------------------------
(* All steps. *)

\* The stores of a process keep their use and their answers until the process ends.
StoresGrow ==
  \A p \in Processes :
    \/ stores'[p] = << >>
    \/ \A i \in DOMAIN stores[p] : /\ i \in DOMAIN stores'[p]
                                 /\ stores'[p][i].use = stores[p][i].use
                                 /\ Extends(stores'[p][i].entries, stores[p][i].entries)

LEMMA CreateGrows ==
  ASSUME IInv, NEW p \in Processes, NEW use \in program, NewStore(p, use) PROVE StoresGrow
<1>1. /\ DOMAIN stores'[p] = DOMAIN stores[p] \union {Len(stores[p]) + 1}
      /\ \A i \in DOMAIN stores[p] : stores'[p][i] = stores[p][i]
      /\ \A r \in Processes \ {p} : stores'[r] = stores[r]
  BY NewStoreStores DEF IInv
<1> QED
  BY <1>1 DEF StoresGrow, Extends

LEMMA FreshGrows ==
  ASSUME IInv, NEW p \in Processes, NEW i \in DOMAIN stores[p], NEW q \in Queries, NEW entry \in Entry,
         Fresh(p, i, q, entry)
  PROVE  StoresGrow
<1>1. /\ \A r \in Processes : DOMAIN stores'[r] = DOMAIN stores[r]
      /\ \A r \in Processes : \A j \in DOMAIN stores[r] :
           /\ stores'[r][j].use = stores[r][j].use
           /\ << r, j >> # << p, i >> => stores'[r][j] = stores[r][j]
      /\ stores'[p][i].entries = Known(stores[p][i].entries, q, entry)
  BY FreshStores DEF IInv
<1>2. q \notin DOMAIN stores[p][i].entries
  BY DEF Fresh
<1>3. Extends(stores'[p][i].entries, stores[p][i].entries)
  BY <1>1, <1>2 DEF Extends, Known
<1>4. ASSUME NEW r \in Processes, NEW j \in DOMAIN stores[r]
      PROVE  Extends(stores'[r][j].entries, stores[r][j].entries)
  <2>1. CASE << r, j >> = << p, i >>
    BY <1>3, <2>1
  <2>2. CASE << r, j >> # << p, i >>
    BY <1>1, <2>2 DEF Extends
  <2> QED
    BY <2>1, <2>2
<1> QED
  BY <1>1, <1>4 DEF StoresGrow

LEMMA ClearedGrows == ASSUME IInv, NEW p \in Processes, Cleared(p) PROVE StoresGrow
<1>1. stores'[p] = << >> /\ \A r \in Processes \ {p} : stores'[r] = stores[r]
  BY DEF IInv, Types, Cleared
<1> QED
  BY <1>1 DEF StoresGrow, Extends

LEMMA SameStoresGrow == ASSUME UNCHANGED stores PROVE StoresGrow
  BY DEF StoresGrow, Extends

\* What the two kinds of stores remember of an execution.
LEMMA NewEntry ==
  ASSUME IInv, NEW p \in Processes, NEW i \in DOMAIN stores[p], NEW form \in {"rows", "unknown"}
  PROVE  [from |-> stores[p][i].use.db, as |-> form] \in Entry
<1>1. stores[p][i].use \in Uses
  BY FileOfUse DEF IInv, Handlers
<1> QED
  BY <1>1 DEF Entry

LEMMA NextIInv == IInv /\ [Next]_vars => IInv' /\ StoresGrow
<1> SUFFICES ASSUME IInv, [Next]_vars PROVE IInv' /\ StoresGrow
  OBVIOUS
<1>1. CASE UNCHANGED vars
  <2>1. IInv'
    BY <1>1 DEF vars, IInv, Types, Handlers, FilesAreSafe, Unharmed, OnlyWriter, WriterKnows,
                DiskKnows, Pending, FileWrittenBy, AnswersAreOwn, DiskIsOwn, SharedOnce
  <2> QED
    BY <1>1, <2>1, SameStoresGrow DEF vars
<1>2. ASSUME NEW p \in Processes, StartProcess(p) PROVE IInv' /\ StoresGrow
  BY <1>2, StartProcessIInv, SameStoresGrow DEF StartProcess
<1>3. ASSUME NEW p \in Processes, NEW use \in program, CreateCache(p, use) \/ Construct(p, use)
      PROVE  IInv' /\ StoresGrow
  <2>1. NewStore(p, use) /\ (use.shared => SharedCache(p, use) = {})
    BY <1>3 DEF CreateCache, Construct
  <2> QED
    BY <2>1, NewStoreIInv, CreateGrows
<1>4. ASSUME NEW p \in Processes, NEW use \in program, LoadFails(p, use) PROVE IInv' /\ StoresGrow
  BY <1>4, LeaveIInv, SameStoresGrow DEF LoadFails
<1>5. ASSUME NEW p \in Processes, NEW i \in DOMAIN stores[p], NEW q \in Queries, ExecuteQuery(p, i, q)
      PROVE  IInv' /\ StoresGrow
  <2> DEFINE entry == [from |-> stores[p][i].use.db, as |-> "rows"]
  <2>1. entry \in Entry /\ entry.from = stores[p][i].use.db
    BY NewEntry
  <2>2. Fresh(p, i, q, entry) /\ atexit' = atexit
    BY <1>5 DEF ExecuteQuery
  <2> HIDE DEF entry
  <2> QED
    BY <2>1, <2>2, FreshIInv, FreshGrows
<1>6. ASSUME NEW p \in Processes, NEW i \in DOMAIN stores[p], NEW q \in Queries,
             EstimateByFallback(p, i, q)
      PROVE  IInv' /\ StoresGrow
  <2>1. PICK form \in {"rows", "unknown"} : Fresh(p, i, q, [from |-> stores[p][i].use.db, as |-> form])
    BY <1>6 DEF EstimateByFallback
  <2> DEFINE entry == [from |-> stores[p][i].use.db, as |-> form]
  <2>2. entry \in Entry /\ entry.from = stores[p][i].use.db
    BY NewEntry
  <2>3. \/ atexit' = atexit
        \/ stores[p][i].use.updates /\ atexit' = [atexit EXCEPT ![p] = Append(@, i)]
    BY <1>6 DEF EstimateByFallback
  <2>4. Fresh(p, i, q, entry)
    BY <2>1
  <2> HIDE DEF entry
  <2> QED
    BY <2>2, <2>3, <2>4, FreshIInv, FreshGrows
<1>7. ASSUME NEW p \in Processes, Exit(p) PROVE IInv' /\ StoresGrow
  BY <1>7, LeaveIInv, SameStoresGrow DEF Exit
<1>8. ASSUME NEW p \in Processes, OpenDump(p) PROVE IInv' /\ StoresGrow
  <2>1. UNCHANGED stores
    BY <1>8 DEF OpenDump
  <2> QED
    BY <1>8, <2>1, OpenDumpIInv, SameStoresGrow
<1>9. ASSUME NEW p \in Processes, WriteDump(p) PROVE IInv' /\ StoresGrow
  BY <1>9, WriteDumpIInv, SameStoresGrow DEF WriteDump
<1>10. ASSUME NEW p \in Processes, DumpFails(p) PROVE IInv' /\ StoresGrow
  BY <1>10, DumpFailsIInv, SameStoresGrow DEF DumpFails
<1>11. ASSUME NEW p \in Processes, Terminate(p) \/ Crash(p) PROVE IInv' /\ StoresGrow
  BY <1>11, ClearedIInv, ClearedGrows DEF Terminate, Crash
<1> QED
  BY <1>1, <1>2, <1>3, <1>4, <1>5, <1>6, <1>7, <1>8, <1>9, <1>10, <1>11 DEF Next

LEMMA Inductive == Spec => []IInv
<1>1. IInv /\ [Next]_vars => IInv'
  BY NextIInv
<1> QED
  BY <1>1, InitIInv, PTL DEF Spec

\* A file loses results, or becomes unreadable, only when two stores had it open for update
\* at the same time or a dump was broken off (ResultCache._dump, OfflineCardinalities).
THEOREM NothingLost == Spec => []NothingIsLost
<1>1. IInv => NothingIsLost
  BY DEF IInv, FilesAreSafe, Unharmed, DiskKnows, NothingIsLost
<1> QED
  BY <1>1, Inductive, PTL

\* A cache or an estimator answers for another database only if its file is used for both.
THEOREM OwnAnswers == Spec => []AnswersAreOwn
<1>1. IInv => AnswersAreOwn
  BY DEF IInv
<1> QED
  BY <1>1, Inductive, PTL

\* create_cache: the shared cache of a process never changes or forgets an answer.
THEOREM StableAnswers == Spec => AnswersAreStable
<1>1. IInv /\ IInv' /\ [Next]_vars => [AnswersStay]_vars
  <2> SUFFICES ASSUME IInv, IInv', [Next]_vars,
                      NEW p \in Processes, NEW i \in DOMAIN stores[p], NEW j \in DOMAIN stores'[p],
                      stores[p][i].use.shared, stores[p][i].use = stores'[p][j].use
               PROVE  Extends(stores'[p][j].entries, stores[p][i].entries)
    BY DEF AnswersStay
  <2>1. StoresGrow
    BY NextIInv
  <2>2. /\ i \in DOMAIN stores'[p]
        /\ stores'[p][i].use = stores[p][i].use
        /\ Extends(stores'[p][i].entries, stores[p][i].entries)
    BY <2>1 DEF StoresGrow
  <2>3. i = j
    BY <2>2 DEF IInv, SharedOnce
  <2> QED
    BY <2>2, <2>3
<1> QED
  BY <1>1, Inductive, PTL DEF Spec, AnswersAreStable
===============================================================================
