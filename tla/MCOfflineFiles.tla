----------------------------- MODULE MCOfflineFiles -----------------------------
(***************************************************************************)
(* Programs that keep the results of two databases in one file, use a file *)
(* through two caches, use one cache with and one without a file, or keep  *)
(* a file of cardinalities.                                                *)
(***************************************************************************)
EXTENDS OfflineFiles, TLC

CONSTANTS p1, p2, count, average

Shared(db_, file_) ==
  [kind |-> "cache", db |-> db_, file |-> file_, updates |-> file_ # NoFile, shared |-> TRUE]
Direct(db_, file_) == [Shared(db_, file_) EXCEPT !.shared = FALSE]
Cards(updates_) ==
  [kind |-> "cards", db |-> "imdb", file |-> "cards.json", updates |-> updates_, shared |-> FALSE]

MCPrograms == {{Shared("imdb", "results.json"), Shared("stats", "results.json")},
               {Shared("imdb", "results.json"), Direct("imdb", "results.json")},
               {Shared("imdb", "results.json"), Shared("stats", NoFile)},
               {Cards(TRUE), Cards(FALSE)}}
MCSymmetry == Permutations(Processes)
===============================================================================
