-------------------------------- MODULE MCHintSession --------------------------------
(***************************************************************************)
(* Join orders of a chain, a cycle and a star.  Plans of the chain a - b - *)
(* c: scans read sequentially or through a bitmap, joins by hashing or     *)
(* nested loops, Gather in every position.                                 *)
(***************************************************************************)
EXTENDS HintSession

MCTables == {"a", "b", "c", "d"}
MCChain == [tables |-> {"a", "b", "c"}, joins |-> {{"a", "b"}, {"b", "c"}}]
MCCycle == [tables |-> {"a", "b", "c", "d"}, joins |-> {{"a", "b"}, {"b", "c"}, {"c", "d"}, {"d", "a"}}]
MCStar == [tables |-> {"a", "b", "c", "d"}, joins |-> {{"a", "b"}, {"a", "c"}, {"a", "d"}}]
MCSingle == [tables |-> {"a"}, joins |-> {}]
MCJoinGraphs == {MCChain, MCCycle, MCStar, MCSingle}
MCTableSize == [t \in {"a", "b", "c"} |-> CASE t = "a" -> 1 [] t = "b" -> 2 [] t = "c" -> 4]
MCScanTypes == {"Seq Scan", "Bitmap Heap Scan"}
MCJoinTypes == {"Hash Join", "Nested Loop"}
MCInnerTypes == {None, "Memoize"}
MCTopTypes == {<< >>, << "Sort" >>, << "Aggregate", "Gather", "Aggregate" >>}
MCScanChoices == {"IdxScan"}
MCJoinChoices == {"MergeJoin"}
===============================================================================
