---------------------------- MODULE MCDirWalker ----------------------------
(* A directory with two files and a directory that holds a file and another *)
(* directory; one path too long; a file of one buffer, an empty one and one *)
(* of two.  The paths of "a1" and "old1" are cut to those of "a" and "old", *)
(* which are in the tree or not.  The limit lets three directories be       *)
(* entered, not four.                                                       *)
EXTENDS DirWalker

MCDirs == {"log", "old", "old1", "older"}
MCFiles == {"a", "a1", "b", "c", "long"}
MCParent == [x \in (MCDirs \cup MCFiles) \ {"log"} |->
                CASE x \in {"b", "older"} -> "old" [] x = "c" -> "older" [] OTHER -> "log"]
MCBelow == [d \in MCDirs |->
              CASE d = "log" -> (MCDirs \cup MCFiles) \ {"log"}
                [] d = "old" -> {"b", "older", "c"} [] d = "older" -> {"c"} [] OTHER -> {}]
MCNamed == [x \in MCDirs \cup MCFiles |->
              CASE x = "a1" -> "a" [] x = "old1" -> "old" [] OTHER -> x]
MCTrees == {{"log"}, {"log", "a", "old", "b"}, {"log", "old", "b", "older", "c", "old1"},
            {"log", "a", "long"}, {"log", "a", "a1"}, {"log", "a1", "old1"}}
MCChunks == [f \in MCFiles |-> CASE f = "a" -> 0 [] f = "b" -> 2 [] OTHER -> 1]
=============================================================================
