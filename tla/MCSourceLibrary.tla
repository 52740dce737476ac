-------------------------- MODULE MCSourceLibrary --------------------------
EXTENDS SourceLibrary, TLC

(* A source that is imported may change its configuration. *)
MCOffered == [s \in Sources |-> IF s \in Installed THEN Configs ELSE {Home}]

(* It is worked on, another one comes and loses its cache. *)
MCAsked == [s \in Sources |-> IF s \in Installed THEN Kinds \ {"commit", "removeCache"}
                              ELSE {"commit", "removeCache"}]

(* The threads of the user are interchangeable. *)
Symmetry == Permutations(Threads)
=============================================================================
