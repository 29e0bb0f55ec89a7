-------------------------- MODULE MCLanguageServer --------------------------
(* Small instances of LanguageServer: two files of one target, the first   *)
(* also reachable through a symbolic link the patterns do not spell.       *)
EXTENDS LanguageServer

MCOrder == <<"a", "b", "link">>
MCFile == [a |-> "fa", b |-> "fb", link |-> "fa"]
MCGlob == {"a", "b"}
MCTarget == [a |-> "t", b |-> "t"]
MCContents == {[queries |-> {"q"}, bad |-> FALSE, illegal |-> TRUE, twice |-> FALSE],
               [queries |-> {"q", "r"}, bad |-> TRUE, illegal |-> FALSE, twice |-> TRUE]}
MCStart == [f \in {"fa", "fb"} |-> [queries |-> {"q"}, bad |-> FALSE, illegal |-> TRUE, twice |-> FALSE]]
=============================================================================
