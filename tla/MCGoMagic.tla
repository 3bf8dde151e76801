------------------------------ MODULE MCGoMagic ------------------------------
(***************************************************************************)
(* An instance of GoMagic.                                                  *)
(***************************************************************************)
EXTENDS GoMagic

\* Three lines in two files; a file that cannot be read to its end; no file at all.
SomeTrees == {<< <<Comment, 1>>, <<2, 3>> >>, << <<4, Unreadable, 5>>, <<Comment>> >>, << >>}
SomeBundles == {<<1, 2, 3>>, <<4>>, << >>}

\* Goroutines that all load the bundled rules; goroutines that use all of the other
\* methods; one that loads the bundled rules and closes the handle, and others that
\* use it meanwhile.
SomePrograms == {[g \in Goroutines |-> {"LoadDefaultMagic"}],
                 [g \in Goroutines |-> Operations \ {"LoadDefaultMagic"}],
                 [g \in Goroutines |-> IF g = Main THEN {"LoadDefaultMagic", "Close"}
                                      ELSE {"File", "Buffer", "GetError"}]}

SomeCommands == [type : {"", "extension", "mime", "other"}, magic : BOOLEAN, targets : {1, 2}]
=============================================================================
