---------------------------- MODULE MCFileServer ----------------------------
(* The instance of FileServer that TLC checks: two clients, and the        *)
(* directories / , /r and /r/a.                                            *)
EXTENDS FileServer

CONSTANTS c1, c2

TwoClients == {c1, c2}
SmallTree  == {<<>>, <<"r">>, <<"r", "a">>}
DoneInA    == {<<"r", "a">>}
SomeStarts == {<<"", "r">>, <<"r">>, <<"", "nowhere">>}
SomeFiles  == {<<Command("echo", ""), Command("info", "")>>, <<Command("list", "")>>,
               <<Command("cd", "a")>>, <<Command("quit", ""), Command("echo", "")>>, <<Command("bare", "")>>}
=============================================================================
