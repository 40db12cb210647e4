------------------------------ MODULE EditorMC ------------------------------
(***************************************************************************)
(* Editor on small files.                                                  *)
(***************************************************************************)
EXTENDS Editor

Chars  == {"x", " ", "NUL", "SUB", "FOR", "END", "NEXT"}
Words1 == {"x", " ", "SUB", "FOR"}
TwoProcs == <<<<"SUB">>, <<"x">>, <<"END", " ", "SUB">>, <<"x">>>>
Loop     == <<<<"FOR">>, <<"x", " ", "x">>, <<"NEXT">>>>
SmallFiles == {TwoProcs, Loop}
SmallClips == {<<"x", "NUL", "NL", "x">>}
=============================================================================
