------------------------------ MODULE FileIOMC ------------------------------
(***************************************************************************)
(* Small values for FileIO: numbers of four and six bits, strings with the *)
(* characters that matter to INPUT #.                                      *)
(***************************************************************************)
EXTENDS FileIO

SmallBits ==
  [t \in {"byte", "ubyte", "integer", "uinteger"} |-> 4] @@ [t \in {"long", "ulong"} |-> 6]

Of(ty, v) == [ty |-> ty, v |-> v]

Said(how, items, end) == [how |-> how, items |-> items, end |-> end]

(* -31 and -32, the smallest LONG, which does not come back; 63, the       *)
(* largest ULONG; " a,", "b" and "a" with a quote and a Return.            *)
SmallStatements ==
  { Said("write", <<Of("long", -31), Of("string", <<32, 97, 44>>)>>, TRUE),
    Said("write", <<Of("bool", TRUE), Of("long", -32)>>, TRUE),
    Said("print,", <<Of("string", <<98>>), Of("ulong", 63)>>, TRUE),
    Said("print;", <<Of("string", <<13, 97, 34>>)>>, FALSE) }

Answers ==
  { [line |-> <<53>>, ty |-> "long", v |-> 5] }

OneFile == {"F"}
=============================================================================
