----------------------------- MODULE MCLibrary -----------------------------
(***************************************************************************)
(* Instances of Library for TLC.                                           *)
(***************************************************************************)
EXTENDS Library

MCNames == {"x", "y", "1", "2", ""}
MCHash == [n \in MCNames |-> IF n \in {"x", "y", "1"} THEN 0 ELSE 1]
MCSources == {<<>>,
              <<"#", "define", "x", "y", "x", "#", "define", "y", "1", "x", "y">>,
              <<"#", "define", "x", "1", "#", "include", "#", "define", "x">>,
              <<"#">>}

MCLetters == <<"_", "a", "b">>
Texts(S, n) == UNION {[1 .. k -> S] : k \in 0 .. n}
MCDocuments == Texts({"a", "b", " ", "\n", "\""}, 5)
MCVariables == Texts({"a", "_", "/", "*", "\n", "#", "\""}, 4) \cup
  {<<"/", "*", "a", "*", "/", "b", "_">>, <<"b", "/", "/", "a", "\n", "b", "a">>,
   <<"a", " ", "/", "*", "/", "b", "*", "/", "b", "b">>}
MCKeywords == {<<"a", "a">>}
MCNoiseWords == {<<"b">>}
=============================================================================
