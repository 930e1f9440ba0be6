------------------------------ MODULE Library ------------------------------
(***************************************************************************)
(* The exercises that keep state of their own: a storage allocator,        *)
(* buffered streams, a table of definitions and trees of words.  One       *)
(* behaviour is a run of one of them.                                      *)
(***************************************************************************)
EXTENDS Allocator, Stdio, SymbolTable, WordTree

VARIABLE routines

vars == <<routines, allocVars, stdioVars, tableVars, wordVars>>

Init == /\ routines \in {"allocator", "stdio", "table", "words"}
        /\ AllocInit /\ StdioInit
        /\ TableInit /\ (routines # "table" => text = <<>>)
        /\ WordInit /\ (routines # "words" => chars = <<>> /\ exercise = "6-2")

Runs(r, A) == /\ routines = r /\ A /\ UNCHANGED routines
              /\ r = "allocator" \/ UNCHANGED allocVars
              /\ r = "stdio" \/ UNCHANGED stdioVars
              /\ r = "table" \/ UNCHANGED tableVars
              /\ r = "words" \/ UNCHANGED wordVars

Next == \/ Runs("allocator", AllocNext) \/ Runs("stdio", StdioNext)
        \/ Runs("table", TableNext) \/ Runs("words", WordNext)

Spec == Init /\ [][Next]_vars
=============================================================================
