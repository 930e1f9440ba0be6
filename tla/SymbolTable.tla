---------------------------- MODULE SymbolTable ----------------------------
(***************************************************************************)
(* 8-1-26/6-5.c: a table of names and their definitions, with undef; and   *)
(* 6-6.c: a #define processor that uses it.                                *)
(*                                                                         *)
(* A program's text is a sequence of what getword() returns: words, single *)
(* characters that are not letters, and "" for a string literal.           *)
(***************************************************************************)
EXTENDS Naturals, Sequences

CONSTANTS Names, HASHSIZE, Hash,   \* the names, and the chain of each
          Sources                  \* the texts for 6-6.c

ASSUME HashAssumption == Hash \in [Names -> 0 .. HASHSIZE - 1]

(* A text ends in empty words; every string has a hash in the code, so the *)
(* names are to include what a text defines.  "none" is no string of it.   *)
Token(s, k) == IF k <= Len(s) THEN s[k] ELSE ""
DefinesNames(s) ==
  \A k \in DOMAIN s : Token(s, k) = "#" /\ Token(s, k + 1) = "define" =>
                        Token(s, k + 2) \in Names /\ Token(s, k + 3) # "none"

ASSUME SourcesAssumption == \A s \in Sources : s \in Seq(STRING) /\ DefinesNames(s)

VARIABLES hashtab,   \* the chains
          defs,      \* what install() and undef() were asked for
          text       \* what 6-6.c has not read

tableVars == <<hashtab, defs, text>>

TableInit == /\ hashtab = [h \in 0 .. HASHSIZE - 1 |-> <<>>]
             /\ defs = [n \in Names |-> "none"]
             /\ text \in Sources

-----------------------------------------------------------------------------
hash(s) == Hash[s]
Node(name, repl) == [word |-> name, repl |-> repl]

Positions(tab, s) == {k \in DOMAIN tab[hash(s)] : tab[hash(s)][k].word = s}
lookup(tab, s) ==
  IF Positions(tab, s) = {} THEN "none"
  ELSE tab[hash(s)][CHOOSE k \in Positions(tab, s) : \A j \in Positions(tab, s) : k <= j].repl

install(tab, name, repl) ==
  [tab EXCEPT ![hash(name)] =
     IF lookup(tab, name) = "none" THEN Append(@, Node(name, repl))
     ELSE [k \in DOMAIN @ |-> IF @[k].word = name THEN Node(name, repl) ELSE @[k]]]

CutsTailMutant(chain, k) == SubSeq(chain, 1, k - 1)
Unlinked(chain, k) == SubSeq(chain, 1, k - 1) \o SubSeq(chain, k + 1, Len(chain))

undef(tab, name) ==
  IF lookup(tab, name) = "none" THEN tab
  ELSE [tab EXCEPT ![hash(name)] =
          Unlinked(@, CHOOSE k \in Positions(tab, name) : \A j \in Positions(tab, name) : k <= j)]

-----------------------------------------------------------------------------
(* 6-6.c, main.  getword() gives the next of the text, and an empty word   *)
(* at its end; a definition is two of them, wherever they stand.           *)
Rest(k) == text' = SubSeq(text, k + 1, Len(text))

Installs(name, repl) ==
  /\ hashtab' = install(hashtab, name, repl) /\ defs' = [defs EXCEPT ![name] = repl]

Define == /\ Token(text, 1) = "#" /\ Token(text, 2) = "define"
          /\ Installs(Token(text, 3), Token(text, 4)) /\ Rest(4)

OtherDirective == /\ Token(text, 1) = "#" /\ Token(text, 2) # "define"
                  /\ Rest(2) /\ UNCHANGED <<hashtab, defs>>

(* Any other word is printed as what lookup() gives, once.                 *)
Expand == text # <<>> /\ Token(text, 1) # "#" /\ Rest(1) /\ UNCHANGED <<hashtab, defs>>

(* The routines of 6-5.c by themselves.                                    *)
Undefs(name) ==
  /\ hashtab' = undef(hashtab, name) /\ defs' = [defs EXCEPT ![name] = "none"]
Calls == /\ text = <<>>
         /\ \E name \in Names : \/ Undefs(name)
                                \/ \E repl \in {"1", "2"} : Installs(name, repl)
         /\ UNCHANGED text

TableNext == Define \/ OtherDirective \/ Expand \/ Calls

-----------------------------------------------------------------------------
(* The table gives each name what was last installed for it and has not    *)
(* been undefined; no name is in a chain twice or in the chain of another  *)
(* hash, so that undef() leaves no older definition to be found again.     *)
TableHoldsDefinitions ==
  /\ \A n \in Names : lookup(hashtab, n) = defs[n]
  /\ \A h \in DOMAIN hashtab : \A j, k \in DOMAIN hashtab[h] :
       /\ hash(hashtab[h][j].word) = h
       /\ hashtab[h][j].word = hashtab[h][k].word => j = k
=============================================================================
