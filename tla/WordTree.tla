----------------------------- MODULE WordTree -----------------------------
(***************************************************************************)
(* 7-1-26: 6-2.c, variables with a common prefix; 6-3.c, a                 *)
(* cross-reference; 6-4.c, words by frequency.  Each reads words, puts     *)
(* them into a binary tree and prints the tree in order.                   *)
(*                                                                         *)
(* A text is a sequence of characters and a word one of letters.  What     *)
(* ungetch() pushes back is the character at pos, read again.              *)
(***************************************************************************)
EXTENDS Integers, Sequences, FiniteSets

CONSTANTS Letters,    \* the letters, in their order
          Variables,  \* the texts for 6-2.c
          Documents,  \* the texts for 6-3.c and 6-4.c
          Keywords,   \* iskeyword()'s list
          NoiseWords, \* the words 6-3.c is to remove
          Prefix      \* how many characters 6-2.c compares

VARIABLES chars, exercise,   \* the text and who reads it
          pos, line,         \* the next character and the line it is on
          tree,
          listing,           \* what is printed
          state              \* "reading", "done" or "crashed"

wordVars == <<chars, exercise, pos, line, tree, listing, state>>

Nil == <<>>
EmptyTree == [root |-> Nil, left |-> <<>>, right |-> <<>>, count |-> <<>>, lines |-> <<>>]

WordInit == /\ \/ chars \in Variables /\ exercise = "6-2"
               \/ chars \in Documents /\ exercise = "6-3"
            /\ pos = 1 /\ line = 1 /\ tree = EmptyTree /\ listing = <<>> /\ state = "reading"

-----------------------------------------------------------------------------
(* getch(): the character at k, and where the next one of a kind is.       *)
getch(k) == IF k <= Len(chars) THEN chars[k] ELSE "EOF"
IsLetter(c) == \E k \in DOMAIN Letters : Letters[k] = c
isspace(c) == c \in {" ", "\n"}

NextOf(places, k) == CHOOSE q \in k .. Len(chars) + 1 :
                       /\ q > Len(chars) \/ q \in places
                       /\ \A r \in k .. q - 1 : r \notin places
NextChar(c, k) == NextOf({q \in DOMAIN chars : chars[q] = c}, k)
NextWordEnd(k) == NextOf({q \in DOMAIN chars : ~IsLetter(chars[q])}, k)
NextNonSpace(k) == NextOf({q \in DOMAIN chars : ~isspace(chars[q])}, k)
NextCommentEnd(k) == NextOf({q \in DOMAIN chars : chars[q] = "*" /\ getch(q + 1) = "/"}, k)

Upto(k) == IF k > Len(chars) THEN Len(chars) + 1 ELSE k
Got(word, next) == [word |-> word, next |-> Upto(next)]

(* getword of 6-3.c and 6-4.c, from k on: strings are skipped.             *)
getword(k) ==
  LET start == NextNonSpace(k)
      ch == getch(start)
  IN  CASE ch = "EOF" -> Got(<<"EOF">>, start)
        [] ch = "\"" -> Got(<<>>, NextChar("\"", start + 1) + 1)
        [] IsLetter(ch) -> Got(SubSeq(chars, start, NextWordEnd(start) - 1), NextWordEnd(start))
        [] OTHER -> Got(<<ch>>, start + 1)

(* That of 6-2.c, where "_" is a letter: it also skips comments and        *)
(* preprocessor lines, and the character after any other "/".              *)
getword_variable(k) ==
  LET gw[q \in 1 .. Len(chars) + 1] ==
        LET start == NextNonSpace(q)
            ch == getch(start)
            next == getch(start + 1)
        IN  CASE ch = "#" -> Got(<<"#">>, NextChar("\n", start) + 1)
              [] ch = "/" /\ next = "/" -> gw[Upto(NextChar("\n", start + 2) + 1)]
              [] ch = "/" /\ next = "*" -> gw[Upto(NextCommentEnd(start + 2) + 2)]
              [] ch = "/" /\ next \notin {"/", "*"} -> Got(<<"/">>, start + 2)
              [] OTHER -> getword(q)
  IN  gw[k]

(* ungetch() takes a newline back from the count of lines.                 *)
NotTakenBackMutant(ch) == 0
ungetch(ch) == IF ch = "\n" THEN 1 ELSE 0
Newlines(from, to) == Cardinality({k \in from .. to : getch(k) = "\n"})
LineAfter(got) ==
  IF got.word # <<>> /\ IsLetter(got.word[1])
  THEN line + Newlines(pos, got.next) - ungetch(getch(got.next))
  ELSE line + Newlines(pos, got.next - 1)

-----------------------------------------------------------------------------
(* strcmp() < 0 *)
Rank(c) == CHOOSE k \in DOMAIN Letters : Letters[k] = c
Precedes(u, v) ==
  \/ \E k \in DOMAIN u \cap DOMAIN v : /\ \A j \in 1 .. k - 1 : u[j] = v[j]
                                       /\ Rank(u[k]) < Rank(v[k])
  \/ Len(u) < Len(v) /\ \A j \in DOMAIN u : u[j] = v[j]

Words(t) == DOMAIN t.count
With(f, w, value) == [v \in DOMAIN f \cup {w} |-> IF v = w THEN value ELSE f[v]]

alloc(t, w) == [t EXCEPT !.left = With(@, w, Nil), !.right = With(@, w, Nil),
                         !.count = With(@, w, 1), !.lines = With(@, w, <<>>)]

(* The last node on the way down from the root: the word's, or its parent. *)
Child(t, node, w) == IF Precedes(node, w) THEN t.right[node] ELSE t.left[node]
Descent(t, w) ==
  LET at[k \in 0 .. Cardinality(Words(t))] ==
        IF k = 0 THEN t.root
        ELSE LET node == at[k - 1]
             IN  IF node = w \/ Child(t, node, w) = Nil THEN node ELSE Child(t, node, w)
  IN  at[Cardinality(Words(t))]

addtree(t, w) ==
  IF t.root = Nil THEN [alloc(t, w) EXCEPT !.root = w]
  ELSE LET node == Descent(t, w)
       IN  IF node = w THEN [t EXCEPT !.count[w] = @ + 1]
           ELSE IF Precedes(node, w) THEN [alloc(t, w) EXCEPT !.right[node] = w]
           ELSE [alloc(t, w) EXCEPT !.left[node] = w]

(* The line is noted unless it was the last one that was.                  *)
Noted(lines, l) == IF lines # <<>> /\ lines[Len(lines)] = l THEN lines ELSE Append(lines, l)

-----------------------------------------------------------------------------
(* sorted_tree: the nodes in order, left before right.                     *)
sorted_tree(t) ==
  LET below[d \in 0 .. Cardinality(Words(t))] ==
        [w \in Words(t) \cup {Nil} |->
           IF w = Nil \/ d = 0 THEN <<>>
           ELSE below[d - 1][t.left[w]] \o <<w>> \o below[d - 1][t.right[w]]]
  IN  below[Cardinality(Words(t))][t.root]

(* sort_on_frequency: bubble sort that ends with a pass without a swap.    *)
Swaps(t, u, v) == t.count[u] < t.count[v] \/ (t.count[u] = t.count[v] /\ Precedes(v, u))
Bubble(t, s, last) ==
  LET pass[j \in 0 .. last] ==
        IF j = 0 THEN s
        ELSE LET p == pass[j - 1]
             IN  IF Swaps(t, p[j], p[j + 1])
                 THEN [p EXCEPT ![j] = p[j + 1], ![j + 1] = p[j]] ELSE p
  IN  pass[last]
sort_on_frequency(t, s) ==
  LET after[i \in 0 .. Len(s)] == IF i = 0 THEN s ELSE Bubble(t, after[i - 1], Len(s) - i)
  IN  after[Len(s)]

(* 6-2.c: a line of its own before a word with another prefix.             *)
Cut(w) == SubSeq(w, 1, Prefix)
Grouped(s) == [k \in DOMAIN s |->
                 [word |-> s[k], count |-> tree.count[s[k]],
                  apart |-> k > 1 /\ Cut(s[k]) # Cut(s[k - 1])]]
Counted(s) == [k \in DOMAIN s |->
                 [word |-> s[k], count |-> tree.count[s[k]], lines |-> tree.lines[s[k]]]]

-----------------------------------------------------------------------------
(* main *)
Reads(got) == pos' = got.next /\ UNCHANGED <<chars, exercise, listing, state>>

ReadVariable ==
  LET got == getword_variable(pos)
  IN  /\ state = "reading" /\ exercise = "6-2" /\ got.word # <<"EOF">>
      /\ tree' = IF got.word # <<>> /\ IsLetter(got.word[1]) /\ got.word \notin Keywords
                 THEN addtree(tree, got.word) ELSE tree
      /\ Reads(got) /\ UNCHANGED line

ReadWord ==
  LET got == getword(pos)
      w == got.word
  IN  /\ state = "reading" /\ exercise = "6-3" /\ w # <<"EOF">>
      /\ line' = LineAfter(got)
      /\ tree' = IF w # <<>> /\ IsLetter(w[1])
                 THEN [addtree(tree, w) EXCEPT !.lines[w] = Noted(@, line')] ELSE tree
      /\ Reads(got)

Printed(s) == listing' = s /\ state' = "done"

(* 6-2.c takes the prefix of the first word, also when there is none.      *)
PrintGroups == /\ state = "reading" /\ exercise = "6-2" /\ getword_variable(pos).word = <<"EOF">>
               /\ IF Words(tree) = {} THEN state' = "crashed" /\ UNCHANGED listing
                  ELSE Printed(Grouped(sorted_tree(tree)))
               /\ UNCHANGED <<chars, exercise, pos, line, tree>>

Ended == state = "reading" /\ exercise = "6-3" /\ getword(pos).word = <<"EOF">>
PrintLines == /\ Ended /\ Printed(Counted(sorted_tree(tree)))
              /\ UNCHANGED <<chars, exercise, pos, line, tree>>

(* 6-4.c reads as 6-3.c does.                                              *)
PrintByFrequency == /\ Ended /\ exercise' = "6-4"
                    /\ Printed(Counted(sort_on_frequency(tree, sorted_tree(tree))))
                    /\ UNCHANGED <<chars, pos, line, tree>>

WordNext == ReadVariable \/ ReadWord \/ PrintGroups \/ PrintLines \/ PrintByFrequency

-----------------------------------------------------------------------------
(* What the characters of the text are: code, or a part of a string, a     *)
(* comment or a preprocessor line.  Mode[k] is what follows the k-th.      *)
Mode ==
  LET C == exercise = "6-2"
      after(m, k) ==
        LET c == chars[k]
        IN  CASE m = "code" -> CASE c = "\"" -> "string"
                                 [] C /\ c = "#" -> "line"
                                 [] C /\ c = "/" /\ getch(k + 1) = "/" -> "line"
                                 [] C /\ c = "/" /\ getch(k + 1) = "*" -> "opening"
                                 [] OTHER -> "code"
              [] m = "string" -> IF c = "\"" THEN "code" ELSE m
              [] m = "line" -> IF c = "\n" THEN "code" ELSE m
              [] m = "opening" -> "comment"
              [] m = "comment" -> IF c = "*" /\ getch(k + 1) = "/" THEN "closing" ELSE m
              [] m = "closing" -> "code"
      mode[k \in 0 .. Len(chars)] == IF k = 0 THEN "code" ELSE after(mode[k - 1], k)
  IN  mode

Occurrences(mode) ==
  {o \in (DOMAIN chars) \X (DOMAIN chars) :
     /\ o[1] <= o[2] /\ mode[o[1] - 1] = "code"
     /\ \A k \in o[1] .. o[2] : IsLetter(chars[k])
     /\ o[1] > 1 => ~IsLetter(chars[o[1] - 1])
     /\ ~IsLetter(getch(o[2] + 1))}
Divides(mode) == \E k \in DOMAIN chars : chars[k] = "/" /\ mode[k - 1] = "code" /\ mode[k] = "code"

(* Asked for are the words that are no noise words (6-3.c 1-3), the names  *)
(* that another name shares its prefix with (6-2.c 1-3) and all words      *)
(* (6-4.c).  The programs print the others too: 6-3.c 193-198 has no list  *)
(* of noise words and 6-2.c 237-246 does not look for a second name, so    *)
(* that nothing is said of whether those are listed.                       *)
Asked(texts) ==
  CASE exercise = "6-2" -> {w \in texts : \E v \in texts \ {w} : Cut(v) = Cut(w)}
    [] exercise = "6-3" -> texts \ NoiseWords
    [] exercise = "6-4" -> texts

(* The listing has every word that the program's first lines ask for, and  *)
(* no word that the text does not have: outside strings, and for 6-2.c     *)
(* outside comments and preprocessor lines and no keyword.  Each is there  *)
(* once, in order, with the number of its occurrences, for 6-3.c with all  *)
(* of its lines, and for 6-2.c apart from words with another prefix; where *)
(* a "/" begins no comment, 6-2.c loses the character behind it (177).     *)
ListingIsExact ==
  LET mode == Mode
      text(o) == SubSeq(chars, o[1], o[2])
      occurs == {o \in Occurrences(mode) : exercise = "6-2" => text(o) \notin Keywords}
      texts == {text(o) : o \in occurs}
      listed == {listing[k].word : k \in DOMAIN listing}
      inOrder(u, v) == IF exercise = "6-4"
                       THEN u.count > v.count \/ (u.count = v.count /\ Precedes(u.word, v.word))
                       ELSE Precedes(u.word, v.word)
      increasing(s) == \A j, k \in DOMAIN s : j < k => s[j] < s[k]
  IN  state = "done" /\ ~(exercise = "6-2" /\ Divides(mode)) =>
        /\ Asked(texts) \subseteq listed /\ listed \subseteq texts
        /\ \A j, k \in DOMAIN listing : j < k => inOrder(listing[j], listing[k])
        /\ \A k \in DOMAIN listing :
             LET mine == {o \in occurs : text(o) = listing[k].word}
             IN  /\ listing[k].count = Cardinality(mine)
                 /\ exercise = "6-3" =>
                      /\ increasing(listing[k].lines)
                      /\ {listing[k].lines[j] : j \in DOMAIN listing[k].lines}
                           = {1 + Newlines(1, o[1] - 1) : o \in mine}
                 /\ exercise = "6-2" => (listing[k].apart <=>
                      k > 1 /\ Cut(listing[k].word) # Cut(listing[k - 1].word))
=============================================================================
