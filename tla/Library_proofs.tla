---------------------------- MODULE Library_proofs ----------------------------
(***************************************************************************)
(* Proofs about Library, for any buffer, file, table and memory: the bytes *)
(* of the buffered streams, the definitions of the symbol table, and the   *)
(* blocks of the storage allocator.                                        *)
(***************************************************************************)
EXTENDS Library, FiniteSetTheorems, SequenceTheorems, WellFoundedInduction, TLAPS

(***************************************************************************)
(* Files.                                                                  *)
(***************************************************************************)
Contents == Seq(Bytes \cup {"zero"})

LEMMA Least ==
  ASSUME NEW S \in SUBSET Nat, S # {}
  PROVE  \E k \in S : \A j \in S : k <= j
<1>1. PICK k \in S : \A j \in S : <<j, k>> \notin OpToRel(<, Nat)
  BY NatLessThanWellFounded, WFMin
<1>2. \A j \in S : ~(j < k)
  BY <1>1 DEF OpToRel
<1> QED
  BY <1>2

(* Writing nothing changes nothing; otherwise the file is as long as it    *)
(* was, or ends with what was written.                                     *)
LEMMA OverFacts ==
  ASSUME NEW file \in Contents, NEW at \in Nat, NEW bytes \in Contents
  PROVE  /\ Over(file, at, bytes) \in Contents
         /\ Over(file, at, <<>>) = file
         /\ bytes # <<>> =>
              /\ Len(Over(file, at, bytes)) =
                   IF at + Len(bytes) > Len(file) THEN at + Len(bytes) ELSE Len(file)
              /\ \A k \in 1 .. Len(Over(file, at, bytes)) :
                   Over(file, at, bytes)[k] = IF k > at /\ k <= at + Len(bytes) THEN bytes[k - at]
                                              ELSE IF k <= Len(file) THEN file[k] ELSE "zero"
<1>1. Len(file) \in Nat /\ Len(bytes) \in Nat
  BY LenProperties DEF Contents
<1>2. CASE bytes = <<>>
  BY <1>2 DEF Over
<1>3. CASE bytes # <<>>
  <2> DEFINE n == IF at + Len(bytes) > Len(file) THEN at + Len(bytes) ELSE Len(file)
             o == [k \in 1 .. n |-> IF k > at /\ k <= at + Len(bytes) THEN bytes[k - at]
                                    ELSE IF k <= Len(file) THEN file[k] ELSE "zero"]
  <2>1. n \in Nat /\ n >= Len(file) /\ Over(file, at, bytes) = o
    BY <1>1, <1>3 DEF Over
  <2>2. \A k \in 1 .. n : o[k] \in Bytes \cup {"zero"}
    <3> SUFFICES ASSUME NEW k \in 1 .. n PROVE o[k] \in Bytes \cup {"zero"}
      OBVIOUS
    <3>1. k > at /\ k <= at + Len(bytes) => bytes[k - at] \in Bytes \cup {"zero"}
      BY <1>1, <2>1, ElementOfSeq DEF Contents
    <3>2. k <= Len(file) => file[k] \in Bytes \cup {"zero"}
      BY <1>1, <2>1, ElementOfSeq DEF Contents
    <3> QED
      BY <3>1, <3>2
  <2>3. o \in Contents /\ Len(o) = n
    <3> HIDE DEF n
    <3>1. o \in [1 .. n -> Bytes \cup {"zero"}]
      BY <2>2
    <3> HIDE DEF o
    <3> QED
      BY <2>1, <3>1 DEF Contents
  <2> HIDE DEF o
  <2>4. Over(file, at, <<>>) = file
    BY DEF Over
  <2> QED
    BY <2>1, <2>3, <2>4 DEF o
<1> QED
  BY <1>2, <1>3

(* A byte behind what was written, in one write or in two.                 *)
LEMMA OverAppend ==
  ASSUME NEW file \in Contents, NEW at \in Nat, NEW bytes \in Contents,
         NEW c \in Bytes \cup {"zero"}
  PROVE  Over(file, at, Append(bytes, c)) = Over(Over(file, at, bytes), at + Len(bytes), <<c>>)
<1> DEFINE f2 == Over(file, at, bytes)
           n == Len(bytes)
           l == Over(file, at, Append(bytes, c))
           r == Over(f2, at + n, <<c>>)
           top == IF at + n + 1 > Len(file) THEN at + n + 1 ELSE Len(file)
<1>1. Len(file) \in Nat /\ n \in Nat
  BY LenProperties DEF Contents
<1>2. /\ Append(bytes, c) \in Contents /\ Append(bytes, c) # <<>> /\ Len(Append(bytes, c)) = n + 1
      /\ \A k \in 1 .. n : Append(bytes, c)[k] = bytes[k]
      /\ Append(bytes, c)[n + 1] = c
  BY <1>1 DEF Contents
<1>3. <<c>> \in Contents /\ <<c>> # <<>> /\ Len(<<c>>) = 1 /\ <<c>>[1] = c
  BY DEF Contents
<1>4. f2 \in Contents /\ Len(f2) \in Nat
  BY OverFacts, LenProperties DEF Contents
<1>5. /\ l \in Contents /\ Len(l) = top
      /\ \A k \in 1 .. top : l[k] = IF k > at /\ k <= at + n THEN bytes[k - at]
                                    ELSE IF k = at + n + 1 THEN c
                                    ELSE IF k <= Len(file) THEN file[k] ELSE "zero"
  <2>1. PICK b : b = Append(bytes, c)
    OBVIOUS
  <2>2. /\ l \in Contents /\ Len(l) = top
        /\ \A k \in 1 .. top : l[k] = IF k > at /\ k <= at + n + 1 THEN b[k - at]
                                      ELSE IF k <= Len(file) THEN file[k] ELSE "zero"
    <3>1. b \in Contents /\ b # <<>> /\ Len(b) = n + 1 /\ l = Over(file, at, b)
      BY <1>2, <2>1
    <3> HIDE DEF l, n
    <3> QED
      BY <1>1, <3>1, OverFacts
  <2>3. \A k \in 1 .. top : k > at /\ k <= at + n => b[k - at] = bytes[k - at]
    BY <1>1, <1>2, <2>1
  <2>4. b[at + n + 1 - at] = c
    <3>1. at + n + 1 - at = n + 1
      BY <1>1
    <3> QED
      BY <1>2, <2>1, <3>1
  <2> HIDE DEF l, n
  <2>5. top \in Nat
    BY <1>1
  <2> HIDE DEF top
  <2>6. ASSUME NEW k \in 1 .. top
        PROVE  l[k] = IF k > at /\ k <= at + n THEN bytes[k - at]
                      ELSE IF k = at + n + 1 THEN c
                      ELSE IF k <= Len(file) THEN file[k] ELSE "zero"
    <3>0. k \in Int
      BY <2>5
    <3>1. CASE k = at + n + 1
      <4>1. l[k] = b[k - at] /\ ~(k <= at + n)
        BY <1>1, <2>2, <3>0, <3>1
      <4>2. k - at = at + n + 1 - at
        BY <1>1, <3>0, <3>1
      <4> QED
        BY <2>4, <3>1, <4>1, <4>2
    <3>2. CASE k # at + n + 1
      <4>1. k > at /\ k <= at + n + 1 <=> k > at /\ k <= at + n
        BY <1>1, <3>0, <3>2
      <4> QED
        BY <2>2, <2>3, <3>2, <4>1
    <3> QED
      BY <3>1, <3>2
  <2> QED
    BY <2>2, <2>6
<1>6. /\ r \in Contents
      /\ Len(r) = IF at + n + 1 > Len(f2) THEN at + n + 1 ELSE Len(f2)
      /\ \A k \in 1 .. Len(r) : r[k] = IF k = at + n + 1 THEN c
                                       ELSE IF k <= Len(f2) THEN f2[k] ELSE "zero"
  <2>1. PICK b : b = <<c>>
    OBVIOUS
  <2>2. /\ r \in Contents /\ Len(r) = IF at + n + 1 > Len(f2) THEN at + n + 1 ELSE Len(f2)
        /\ \A k \in 1 .. Len(r) : r[k] = IF k > at + n /\ k <= at + n + 1 THEN b[k - (at + n)]
                                         ELSE IF k <= Len(f2) THEN f2[k] ELSE "zero"
    <3>1. b \in Contents /\ b # <<>> /\ Len(b) = 1 /\ r = Over(f2, at + n, b) /\ at + n \in Nat
      BY <1>1, <1>3, <2>1
    <3> HIDE DEF r, n, f2
    <3> QED
      BY <1>1, <1>4, <3>1, OverFacts
  <2>3. b[at + n + 1 - (at + n)] = c
    <3>1. at + n + 1 - (at + n) = 1
      BY <1>1
    <3> QED
      BY <1>3, <2>1, <3>1
  <2> HIDE DEF r, n, f2
  <2>4. Len(r) \in Nat
    BY <2>2, LenProperties DEF Contents
  <2> QED
    BY <1>1, <2>2, <2>3, <2>4
<1>7. /\ n = 0 => f2 = file
      /\ n > 0 => Len(f2) = (IF at + n > Len(file) THEN at + n ELSE Len(file))
                  /\ \A k \in 1 .. Len(f2) :
                       f2[k] = IF k > at /\ k <= at + n THEN bytes[k - at]
                               ELSE IF k <= Len(file) THEN file[k] ELSE "zero"
  <2>1. n = 0 => bytes = <<>>
    BY EmptySeq DEF Contents
  <2>2. n > 0 => bytes # <<>>
    BY EmptySeq
  <2> QED
    BY <1>1, <2>1, <2>2, OverFacts
<1> HIDE DEF l, r, n, f2
<1>8. Len(r) = top
  BY <1>1, <1>4, <1>6, <1>7
<1>9. \A k \in 1 .. top : l[k] = r[k]
  <2> SUFFICES ASSUME NEW k \in 1 .. top PROVE l[k] = r[k]
    OBVIOUS
  <2>0. k \in Int /\ k >= 1 /\ top \in Nat
    BY <1>1
  <2>1. CASE k = at + n + 1
    BY <1>1, <1>5, <1>6, <1>8, <2>1
  <2>2. CASE k # at + n + 1 /\ n = 0
    BY <1>1, <1>5, <1>6, <1>7, <1>8, <2>0, <2>2
  <2>3. CASE k # at + n + 1 /\ n > 0
    <3>1. l[k] = IF k > at /\ k <= at + n THEN bytes[k - at]
                 ELSE IF k <= Len(file) THEN file[k] ELSE "zero"
      BY <1>5, <2>3
    <3>2. r[k] = IF k <= Len(f2) THEN f2[k] ELSE "zero"
      BY <1>6, <1>8, <2>3
    <3>3. CASE k <= Len(f2)
      BY <1>1, <1>4, <1>7, <2>0, <2>3, <3>1, <3>2, <3>3
    <3>4. CASE k > Len(f2)
      BY <1>1, <1>4, <1>7, <2>0, <2>3, <3>1, <3>2, <3>4
    <3> QED
      BY <1>4, <2>0, <3>3, <3>4
  <2> QED
    BY <1>1, <2>1, <2>2, <2>3
<1> QED
  BY <1>5, <1>6, <1>8, <1>9, SeqEqual DEF Contents, l, r, f2, n

-----------------------------------------------------------------------------
(***************************************************************************)
(* The buffered streams.                                                   *)
(***************************************************************************)
Streams == [read : BOOLEAN, write : BOOLEAN, eof : BOOLEAN, err : BOOLEAN, base : BOOLEAN,
            buf : Contents, cnt : Int, off : Nat]

(* What a reader has buffered is counted.                                  *)
Buffered(f) ==
  /\ f.read <=> ~f.write
  /\ f.read => IF f.cnt > 0 THEN Len(f.buf) = f.cnt ELSE f.buf = <<>>

(* d: the file, w: what it is to be, p: the place of the next byte.  A     *)
(* reader's buffer lies in the file, although my_fseek may go beyond it.   *)
InPlace(f, d, w, p) ==
  ~f.err => IF f.write THEN Over(d, f.off, f.buf) = w /\ p = f.off + Len(f.buf)
            ELSE /\ d = w /\ f.buf = SubSeq(d, p + 1, f.off)
                 /\ p <= f.off /\ (p < f.off => f.off <= Len(d))

StdioOK ==
  /\ _iob \in [1 .. OPEN_MAX -> Streams] /\ fp \in 0 .. OPEN_MAX
  /\ disk \in Contents /\ want \in Contents /\ place \in Nat
  /\ running \in {"yes", "astray", "crashed"}
  /\ fp # 0 => Buffered(Stream)
  /\ running = "yes" => IF fp = 0 THEN disk = want ELSE InPlace(Stream, disk, want, place)

LEMMA StreamFacts ==
  ASSUME StdioOK, fp # 0
  PROVE  /\ Stream \in Streams /\ Stream.buf \in Contents /\ Len(Stream.buf) \in Nat
         /\ Stream.off \in Nat /\ Stream.cnt \in Int
         /\ Stream.err \in BOOLEAN /\ Stream.write \in BOOLEAN /\ Stream.read \in BOOLEAN
         /\ Len(disk) \in Nat
<1>1. Stream \in Streams
  BY DEF StdioOK, Stream
<1>2. disk \in Contents /\ Stream.buf \in Contents
  BY <1>1 DEF StdioOK, Streams
<1> QED
  BY <1>1, <1>2, LenProperties DEF Contents, Streams

(* A step that changes the program's stream to f.                          *)
LEMMA StreamStep ==
  ASSUME StdioOK, fp # 0, fp' = fp, NEW f \in Streams, Becomes(f), Buffered(f),
         disk' \in Contents, want' \in Contents, place' \in Nat,
         running' \in {"yes", "astray", "crashed"},
         running' = "yes" => InPlace(f, disk', want', place')
  PROVE  StdioOK'
<1>1. /\ _iob' = [_iob EXCEPT ![fp] = f] /\ fp \in 1 .. OPEN_MAX
      /\ _iob \in [1 .. OPEN_MAX -> Streams]
  BY StdioAssumption DEF StdioOK, Becomes
<1>2. _iob' \in [1 .. OPEN_MAX -> Streams] /\ _iob'[fp] = f
  BY <1>1
<1> QED
  BY <1>1, <1>2 DEF StdioOK, Stream

(* write() leaves a file and a place behind what it wrote.                 *)
LEMMA WritesFacts ==
  ASSUME StdioOK, NEW f \in Streams, NEW w \in writes(f)
  PROVE  /\ w.disk \in Contents /\ w.off \in Nat
         /\ Complete(f, w) => w.disk = Over(disk, f.off, f.buf) /\ w.off = f.off + Len(f.buf)
<1>1. PICK n \in 0 .. Len(f.buf) :
        w = [n |-> n, disk |-> Over(disk, f.off, SubSeq(f.buf, 1, n)), off |-> f.off + n]
  BY DEF writes
<1>2. f.buf \in Contents /\ f.off \in Nat /\ Len(f.buf) \in Nat
  BY LenProperties DEF Streams, Contents
<1>3. SubSeq(f.buf, 1, n) \in Contents
  <2>1. PICK b : b = f.buf
    OBVIOUS
  <2>2. \A k \in 1 .. n : b[k] \in Bytes \cup {"zero"}
    BY <1>1, <1>2, <2>1, ElementOfSeq DEF Contents
  <2> QED
    BY <1>1, <1>2, <2>1, <2>2, SubSeqProperties DEF Contents
<1>4. w.disk \in Contents /\ w.off \in Nat
  BY <1>1, <1>2, <1>3, OverFacts DEF StdioOK
<1>5. ASSUME Complete(f, w)
      PROVE  w.disk = Over(disk, f.off, f.buf) /\ w.off = f.off + Len(f.buf)
  <2>1. n = Len(f.buf)
    BY <1>1, <1>5 DEF Complete
  <2>2. SubSeq(f.buf, 1, n) = f.buf
    BY <1>2, <2>1, SubSeqFull DEF Contents
  <2> QED
    BY <1>1, <2>1, <2>2
<1> QED
  BY <1>4, <1>5

LEMMA OpenKeeps ==
  ASSUME StdioOK, NEW mode \in {"r", "w", "a"}, my_fopen(mode)
  PROVE  StdioOK'
<1> DEFINE s == CHOOSE t \in Slots : \A u \in Slots : t <= u
           file == IF mode = "w" THEN <<>> ELSE disk
           at == IF mode = "a" THEN Len(disk) ELSE 0
           f == [NoStream EXCEPT !.read = (mode = "r"), !.write = (mode # "r"), !.off = at]
<1>1. s \in 1 .. OPEN_MAX
  <2>1. Slots \in SUBSET Nat /\ Slots # {}
    BY DEF Slots, my_fopen
  <2>2. s \in Slots
    BY <2>1, Least
  <2> QED
    BY <2>2 DEF Slots
<1>2. at \in Nat /\ file \in Contents
  BY LenProperties, EmptySeq DEF StdioOK, Contents
<1>3. /\ _iob' = [_iob EXCEPT ![s] = f] /\ fp' = s /\ place' = at /\ disk' = file /\ want' = file
      /\ running' = "yes"
  BY DEF my_fopen
<1>4. /\ f \in Streams /\ f.write = (mode # "r") /\ f.read = (mode = "r")
      /\ f.err = FALSE /\ f.buf = <<>> /\ f.cnt = 0 /\ f.off = at
  <2>1. PICK rd, wr \in BOOLEAN : (rd <=> mode = "r") /\ (wr <=> mode # "r")
    OBVIOUS
  <2>2. rd = (mode = "r") /\ wr = (mode # "r")
    BY <2>1
  <2>3. NoStream \in Streams /\ NoStream.err = FALSE /\ NoStream.buf = <<>> /\ NoStream.cnt = 0
    BY EmptySeq DEF NoStream, Streams, Contents
  <2>4. f = [NoStream EXCEPT !.read = rd, !.write = wr, !.off = at]
    BY <2>2
  <2> HIDE DEF f, at
  <2>6. PICK z, o : z = NoStream /\ o = at
    OBVIOUS
  <2>7. z \in Streams /\ o \in Nat /\ f = [z EXCEPT !.read = rd, !.write = wr, !.off = o]
    BY <1>2, <2>3, <2>4, <2>6
  <2>5. /\ f \in Streams /\ f.read = rd /\ f.write = wr
        /\ f.err = FALSE /\ f.buf = <<>> /\ f.cnt = 0 /\ f.off = at
    BY <2>1, <2>3, <2>6, <2>7 DEF Streams
  <2> QED
    BY <2>2, <2>5
<1>5. Buffered(f)
  <2> HIDE DEF at, f
  <2> QED
    BY <1>4 DEF Buffered
<1>6. InPlace(f, file, file, at)
  <2>1. Over(file, at, <<>>) = file /\ Len(<<>>) = 0
    BY DEF Over
  <2>2. SubSeq(file, at + 1, at) = <<>>
    BY <1>2, SubSeqEmpty
  <2> HIDE DEF at, f, file
  <2> QED
    BY <1>2, <1>4, <2>1, <2>2 DEF InPlace
<1>7. _iob' \in [1 .. OPEN_MAX -> Streams] /\ _iob'[s] = f
  <2> HIDE DEF f, s
  <2> QED
    BY <1>1, <1>3, <1>4 DEF StdioOK
<1> HIDE DEF s, f, file, at
<1>8. fp' # 0 /\ fp' \in 0 .. OPEN_MAX /\ Stream' = f
  BY <1>1, <1>3, <1>7, StdioAssumption DEF Stream
<1> QED
  BY <1>2, <1>3, <1>4, <1>5, <1>6, <1>7, <1>8 DEF StdioOK

(* A byte that is stored, and one that finds the buffer full.              *)
LEMMA PutKeeps ==
  ASSUME StdioOK, NEW c \in Bytes, my_putc(c)
  PROVE  StdioOK'
<1>1. /\ fp # 0 /\ Stream.write /\ Buffered(Stream) /\ ~Stream.read
      /\ running \in {"yes", "astray"}
  <2>1. fp # 0 /\ Stream.write /\ running # "crashed"
    BY DEF my_putc, Has
  <2>2. Buffered(Stream) /\ running \in {"yes", "astray"}
    BY <2>1 DEF StdioOK
  <2>3. ~Stream.read
    <3>1. PICK f : f = Stream
      OBVIOUS
    <3>2. f.read \in BOOLEAN /\ f.write /\ Buffered(f)
      BY <2>1, <2>2, <3>1, StreamFacts
    <3>3. ~f.read
      BY <3>2 DEF Buffered
    <3> QED
      BY <3>1, <3>3
  <2> QED
    BY <2>1, <2>2, <2>3
<1>2. running = "yes" => InPlace(Stream, disk, want, place)
  BY <1>1 DEF StdioOK
<1>3. PICK f : f = Stream
  OBVIOUS
<1>4. /\ f \in Streams /\ f.buf \in Contents /\ Len(f.buf) \in Nat
      /\ f.off \in Nat /\ f.cnt \in Int /\ f.write /\ ~f.read
  BY <1>1, <1>3, StreamFacts
<1>5. <<c>> \in Contents /\ Len(<<c>>) = 1 /\ place + 1 \in Nat /\ Over(want, place, <<c>>) \in Contents
  <2>1. <<c>> \in Contents /\ Len(<<c>>) = 1
    BY DEF Contents
  <2> QED
    BY <2>1, OverFacts DEF StdioOK
<1>6. CASE Stream.cnt > 0 /\ Stream.base
  <2> DEFINE g == [f EXCEPT !.cnt = @ - 1, !.buf = Append(@, c)]
  <2>1. /\ Becomes(g) /\ want' = Over(want, place, <<c>>) /\ place' = place + 1
        /\ disk' = disk /\ fp' = fp /\ running' = running
    BY <1>3, <1>6 DEF my_putc, Stored, Accepted
  <2>2. Append(f.buf, c) \in Contents /\ Len(Append(f.buf, c)) = Len(f.buf) + 1
    BY <1>4 DEF Contents
  <2>3. /\ g \in Streams /\ g.write = f.write /\ g.read = f.read /\ g.err = f.err
        /\ g.off = f.off /\ g.buf = Append(f.buf, c)
    <3>1. PICK x, b : x = f.cnt - 1 /\ b = Append(f.buf, c)
      OBVIOUS
    <3>2. x \in Int /\ b \in Contents
      BY <1>4, <2>2, <3>1
    <3>3. g = [f EXCEPT !.cnt = x, !.buf = b]
      BY <1>4, <3>1 DEF Streams
    <3> HIDE DEF g
    <3> QED
      BY <1>4, <3>1, <3>2, <3>3 DEF Streams
  <2>4. Buffered(g)
    BY <1>4, <2>3 DEF Buffered
  <2>5. running = "yes" => InPlace(g, disk, want', place')
    <3>1. Over(disk, f.off, Append(f.buf, c))
            = Over(Over(disk, f.off, f.buf), f.off + Len(f.buf), <<c>>)
      BY <1>4, OverAppend DEF StdioOK
    <3> HIDE DEF g
    <3> QED
      BY <1>2, <1>3, <1>4, <2>1, <2>2, <2>3, <3>1 DEF InPlace
  <2> HIDE DEF g
  <2> QED
    BY <1>1, <1>5, <2>1, <2>3, <2>4, <2>5, StreamStep DEF StdioOK
<1>7. CASE Stream.cnt > 0 /\ ~Stream.base
  <2>1. running' = "crashed" /\ UNCHANGED <<_iob, disk, fp, want, place>>
    BY <1>7 DEF my_putc, NoBuffer
  <2> QED
    BY <2>1 DEF StdioOK, Stream
<1>8. CASE ~(Stream.cnt > 0) /\ Stream.err
  <2>1. UNCHANGED stdioVars
    BY <1>8 DEF my_putc, _my_flushbuf
  <2> QED
    BY <2>1 DEF StdioOK, Stream, stdioVars
<1>9. CASE /\ ~(Stream.cnt > 0) /\ ~f.base
           /\ Becomes([f EXCEPT !.err = TRUE]) /\ UNCHANGED <<disk, fp, want, place, running>>
  <2> DEFINE g == [f EXCEPT !.err = TRUE]
  <2>1. g \in Streams /\ g.write = f.write /\ g.read = f.read /\ g.err
    BY <1>4 DEF Streams
  <2>2. Buffered(g) /\ InPlace(g, disk', want', place')
    BY <1>4, <2>1 DEF Buffered, InPlace
  <2>3. Becomes(g)
    BY <1>9
  <2> HIDE DEF g
  <2> QED
    BY <1>1, <1>9, <2>1, <2>2, <2>3, StreamStep DEF StdioOK
<1>10. CASE ~(Stream.cnt > 0) /\ \E w \in writes(f) :
               /\ disk' = w.disk /\ UNCHANGED <<fp, running>>
               /\ IF Complete(f, w)
                  THEN /\ Becomes([f EXCEPT !.base = TRUE, !.buf = <<c>>, !.cnt = BUFSIZ - 1, !.off = w.off])
                       /\ Accepted(c)
                  ELSE /\ Becomes([f EXCEPT !.err = TRUE, !.off = w.off])
                       /\ UNCHANGED <<want, place>>
  <2>1. PICK w \in writes(f) :
          /\ disk' = w.disk /\ UNCHANGED <<fp, running>>
          /\ IF Complete(f, w)
             THEN /\ Becomes([f EXCEPT !.base = TRUE, !.buf = <<c>>, !.cnt = BUFSIZ - 1, !.off = w.off])
                  /\ Accepted(c)
             ELSE /\ Becomes([f EXCEPT !.err = TRUE, !.off = w.off])
                  /\ UNCHANGED <<want, place>>
    BY <1>10
  <2>2. /\ w.disk \in Contents /\ w.off \in Nat
        /\ Complete(f, w) => w.disk = Over(disk, f.off, f.buf) /\ w.off = f.off + Len(f.buf)
    BY <1>4, WritesFacts
  <2>3. CASE Complete(f, w)
    <3> DEFINE g == [f EXCEPT !.base = TRUE, !.buf = <<c>>, !.cnt = BUFSIZ - 1, !.off = w.off]
    <3>1. /\ g \in Streams /\ g.write = f.write /\ g.read = f.read /\ g.err = f.err
          /\ g.off = w.off /\ g.buf = <<c>>
      <4>1. PICK b, x, o : b = <<c>> /\ x = BUFSIZ - 1 /\ o = w.off
        OBVIOUS
      <4>2. b \in Contents /\ x \in Int /\ o \in Nat
        BY <1>5, <2>2, <4>1, StdioAssumption
      <4>3. g = [f EXCEPT !.base = TRUE, !.buf = b, !.cnt = x, !.off = o]
        BY <4>1
      <4> HIDE DEF g
      <4> QED
        BY <1>4, <4>1, <4>2, <4>3 DEF Streams
    <3>2. Buffered(g)
      BY <1>4, <3>1 DEF Buffered
    <3>3. running = "yes" => InPlace(g, disk', want', place')
      <4> HIDE DEF g
      <4> QED
        BY <1>2, <1>3, <1>4, <1>5, <2>1, <2>2, <2>3, <3>1 DEF InPlace, Accepted
    <3> HIDE DEF g
    <3> QED
      BY <1>1, <1>5, <2>1, <2>2, <2>3, <3>1, <3>2, <3>3, StreamStep DEF StdioOK, Accepted, g
  <2>4. CASE ~Complete(f, w)
    <3> DEFINE g == [f EXCEPT !.err = TRUE, !.off = w.off]
    <3>1. g \in Streams /\ g.write = f.write /\ g.read = f.read /\ g.err
      BY <1>4, <2>2 DEF Streams
    <3>2. Buffered(g) /\ InPlace(g, disk', want', place')
      BY <1>4, <3>1 DEF Buffered, InPlace
    <3>3. Becomes(g)
      BY <2>1, <2>4
    <3> HIDE DEF g
    <3> QED
      BY <1>1, <2>1, <2>2, <2>4, <3>1, <3>2, <3>3, StreamStep DEF StdioOK
  <2> QED
    BY <2>3, <2>4
<1>11. CASE ~(Stream.cnt > 0) /\ ~Stream.err
  BY <1>3, <1>9, <1>10, <1>11 DEF my_putc, _my_flushbuf
<1> QED
  BY <1>6, <1>7, <1>8, <1>11

(* What my_fflush leaves: the buffer's bytes are in the file.              *)
LEMMA FlushedFacts ==
  ASSUME StdioOK, NEW f \in Streams, Buffered(f), f.write, NEW w \in writes(f), Complete(f, w),
         NEW g, g = Flushed(f, w)
  PROVE  /\ g \in Streams /\ Buffered(g) /\ g.write /\ ~g.read /\ g.err = f.err
         /\ InPlace(f, disk, want, place) => InPlace(g, w.disk, want, place)
<1>1. /\ w.disk \in Contents /\ w.off \in Nat
      /\ w.disk = Over(disk, f.off, f.buf) /\ w.off = f.off + Len(f.buf)
  BY WritesFacts
<1>2. PICK b, x, o : b = <<>> /\ x = BUFSIZ /\ o = w.off
  OBVIOUS
<1>3. b \in Contents /\ x \in Int /\ o \in Nat
  BY <1>1, <1>2, StdioAssumption, EmptySeq DEF Contents
<1>4. g = [f EXCEPT !.buf = b, !.cnt = x, !.off = o]
  BY <1>2 DEF Flushed
<1>5. g \in Streams /\ g.write = f.write /\ g.read = f.read /\ g.err = f.err
      /\ g.off = o /\ g.buf = b
  BY <1>3, <1>4 DEF Streams
<1>6. f.read \in BOOLEAN /\ f.off \in Nat /\ f.buf \in Contents
  BY DEF Streams
<1>7. ~f.read
  BY <1>6 DEF Buffered
<1>8. Buffered(g) /\ g.write /\ ~g.read
  BY <1>5, <1>7 DEF Buffered
<1>9. ASSUME InPlace(f, disk, want, place) PROVE InPlace(g, w.disk, want, place)
  <2>1. Over(w.disk, o, b) = w.disk /\ Len(b) = 0
    BY <1>2 DEF Over
  <2>2. o + Len(b) = w.off
    BY <1>1, <1>2, <2>1
  <2> QED
    BY <1>1, <1>2, <1>5, <1>8, <1>9, <2>1, <2>2 DEF InPlace
<1> QED
  BY <1>5, <1>8, <1>9

(* A write that fails is reported.                                         *)
LEMMA FailedFacts ==
  ASSUME NEW f \in Streams, Buffered(f), f.write, NEW o \in Nat,
         NEW g, g = [f EXCEPT !.err = TRUE, !.off = o]
  PROVE  g \in Streams /\ Buffered(g) /\ \A d, w, p : InPlace(g, d, w, p)
<1>1. g \in Streams /\ g.write = f.write /\ g.read = f.read /\ g.err = TRUE
  BY DEF Streams
<1>2. f.read \in BOOLEAN
  BY DEF Streams
<1>3. ~f.read
  BY <1>2 DEF Buffered
<1> QED
  BY <1>1, <1>3 DEF Buffered, InPlace

LEMMA FlushKeeps ==
  ASSUME StdioOK, my_fflush
  PROVE  StdioOK'
<1>1. fp # 0 /\ Stream.write /\ running # "crashed"
  BY DEF my_fflush, Has
<1>2. PICK f : f = Stream
  OBVIOUS
<1>3. /\ f \in Streams /\ f.write /\ Buffered(f)
      /\ running = "yes" => InPlace(f, disk, want, place)
  BY <1>1, <1>2, StreamFacts DEF StdioOK
<1>4. PICK w \in writes(f) :
        /\ disk' = w.disk /\ fp' = fp /\ want' = want /\ place' = place /\ running' = running
        /\ Becomes(IF Complete(f, w) THEN Flushed(f, w) ELSE [f EXCEPT !.err = TRUE, !.off = w.off])
  BY <1>2 DEF my_fflush
<1>5. w.disk \in Contents /\ w.off \in Nat
  BY <1>3, <1>4, WritesFacts
<1>6. PICK g : g = IF Complete(f, w) THEN Flushed(f, w) ELSE [f EXCEPT !.err = TRUE, !.off = w.off]
  OBVIOUS
<1>7. g \in Streams /\ Buffered(g) /\ (running = "yes" => InPlace(g, w.disk, want, place))
  <2>1. CASE Complete(f, w)
    BY <1>3, <1>4, <1>6, <2>1, FlushedFacts
  <2>2. CASE ~Complete(f, w)
    <3>1. PICK o \in Nat : o = w.off
      BY <1>5
    <3>2. g = [f EXCEPT !.err = TRUE, !.off = o]
      BY <1>6, <2>2, <3>1
    <3> QED
      BY <1>3, <3>1, <3>2, FailedFacts
  <2> QED
    BY <2>1, <2>2
<1>8. Becomes(g)
  BY <1>4, <1>6
<1> QED
  BY <1>1, <1>4, <1>5, <1>7, <1>8, StreamStep DEF StdioOK

(* A reader's buffer is not empty just when its end is behind its place.   *)
LEMMA ReaderFacts ==
  ASSUME NEW d \in Contents, NEW p \in Nat, NEW o \in Nat, p <= o, p < o => o <= Len(d)
  PROVE  /\ SubSeq(d, p + 1, o) \in Contents /\ Len(SubSeq(d, p + 1, o)) = o - p
         /\ p = o => SubSeq(d, p + 1, o) = <<>>
         /\ p < o => /\ SubSeq(d, p + 1, o) # <<>>
                     /\ Tail(SubSeq(d, p + 1, o)) = SubSeq(d, p + 2, o)
<1>0. PICK e, e2 : e = SubSeq(d, p + 1, o) /\ e2 = SubSeq(d, p + 2, o)
  OBVIOUS
<1>1. Len(d) \in Nat
  BY LenProperties DEF Contents
<1>2. CASE p = o
  <2>1. SubSeq(d, p + 1, o) = <<>>
    BY <1>2, SubSeqEmpty
  <2>2. <<>> \in Contents /\ Len(<<>>) = 0 /\ o - p = 0 /\ ~(p < o)
    BY <1>2, EmptySeq DEF Contents
  <2> QED
    BY <1>0, <2>1, <2>2
<1>3. CASE p < o
  <2>1. PICK m, t : m = p + 1 /\ t = SubSeq(d, m, o)
    OBVIOUS
  <2>2. m \in 1 .. Len(d) /\ o \in m .. Len(d)
    BY <1>1, <1>3, <2>1
  <2>3. \A k \in m .. o : d[k] \in Bytes \cup {"zero"}
    <3> SUFFICES ASSUME NEW k \in m .. o PROVE d[k] \in Bytes \cup {"zero"}
      OBVIOUS
    <3>1. k \in 1 .. Len(d)
      BY <1>1, <2>2
    <3> QED
      BY <3>1, ElementOfSeq DEF Contents
  <2>4. t \in Contents /\ Len(t) = o - m + 1
    BY <2>1, <2>2, <2>3, SubSeqProperties DEF Contents
  <2>5. Tail(t) = SubSeq(d, m + 1, o)
    BY <2>1, <2>2, HeadTailOfSubSeq DEF Contents
  <2>6. m + 1 = p + 2 /\ o - m + 1 = o - p /\ o - p > 0
    BY <1>3, <2>1
  <2>7. t # <<>>
    BY <2>4, <2>6, EmptySeq
  <2>8. SubSeq(d, p + 1, o) = t /\ SubSeq(d, p + 2, o) = Tail(t)
    BY <2>1, <2>5, <2>6
  <2>9. ~(p = o) /\ Len(t) = o - p
    BY <1>3, <2>4, <2>6
  <2> QED
    BY <1>0, <2>4, <2>7, <2>8, <2>9
<1> QED
  BY <1>2, <1>3

LEMMA TailFacts ==
  ASSUME NEW b \in Contents, Len(b) > 0
  PROVE  Tail(b) \in Contents /\ Len(Tail(b)) = Len(b) - 1
<1>1. b # <<>>
  BY EmptySeq
<1> QED
  BY <1>1, HeadTailProperties DEF Contents

LEMMA FillKeeps ==
  ASSUME StdioOK, Has("read"), ~(Stream.cnt > 0), _my_fillbuf
  PROVE  StdioOK'
<1>1. fp # 0 /\ Stream.read /\ running # "crashed"
  BY DEF Has
<1>2. PICK f : f = Stream
  OBVIOUS
<1>3. /\ f \in Streams /\ f.read /\ Buffered(f) /\ f.off \in Nat /\ Len(disk) \in Nat
      /\ running = "yes" => InPlace(f, disk, want, place)
  BY <1>1, <1>2, StreamFacts DEF StdioOK
<1>9. f \in Streams
  BY <1>3
<1>4. f.buf = <<>> /\ ~f.write
  <2>1. f.write \in BOOLEAN
    BY <1>3 DEF Streams
  <2> QED
    BY <1>2, <1>3, <2>1 DEF Buffered
<1>5. CASE UNCHANGED stdioVars
  BY <1>5 DEF stdioVars, StdioOK, Stream
<1>6. CASE ~UNCHANGED stdioVars
  <2> DEFINE n == Min2(BUFSIZ, IF f.off < Len(disk) THEN Len(disk) - f.off ELSE 0)
             got == SubSeq(disk, f.off + 1, f.off + n)
  <2>1. n \in Nat /\ (n > 0 => f.off + n <= Len(disk))
    BY <1>3, StdioAssumption DEF Min2
  <2>2. /\ ~f.err
        /\ \/ /\ n > 0 /\ Consumed
              /\ Becomes([f EXCEPT !.base = TRUE, !.buf = Tail(got), !.cnt = n - 1, !.off = @ + n])
           \/ /\ n = 0
              /\ NothingRead([f EXCEPT !.base = TRUE, !.buf = <<>>, !.cnt = 0, !.eof = TRUE])
           \/ NothingRead([f EXCEPT !.base = TRUE, !.buf = <<>>, !.cnt = 0, !.err = TRUE])
    BY <1>2, <1>6 DEF _my_fillbuf
  <2>3. running = "yes" => place = f.off /\ disk = want
    <3> SUFFICES ASSUME running = "yes" PROVE place = f.off /\ disk = want
      OBVIOUS
    <3>1. /\ disk = want /\ f.buf = SubSeq(disk, place + 1, f.off)
          /\ place <= f.off /\ (place < f.off => f.off <= Len(disk))
      BY <1>3, <1>4, <2>2 DEF InPlace
    <3>2. ~(place < f.off)
      BY <1>3, <1>4, <3>1, ReaderFacts DEF StdioOK
    <3> QED
      BY <1>3, <3>1, <3>2 DEF StdioOK
  <2>4. <<>> \in Contents
    BY EmptySeq DEF Contents
  <2> HIDE DEF n
  <2>5. CASE /\ n > 0 /\ Consumed
             /\ Becomes([f EXCEPT !.base = TRUE, !.buf = Tail(got), !.cnt = n - 1, !.off = @ + n])
    <3>1. got \in Contents /\ Len(got) = n /\ Tail(got) = SubSeq(disk, f.off + 2, f.off + n)
      <4>1. PICK o \in Nat : o = f.off + n
        BY <1>3, <2>1
      <4>2. o - f.off = n /\ f.off < o /\ o <= Len(disk)
        BY <1>3, <2>1, <2>5, <4>1
      <4>3. got = SubSeq(disk, f.off + 1, o)
        BY <4>1
      <4>4. PICK d, p : d = disk /\ p = f.off
        OBVIOUS
      <4>5. d \in Contents /\ p \in Nat /\ p < o /\ o <= Len(d) /\ p <= o
        BY <1>3, <4>1, <4>2, <4>4 DEF StdioOK
      <4>6. /\ SubSeq(d, p + 1, o) \in Contents /\ Len(SubSeq(d, p + 1, o)) = o - p
            /\ Tail(SubSeq(d, p + 1, o)) = SubSeq(d, p + 2, o)
        BY <4>1, <4>5, ReaderFacts
      <4> HIDE DEF got
      <4> QED
        BY <4>1, <4>2, <4>3, <4>4, <4>6
    <3> HIDE DEF got
    <3>2. PICK b, x, o : b = Tail(got) /\ x = n - 1 /\ o = f.off + n
      OBVIOUS
    <3>3. b \in Contents /\ x \in Nat /\ o \in Nat /\ Len(b) = x
      BY <1>3, <2>1, <2>5, <3>1, <3>2, TailFacts
    <3>4. PICK g : g = [f EXCEPT !.base = TRUE, !.buf = Tail(got), !.cnt = n - 1, !.off = @ + n]
      OBVIOUS
    <3>5. g = [f EXCEPT !.base = TRUE, !.buf = b, !.cnt = x, !.off = o]
      BY <1>3, <3>2, <3>4 DEF Streams
    <3>6. /\ g \in Streams /\ g.write = f.write /\ g.read = f.read /\ g.err = f.err
          /\ g.off = o /\ g.buf = b /\ g.cnt = x
      <4>1. x \in Int
        BY <3>3
      <4> QED
        BY <1>9, <3>3, <3>5, <4>1 DEF Streams
    <3>7. Buffered(g)
      <4>1. x > 0 \/ b = <<>>
        BY <3>3, EmptySeq DEF Contents
      <4> QED
        BY <1>3, <1>4, <3>3, <3>6, <4>1 DEF Buffered
    <3>8. running = "yes" => InPlace(g, disk, want, place + 1)
      <4> SUFFICES ASSUME running = "yes" PROVE InPlace(g, disk, want, place + 1)
        OBVIOUS
      <4>1. place = f.off /\ disk = want /\ place + 1 + 1 = f.off + 2
        BY <1>3, <2>3
      <4>2. b = SubSeq(disk, place + 1 + 1, o)
        BY <3>1, <3>2, <4>1
      <4>3. place + 1 <= o /\ o <= Len(disk)
        BY <1>3, <2>1, <2>5, <3>2, <4>1
      <4> QED
        BY <1>4, <3>6, <4>1, <4>2, <4>3 DEF InPlace
    <3>9. Becomes(g)
      BY <2>5, <3>4
    <3> QED
      BY <1>1, <2>5, <3>6, <3>7, <3>8, <3>9, StreamStep DEF StdioOK, Consumed
  <2>6. CASE /\ n = 0
             /\ NothingRead([f EXCEPT !.base = TRUE, !.buf = <<>>, !.cnt = 0, !.eof = TRUE])
    <3>1. PICK b, x : b = <<>> /\ x = 0
      OBVIOUS
    <3>2. PICK g : g = [f EXCEPT !.base = TRUE, !.buf = <<>>, !.cnt = 0, !.eof = TRUE]
      OBVIOUS
    <3>3. g = [f EXCEPT !.base = TRUE, !.buf = b, !.cnt = x, !.eof = TRUE]
      BY <3>1, <3>2
    <3>4. /\ g \in Streams /\ g.write = f.write /\ g.read = f.read /\ g.err = f.err
          /\ g.off = f.off /\ g.buf = b /\ g.cnt = x
      <4>1. b \in Contents /\ x \in Int
        BY <2>4, <3>1
      <4> QED
        BY <1>9, <3>3, <4>1 DEF Streams
    <3>5. Buffered(g)
      BY <1>3, <1>4, <3>1, <3>4 DEF Buffered
    <3>6. running = "yes" => InPlace(g, disk, want, place)
      BY <1>3, <1>4, <3>1, <3>4 DEF InPlace
    <3>7. Becomes(g) /\ UNCHANGED <<disk, fp, want, place, running>>
      BY <2>6, <3>2 DEF NothingRead
    <3> QED
      BY <1>1, <3>4, <3>5, <3>6, <3>7, StreamStep DEF StdioOK
  <2>7. CASE NothingRead([f EXCEPT !.base = TRUE, !.buf = <<>>, !.cnt = 0, !.err = TRUE])
    <3>1. PICK b, x : b = <<>> /\ x = 0
      OBVIOUS
    <3>2. PICK g : g = [f EXCEPT !.base = TRUE, !.buf = <<>>, !.cnt = 0, !.err = TRUE]
      OBVIOUS
    <3>3. g = [f EXCEPT !.base = TRUE, !.buf = b, !.cnt = x, !.err = TRUE]
      BY <3>1, <3>2
    <3>4. /\ g \in Streams /\ g.write = f.write /\ g.read = f.read /\ g.err = TRUE
          /\ g.buf = b /\ g.cnt = x
      <4>1. b \in Contents /\ x \in Int
        BY <2>4, <3>1
      <4> QED
        BY <1>9, <3>3, <4>1 DEF Streams
    <3>5. Buffered(g) /\ InPlace(g, disk, want, place)
      BY <1>3, <1>4, <3>1, <3>4 DEF Buffered, InPlace
    <3>6. Becomes(g) /\ UNCHANGED <<disk, fp, want, place, running>>
      BY <2>7, <3>2 DEF NothingRead
    <3> QED
      BY <1>1, <3>4, <3>5, <3>6, StreamStep DEF StdioOK
  <2> QED
    BY <2>2, <2>5, <2>6, <2>7
<1> QED
  BY <1>5, <1>6

LEMMA GetKeeps ==
  ASSUME StdioOK, my_getc
  PROVE  StdioOK'
<1>1. CASE ~(Stream.cnt > 0)
  BY <1>1, FillKeeps DEF my_getc
<1>2. CASE Stream.cnt > 0
  <2>1. fp # 0 /\ Stream.read /\ running # "crashed"
    BY DEF my_getc, Has
  <2>2. PICK f : f = Stream
    OBVIOUS
  <2>3. /\ f \in Streams /\ f.read /\ Buffered(f) /\ f.off \in Nat /\ f.cnt \in Int /\ f.cnt > 0
        /\ f.buf \in Contents /\ f.write \in BOOLEAN
        /\ running = "yes" => InPlace(f, disk, want, place)
    BY <1>2, <2>1, <2>2, StreamFacts DEF StdioOK
  <2>4. Len(f.buf) = f.cnt /\ ~f.write
    BY <2>3 DEF Buffered
  <2>5. PICK g : g = [f EXCEPT !.cnt = @ - 1, !.buf = Tail(@)]
    OBVIOUS
  <2>6. Becomes(g) /\ place' = place + 1 /\ UNCHANGED <<disk, fp, want, running>>
    BY <1>2, <2>2, <2>5 DEF my_getc, Consumed
  <2>7. PICK b, x : b = Tail(f.buf) /\ x = f.cnt - 1
    OBVIOUS
  <2>8. b \in Contents /\ x \in Int /\ Len(b) = x
    BY <2>3, <2>4, <2>7, TailFacts
  <2>9. g = [f EXCEPT !.cnt = x, !.buf = b]
    BY <2>3, <2>5, <2>7 DEF Streams
  <2>10. /\ g \in Streams /\ g.write = f.write /\ g.read = f.read /\ g.err = f.err
         /\ g.off = f.off /\ g.buf = b /\ g.cnt = x
    <3>1. f \in Streams
      BY <2>3
    <3> QED
      BY <2>8, <2>9, <3>1 DEF Streams
  <2>11. Buffered(g)
    <3>1. x > 0 \/ b = <<>>
      BY <2>3, <2>7, <2>8, EmptySeq DEF Contents
    <3> QED
      BY <2>3, <2>4, <2>8, <2>10, <3>1 DEF Buffered
  <2>12. running = "yes" => InPlace(g, disk, want, place + 1)
    <3> SUFFICES ASSUME running = "yes", ~f.err PROVE InPlace(g, disk, want, place + 1)
      BY <2>10 DEF InPlace
    <3>1. /\ disk = want /\ f.buf = SubSeq(disk, place + 1, f.off)
          /\ place <= f.off /\ (place < f.off => f.off <= Len(disk))
      BY <2>3, <2>4 DEF InPlace
    <3>2. PICK d, p, o : d = disk /\ p = place /\ o = f.off
      OBVIOUS
    <3>3. d \in Contents /\ p \in Nat /\ o \in Nat
      BY <2>3, <3>2 DEF StdioOK
    <3>4. /\ Len(SubSeq(d, p + 1, o)) = o - p
          /\ p < o => Tail(SubSeq(d, p + 1, o)) = SubSeq(d, p + 2, o)
      BY <3>1, <3>2, <3>3, ReaderFacts
    <3>5. p < o /\ p + 1 + 1 = p + 2
      BY <2>3, <2>4, <3>1, <3>2, <3>3, <3>4
    <3>6. b = SubSeq(d, p + 1 + 1, o)
      BY <2>7, <3>1, <3>2, <3>4, <3>5
    <3>7. p + 1 <= o /\ o <= Len(d)
      BY <3>1, <3>2, <3>3, <3>5
    <3> QED
      BY <2>4, <2>10, <3>1, <3>2, <3>6, <3>7 DEF InPlace
  <2> QED
    BY <2>1, <2>6, <2>10, <2>11, <2>12, StreamStep DEF StdioOK
<1> QED
  BY <1>1, <1>2

(* my_fseek, once a writer's buffer is in the file.                        *)
LEMMA SoughtKeeps ==
  ASSUME StdioOK, fp # 0, fp' = fp, want' = want, disk' \in Contents, running # "crashed",
         NEW f \in Streams, Buffered(f), f.write => f.buf = <<>>,
         running = "yes" => InPlace(f, disk', want, place),
         NEW offset \in {-1, 0, 1}, NEW from \in {"set", "cur", "end"}, Sought(f, offset, from)
  PROVE  StdioOK'
<1>1. PICK o : o = offset + Place(from, f.off)
  OBVIOUS
<1>2. o \in Int
  <2>1. f.off \in Nat /\ Len(disk') \in Nat
    BY LenProperties DEF Streams, Contents
  <2> QED
    BY <1>1, <2>1 DEF Place
<1>3. CASE o < 0 \/ o > MaxDisk
  <2>1. Becomes(f) /\ UNCHANGED <<place, running>>
    BY <1>1, <1>3 DEF Sought
  <2> QED
    BY <2>1, StreamStep DEF StdioOK
<1>4. CASE ~(o < 0 \/ o > MaxDisk)
  <2>1. PICK g1, g : g1 = [f EXCEPT !.buf = <<>>, !.cnt = 0, !.eof = FALSE] /\ g = [g1 EXCEPT !.off = o]
    OBVIOUS
  <2>2. /\ Becomes(g) /\ place' = o
        /\ running' = IF offset + Place(from, place) = o THEN running ELSE "astray"
    BY <1>1, <1>4, <2>1 DEF Sought, AfterSeek
  <2>3. PICK b, x : b = <<>> /\ x = 0
    OBVIOUS
  <2>4. b \in Contents /\ x \in Int /\ o \in Nat
    BY <1>2, <1>4, <2>3, EmptySeq DEF Contents
  <2>5. g1 = [f EXCEPT !.buf = b, !.cnt = x, !.eof = FALSE]
    BY <2>1, <2>3
  <2>6. g1 \in Streams /\ g1.write = f.write /\ g1.read = f.read /\ g1.err = f.err
        /\ g1.buf = b /\ g1.cnt = x
    BY <2>4, <2>5 DEF Streams
  <2>7. /\ g \in Streams /\ g.write = f.write /\ g.read = f.read /\ g.err = f.err
        /\ g.off = o /\ g.buf = b /\ g.cnt = x
    <3>1. g = [g1 EXCEPT !.off = o]
      BY <2>1
    <3> QED
      BY <2>4, <2>6, <3>1 DEF Streams
  <2>8. Buffered(g)
    BY <2>3, <2>7 DEF Buffered
  <2>9. running = "yes" => InPlace(g, disk', want, o)
    <3> SUFFICES ASSUME running = "yes", ~f.err PROVE InPlace(g, disk', want, o)
      BY <2>7 DEF InPlace
    <3>1. disk' = want
      BY OverFacts DEF InPlace, Streams
    <3>2. Over(disk', o, b) = disk' /\ o + Len(b) = o /\ SubSeq(disk', o + 1, o) = b
      <4>1. SubSeq(disk', o + 1, o) = <<>>
        BY <2>4, SubSeqEmpty
      <4>2. Len(b) = 0 /\ o + 0 = o
        BY <2>3, <2>4
      <4> QED
        BY <2>3, <4>1, <4>2 DEF Over
    <3>3. o <= o /\ ~(o < o)
      BY <2>4
    <3>4. PICK d, v : d = disk' /\ v = want
      OBVIOUS
    <3>5. g.write => Over(d, g.off, g.buf) = v /\ o = g.off + Len(g.buf)
      BY <2>7, <3>1, <3>2, <3>4
    <3>6. d = v /\ g.buf = SubSeq(d, o + 1, g.off) /\ o <= g.off /\ ~(o < g.off)
      BY <2>7, <3>1, <3>2, <3>3, <3>4
    <3>7. InPlace(g, d, v, o)
      BY <3>5, <3>6 DEF InPlace
    <3> QED
      BY <3>4, <3>7
  <2> QED
    BY <2>2, <2>4, <2>7, <2>8, <2>9, StreamStep DEF StdioOK
<1> QED
  BY <1>3, <1>4

LEMMA SeekKeeps ==
  ASSUME StdioOK, NEW offset \in {-1, 0, 1}, NEW from \in {"set", "cur", "end"},
         my_fseek(offset, from)
  PROVE  StdioOK'
<1>1. fp # 0 /\ running # "crashed" /\ fp' = fp /\ want' = want
  BY DEF my_fseek, Has
<1>2. PICK f : f = Stream
  OBVIOUS
<1>3. /\ f \in Streams /\ Buffered(f) /\ f.write \in BOOLEAN /\ f.read \in BOOLEAN
      /\ running = "yes" => InPlace(f, disk, want, place)
  BY <1>1, <1>2, StreamFacts DEF StdioOK
<1>4. CASE f.read /\ disk' = disk /\ Sought(f, offset, from)
  <2>1. ~f.write
    BY <1>3, <1>4 DEF Buffered
  <2> QED
    BY <1>1, <1>3, <1>4, <2>1, SoughtKeeps DEF StdioOK
<1>5. CASE /\ f.write
           /\ \E w \in writes(f) :
                /\ disk' = w.disk
                /\ IF Complete(f, w) THEN Sought(Flushed(f, w), offset, from)
                   ELSE /\ Becomes([f EXCEPT !.err = TRUE, !.off = w.off])
                        /\ UNCHANGED <<place, running>>
  <2>1. PICK w \in writes(f) :
          /\ disk' = w.disk
          /\ IF Complete(f, w) THEN Sought(Flushed(f, w), offset, from)
             ELSE /\ Becomes([f EXCEPT !.err = TRUE, !.off = w.off])
                  /\ UNCHANGED <<place, running>>
    BY <1>5
  <2>2. w.disk \in Contents /\ w.off \in Nat
    BY <1>3, <2>1, WritesFacts
  <2>3. CASE Complete(f, w)
    <3>1. PICK g : g = Flushed(f, w)
      OBVIOUS
    <3>2. /\ g \in Streams /\ Buffered(g) /\ g.write
          /\ running = "yes" => InPlace(g, w.disk, want, place)
      BY <1>3, <1>5, <2>1, <2>3, <3>1, FlushedFacts
    <3>3. g.buf = <<>>
      BY <1>3, <3>1 DEF Flushed, Streams
    <3> QED
      BY <1>1, <2>1, <2>2, <2>3, <3>1, <3>2, <3>3, SoughtKeeps
  <2>4. CASE ~Complete(f, w)
    <3>1. PICK o, g : o = w.off /\ g = [f EXCEPT !.err = TRUE, !.off = o]
      OBVIOUS
    <3>2. Becomes(g) /\ UNCHANGED <<place, running>>
      BY <2>1, <2>4, <3>1
    <3>3. g \in Streams /\ Buffered(g) /\ \A d, v, p : InPlace(g, d, v, p)
      <4>1. o \in Nat
        BY <2>2, <3>1
      <4> QED
        BY <1>3, <1>5, <3>1, <4>1, FailedFacts
    <3> QED
      BY <1>1, <2>1, <2>2, <3>2, <3>3, StreamStep DEF StdioOK
  <2> QED
    BY <2>3, <2>4
<1> QED
  BY <1>2, <1>4, <1>5 DEF my_fseek, Has

(* my_fclose writes what is left; a reader has nothing to write.           *)
LEMMA CloseKeeps ==
  ASSUME StdioOK, my_fclose
  PROVE  StdioOK'
<1>1. fp # 0 /\ running \in {"yes", "astray"} /\ fp' = 0 /\ running' = "yes" /\ place' = place
  BY DEF my_fclose, StdioOK
<1>2. PICK f, b : f = Stream /\ b = IF f.write THEN f.buf ELSE <<>>
  OBVIOUS
<1>3. /\ f \in Streams /\ f.write \in BOOLEAN /\ f.read \in BOOLEAN /\ f.err \in BOOLEAN
      /\ f.buf \in Contents /\ f.off \in Nat
      /\ Buffered(f) /\ (running = "yes" => InPlace(f, disk, want, place))
  BY <1>1, <1>2, StreamFacts DEF StdioOK
<1>4. PICK h : h = [f EXCEPT !.buf = b]
  OBVIOUS
<1>5. h = [Stream EXCEPT !.buf = IF Stream.write THEN @ ELSE <<>>]
  BY <1>2, <1>3, <1>4 DEF Streams
<1>6. b \in Contents
  BY <1>2, <1>3, EmptySeq DEF Contents
<1>7. h \in Streams /\ h.buf = b /\ h.off = f.off
  <2>1. f \in Streams
    BY <1>3
  <2> QED
    BY <1>4, <1>6, <2>1 DEF Streams
<1>8. PICK w \in writes(h) :
        /\ disk' = w.disk
        /\ IF f.read \/ Complete(f, w)
           THEN Becomes(NoStream) /\ want' = IF f.err \/ running = "astray" THEN disk' ELSE want
           ELSE Becomes([f EXCEPT !.err = TRUE, !.off = w.off]) /\ want' = disk'
  BY <1>2, <1>5 DEF my_fclose
<1>9. /\ w.disk \in Contents /\ w.off \in Nat
      /\ Complete(h, w) => w.disk = Over(disk, f.off, b)
  BY <1>7, <1>8, WritesFacts
<1>10. want' = disk'
  <2> SUFFICES ASSUME f.read \/ Complete(f, w), ~f.err, running = "yes"
               PROVE  want = w.disk
    BY <1>1, <1>8
  <2>1. CASE f.write
    <3>1. ~f.read /\ b = f.buf
      BY <1>2, <1>3, <2>1 DEF Buffered
    <3>2. Complete(h, w)
      BY <1>7, <3>1 DEF Complete
    <3>3. Over(disk, f.off, f.buf) = want
      BY <1>3, <2>1 DEF InPlace
    <3> QED
      BY <1>9, <3>1, <3>2, <3>3
  <2>2. CASE ~f.write
    <3>1. b = <<>> /\ Len(b) = 0
      BY <1>2, <2>2
    <3>2. Complete(h, w)
      <4>1. PICK n \in 0 .. Len(b) : w.n = n
        BY <1>7, <1>8 DEF writes
      <4> QED
        BY <1>7, <3>1, <4>1 DEF Complete
    <3>3. Over(disk, f.off, b) = disk
      BY <3>1 DEF Over
    <3>4. disk = want
      BY <1>3, <2>2 DEF InPlace
    <3> QED
      BY <1>9, <3>2, <3>3, <3>4
  <2> QED
    BY <1>3, <2>1, <2>2
<1>11. PICK g \in Streams : Becomes(g)
  <2>1. NoStream \in Streams
    BY EmptySeq DEF NoStream, Streams, Contents
  <2>2. PICK o, e : o = w.off /\ e = [f EXCEPT !.err = TRUE, !.off = o]
    OBVIOUS
  <2>3. e \in Streams
    <3>1. o \in Nat /\ f \in Streams
      BY <1>3, <1>9, <2>2
    <3> QED
      BY <2>2, <3>1 DEF Streams
  <2> QED
    BY <1>8, <2>1, <2>2, <2>3
<1>12. _iob' \in [1 .. OPEN_MAX -> Streams]
  BY <1>11 DEF StdioOK, Becomes
<1>13. 0 \in 0 .. OPEN_MAX
  BY StdioAssumption
<1> QED
  BY <1>1, <1>8, <1>9, <1>10, <1>12, <1>13 DEF StdioOK

-----------------------------------------------------------------------------
LEMMA StdioSame ==
  ASSUME StdioOK, UNCHANGED stdioVars
  PROVE  StdioOK'
BY DEF StdioOK, stdioVars, Stream

LEMMA StdioKeeps ==
  ASSUME StdioOK, StdioNext
  PROVE  StdioOK'
<1>1. CASE OpenFails
  BY <1>1, StdioSame DEF OpenFails
<1> QED
  BY <1>1, OpenKeeps, FlushKeeps, GetKeeps, CloseKeeps, PutKeeps, SeekKeeps DEF StdioNext

LEMMA StdioStarts == StdioInit => StdioOK
<1> SUFFICES ASSUME StdioInit PROVE StdioOK
  OBVIOUS
<1>1. <<>> \in Contents
  BY EmptySeq DEF Contents
<1>2. NoStream \in Streams
  BY <1>1 DEF NoStream, Streams
<1> QED
  BY <1>1, <1>2, StdioAssumption DEF StdioInit, StdioOK

(* Every stream, file and place of the program is of its type, and every   *)
(* byte is where it belongs, for any buffer, any number of streams and any *)
(* calls: also with buffers that failed to be written.                     *)
THEOREM StreamsSound == Spec => []StdioOK
<1>1. Init => StdioOK
  BY StdioStarts DEF Init
<1>2. StdioOK /\ [Next]_vars => StdioOK'
  <2> SUFFICES ASSUME StdioOK, [Next]_vars PROVE StdioOK'
    OBVIOUS
  <2>1. StdioNext \/ UNCHANGED stdioVars
    BY DEF Next, Runs, vars
  <2> QED
    BY <2>1, StdioKeeps, StdioSame
<1> QED
  BY <1>1, <1>2, PTL DEF Spec

(* The bytes my_putc accepted are in the file or the buffer in their place *)
(* and once, what my_getc will return is what the file has there, and      *)
(* my_fclose leaves the file that was asked for, in 14-1-26/8-4.c.         *)
THEOREM BytesKeepPlace == Spec => []BytesKeepTheirPlace
<1>1. StdioOK => BytesKeepTheirPlace
  BY DEF StdioOK, InPlace, BytesKeepTheirPlace
<1> QED
  BY <1>1, StreamsSound, PTL

-----------------------------------------------------------------------------
(***************************************************************************)
(* The table of definitions.                                               *)
(***************************************************************************)
TextTokens == UNION {{s[k] : k \in DOMAIN s} : s \in Sources}
Tokens == TextTokens \cup {"", "1", "2"}

Definitions == [word : Names, repl : Tokens \ {"none"}]

(* A chain holds names of its hash, each once.                             *)
Chain(c, h) ==
  /\ c \in Seq(Definitions)
  /\ \A j, k \in DOMAIN c : hash(c[j].word) = h /\ (c[j].word = c[k].word => j = k)

Table(tab) == /\ tab \in [0 .. HASHSIZE - 1 -> Seq(Definitions)]
              /\ \A h \in 0 .. HASHSIZE - 1 : Chain(tab[h], h)

(* What a chain says of a name.                                            *)
Says(c, n, r) ==
  IF \E k \in DOMAIN c : c[k].word = n THEN \E k \in DOMAIN c : c[k].word = n /\ c[k].repl = r
  ELSE r = "none"

TableOK ==
  /\ Table(hashtab) /\ defs \in [Names -> Tokens \cup {"none"}]
  /\ text \in Seq(Tokens) /\ DefinesNames(text)
  /\ \A n \in Names : Says(hashtab[hash(n)], n, defs[n])

LEMMA TokensFacts ==
  /\ "" \in Tokens /\ {"1", "2"} \subseteq Tokens
  /\ \A s \in Sources : \A k \in DOMAIN s : s[k] \in Tokens
<1>1. {"", "1", "2"} \subseteq Tokens
  BY DEF Tokens
<1>2. ASSUME NEW s \in Sources, NEW k \in DOMAIN s
      PROVE  s[k] \in Tokens
  <2>1. s[k] \in {s[j] : j \in DOMAIN s}
    OBVIOUS
  <2>2. {s[j] : j \in DOMAIN s} \in {{r[j] : j \in DOMAIN r} : r \in Sources}
    OBVIOUS
  <2> QED
    BY <2>1, <2>2 DEF Tokens, TextTokens
<1> QED
  BY <1>1, <1>2

LEMMA Hashes ==
  ASSUME NEW n \in Names
  PROVE  hash(n) \in 0 .. HASHSIZE - 1
BY HashAssumption DEF hash

(* A word is at one place of a chain only, and lookup() finds it.          *)
LEMMA LookupFacts ==
  ASSUME NEW tab, Table(tab), NEW n \in Names
  PROVE  /\ Says(tab[hash(n)], n, lookup(tab, n))
         /\ \A r : Says(tab[hash(n)], n, r) => lookup(tab, n) = r
         /\ lookup(tab, n) = "none" <=> Positions(tab, n) = {}
<1>1. PICK c : c = tab[hash(n)]
  OBVIOUS
<1>2. Chain(c, hash(n))
  BY <1>1, Hashes DEF Table
<1>3. Positions(tab, n) = {k \in DOMAIN c : c[k].word = n}
  BY <1>1 DEF Positions
<1>4. CASE Positions(tab, n) = {}
  BY <1>1, <1>3, <1>4 DEF lookup, Says
<1>5. CASE Positions(tab, n) # {}
  <2>1. PICK k \in DOMAIN c : c[k].word = n
    BY <1>3, <1>5
  <2>2. \A j \in DOMAIN c : c[j].word = n => j = k
    BY <1>2, <2>1 DEF Chain
  <2>3. k \in Nat /\ c \in Seq(Definitions)
    BY <1>2, <2>1 DEF Chain
  <2>4. Positions(tab, n) = {k}
    BY <1>3, <2>1, <2>2
  <2>5. (CHOOSE j \in {k} : \A i \in {k} : j <= i) = k
    BY <2>3
  <2>6. lookup(tab, n) = c[k].repl
    BY <1>1, <1>5, <2>4, <2>5 DEF lookup
  <2>7. c[k] \in Definitions
    BY <2>1, <2>3, ElementOfSeq
  <2>8. c[k].repl # "none"
    BY <2>7 DEF Definitions
  <2> QED
    BY <1>1, <1>5, <2>1, <2>2, <2>6, <2>8 DEF Says
<1> QED
  BY <1>4, <1>5

(* A table with one chain replaced.                                        *)
LEMMA ChainStep ==
  ASSUME NEW tab, Table(tab), NEW name \in Names, NEW c, Chain(c, hash(name)), NEW r,
         Says(c, name, r),
         \A n \in Names \ {name} : hash(n) = hash(name) =>
           \A q : Says(tab[hash(name)], n, q) => Says(c, n, q)
  PROVE  LET t == [tab EXCEPT ![hash(name)] = c]
         IN  /\ Table(t) /\ Says(t[hash(name)], name, r)
             /\ \A n \in Names \ {name} : \A q : Says(tab[hash(n)], n, q) => Says(t[hash(n)], n, q)
<1> DEFINE t == [tab EXCEPT ![hash(name)] = c]
<1>1. hash(name) \in 0 .. HASHSIZE - 1 /\ c \in Seq(Definitions)
  BY Hashes DEF Chain
<1>2. /\ t \in [0 .. HASHSIZE - 1 -> Seq(Definitions)] /\ t[hash(name)] = c
      /\ \A h \in 0 .. HASHSIZE - 1 : h # hash(name) => t[h] = tab[h]
  BY <1>1 DEF Table
<1> HIDE DEF t
<1>3. Table(t)
  BY <1>2 DEF Table
<1>4. ASSUME NEW n \in Names \ {name}, NEW q, Says(tab[hash(n)], n, q)
      PROVE  Says(t[hash(n)], n, q)
  <2>1. CASE hash(n) = hash(name)
    BY <1>2, <1>4, <2>1
  <2>2. CASE hash(n) # hash(name)
    BY <1>2, <1>4, <2>2, Hashes
  <2> QED
    BY <2>1, <2>2
<1> QED
  BY <1>2, <1>3, <1>4 DEF t

(* install() puts a new name behind the others, or changes its definition  *)
(* in place; no other name is touched.                                     *)
LEMMA InstallFacts ==
  ASSUME NEW tab, Table(tab), NEW name \in Names, NEW repl \in Tokens \ {"none"}
  PROVE  LET t == install(tab, name, repl)
         IN  /\ Table(t) /\ Says(t[hash(name)], name, repl)
             /\ \A n \in Names \ {name} : \A q : Says(tab[hash(n)], n, q) => Says(t[hash(n)], n, q)
<1>1. PICK c, nd : c = tab[hash(name)] /\ nd = Node(name, repl)
  OBVIOUS
<1>2. Chain(c, hash(name)) /\ Says(c, name, lookup(tab, name))
  BY <1>1, Hashes, LookupFacts DEF Table
<1>3. nd \in Definitions /\ nd.word = name /\ nd.repl = repl
  BY <1>1 DEF Node, Definitions
<1>4. c \in Seq(Definitions) /\ Len(c) \in Nat /\ DOMAIN c = 1 .. Len(c)
  BY <1>2, LenProperties DEF Chain
<1>5. hash(name) \in DOMAIN tab
  BY Hashes DEF Table
<1>6. CASE lookup(tab, name) = "none"
  <2>1. PICK d : d = Append(c, nd)
    OBVIOUS
  <2>2. install(tab, name, repl) = [tab EXCEPT ![hash(name)] = d]
    BY <1>1, <1>5, <1>6, <2>1 DEF install
  <2>3. /\ d \in Seq(Definitions) /\ Len(d) = Len(c) + 1 /\ DOMAIN d = 1 .. Len(c) + 1
        /\ \A k \in 1 .. Len(c) : d[k] = c[k]
        /\ d[Len(c) + 1] = nd
    BY <1>3, <1>4, <2>1, AppendProperties
  <2>4. \A k \in 1 .. Len(c) : c[k].word # name
    <3>1. PICK q : q = lookup(tab, name)
      OBVIOUS
    <3>2. \A k \in 1 .. Len(c) : c[k] \in Definitions
      BY <1>4, ElementOfSeq
    <3>3. \A k \in 1 .. Len(c) : c[k].repl # "none"
      BY <3>2 DEF Definitions
    <3> QED
      BY <1>2, <1>4, <1>6, <3>3 DEF Says
  <2>5. Chain(d, hash(name))
    <3>1. \A j, k \in 1 .. Len(c) : hash(c[j].word) = hash(name) /\ (c[j].word = c[k].word => j = k)
      BY <1>2, <1>4 DEF Chain
    <3>2. \A k \in 1 .. Len(c) + 1 : k \in 1 .. Len(c) \/ k = Len(c) + 1
      BY <1>4
    <3> HIDE DEF Chain
    <3> QED
      BY <1>3, <2>3, <2>4, <3>1, <3>2 DEF Chain
  <2>6. Says(d, name, repl)
    <3>1. Len(c) + 1 \in 1 .. Len(c) + 1
      BY <1>4
    <3> QED
      BY <1>3, <2>3, <3>1 DEF Says
  <2>7. ASSUME NEW n \in Names \ {name}, NEW q, Says(c, n, q)
        PROVE  Says(d, n, q)
    <3>1. \A k \in 1 .. Len(c) + 1 : d[k].word = n => k \in 1 .. Len(c)
      BY <1>3, <1>4, <2>3
    <3>2. \A k \in 1 .. Len(c) : k \in 1 .. Len(c) + 1
      BY <1>4
    <3> QED
      BY <1>4, <2>3, <2>7, <3>1, <3>2 DEF Says
  <2> QED
    <3>1. PICK r, t : r = repl /\ t = [tab EXCEPT ![hash(name)] = d]
      OBVIOUS
    <3>2. Says(d, name, r)
      BY <2>6, <3>1
    <3>3. \A n \in Names \ {name} : hash(n) = hash(name) =>
            \A q : Says(tab[hash(name)], n, q) => Says(d, n, q)
      BY <1>1, <2>7
    <3>4. /\ Table(t) /\ Says(t[hash(name)], name, r)
          /\ \A n \in Names \ {name} : \A q : Says(tab[hash(n)], n, q) => Says(t[hash(n)], n, q)
      BY <2>5, <3>1, <3>2, <3>3, ChainStep
    <3> QED
      BY <2>2, <3>1, <3>4
<1>7. CASE lookup(tab, name) # "none"
  <2>1. PICK d : d = [k \in DOMAIN c |-> IF c[k].word = name THEN nd ELSE c[k]]
    OBVIOUS
  <2>2. install(tab, name, repl) = [tab EXCEPT ![hash(name)] = d]
    BY <1>1, <1>5, <1>7, <2>1 DEF install
  <2>3. \A k \in 1 .. Len(c) : c[k] \in Definitions
    BY <1>4, ElementOfSeq
  <2>4. /\ DOMAIN d = 1 .. Len(c)
        /\ \A k \in 1 .. Len(c) : d[k] = IF c[k].word = name THEN nd ELSE c[k]
    BY <1>4, <2>1
  <2>5. d \in Seq(Definitions)
    <3>1. d = [k \in 1 .. Len(c) |-> IF c[k].word = name THEN nd ELSE c[k]]
      BY <1>4, <2>1
    <3> QED
      BY <1>3, <1>4, <2>3, <3>1
  <2>6. \A k \in 1 .. Len(c) : d[k].word = c[k].word
    BY <1>3, <2>4
  <2>7. Chain(d, hash(name))
    BY <1>2, <1>4, <2>4, <2>5, <2>6 DEF Chain
  <2>8. PICK k \in 1 .. Len(c) : c[k].word = name
    BY <1>2, <1>4, <1>7 DEF Says
  <2>9. Says(d, name, repl)
    BY <1>3, <2>4, <2>6, <2>8 DEF Says
  <2>10. ASSUME NEW n \in Names \ {name}, NEW q, Says(c, n, q)
         PROVE  Says(d, n, q)
    <3>1. \A j \in 1 .. Len(c) : c[j].word = n => d[j] = c[j]
      BY <2>4
    <3> QED
      BY <1>4, <2>4, <2>6, <2>10, <3>1 DEF Says
  <2> QED
    <3>1. PICK r, t : r = repl /\ t = [tab EXCEPT ![hash(name)] = d]
      OBVIOUS
    <3>2. Says(d, name, r)
      BY <2>9, <3>1
    <3>3. \A n \in Names \ {name} : hash(n) = hash(name) =>
            \A q : Says(tab[hash(name)], n, q) => Says(d, n, q)
      BY <1>1, <2>10
    <3>4. /\ Table(t) /\ Says(t[hash(name)], name, r)
          /\ \A n \in Names \ {name} : \A q : Says(tab[hash(n)], n, q) => Says(t[hash(n)], n, q)
      BY <2>7, <3>1, <3>2, <3>3, ChainStep
    <3> QED
      BY <2>2, <3>1, <3>4
<1> QED
  BY <1>6, <1>7

(* undef() takes a name out of its chain; the others stay, in their order. *)
LEMMA UndefFacts ==
  ASSUME NEW tab, Table(tab), NEW name \in Names
  PROVE  LET t == undef(tab, name)
         IN  /\ Table(t) /\ Says(t[hash(name)], name, "none")
             /\ \A n \in Names \ {name} : \A q : Says(tab[hash(n)], n, q) => Says(t[hash(n)], n, q)
<1>1. PICK c : c = tab[hash(name)]
  OBVIOUS
<1>2. Chain(c, hash(name)) /\ Says(c, name, lookup(tab, name))
  BY <1>1, Hashes, LookupFacts DEF Table
<1>3. c \in Seq(Definitions) /\ Len(c) \in Nat /\ DOMAIN c = 1 .. Len(c)
  BY <1>2, LenProperties DEF Chain
<1>4. CASE lookup(tab, name) = "none"
  BY <1>1, <1>2, <1>4 DEF undef
<1>5. CASE lookup(tab, name) # "none"
  <2>1. PICK k \in 1 .. Len(c) : c[k].word = name
    BY <1>2, <1>3, <1>5 DEF Says
  <2>2. Positions(tab, name) = {k}
    BY <1>1, <1>2, <1>3, <2>1 DEF Positions, Chain
  <2>3. PICK d : d = Unlinked(c, k)
    OBVIOUS
  <2>4. undef(tab, name) = [tab EXCEPT ![hash(name)] = d]
    <3>1. (CHOOSE i \in {k} : \A j \in {k} : i <= j) = k
      BY <2>1
    <3>2. hash(name) \in DOMAIN tab
      BY Hashes DEF Table
    <3> QED
      BY <1>1, <1>5, <2>2, <2>3, <3>1, <3>2 DEF undef
  <2>5. /\ d \in Seq(Definitions) /\ Len(d) = Len(c) - 1 /\ DOMAIN d = 1 .. Len(c) - 1
        /\ \A j \in 1 .. Len(c) - 1 : d[j] = IF j < k THEN c[j] ELSE c[j + 1]
    <3>1. PICK a, b : a = SubSeq(c, 1, k - 1) /\ b = SubSeq(c, k + 1, Len(c))
      OBVIOUS
    <3>2. \A j \in 1 .. Len(c) : c[j] \in Definitions
      BY <1>3, ElementOfSeq
    <3>3. k \in Nat /\ k - 1 \in Nat /\ k >= 1 /\ k <= Len(c)
      BY <1>3, <2>1
    <3>4. /\ a \in Seq(Definitions) /\ Len(a) = k - 1 /\ \A j \in 1 .. k - 1 : a[j] = c[j]
      BY <1>3, <3>1, <3>2, <3>3, SubSeqProperties
    <3>5. /\ b \in Seq(Definitions) /\ Len(b) = Len(c) - k
          /\ \A j \in 1 .. Len(c) - k : b[j] = c[k + j]
      <4>0. k + 1 \in Int /\ Len(c) \in Int
        BY <1>3, <3>3
      <4>1. PICK m \in Int, n \in Int : m = k + 1 /\ n = Len(c)
        BY <4>0
      <4>2. /\ m \in Int /\ n \in Int /\ m <= n + 1 /\ b = SubSeq(c, m, n)
            /\ \A j \in m .. n : c[j] \in Definitions
        BY <1>3, <3>1, <3>2, <3>3, <4>1
      <4>3. /\ b \in Seq(Definitions) /\ Len(b) = IF m <= n THEN n - m + 1 ELSE 0
            /\ \A j \in 1 .. n - m + 1 : b[j] = c[m + j - 1]
        BY <4>2, SubSeqProperties
      <4>4. n - m + 1 = Len(c) - k /\ (m <= n \/ n - m + 1 = 0)
        <5>1. k \in Int /\ k <= n
          BY <3>3, <4>1
        <5>2. n - m + 1 = n - k /\ (m <= n \/ n - m + 1 = 0)
          BY <4>1, <5>1
        <5> QED
          BY <4>1, <5>2
      <4>5. ASSUME NEW j \in 1 .. Len(c) - k
            PROVE  b[j] = c[k + j]
        <5>1. m + j - 1 = k + j /\ j \in 1 .. n - m + 1
          <6>1. j \in Int /\ k \in Int
            BY <1>3, <3>3
          <6>2. m + j - 1 = k + j
            BY <4>1, <6>1
          <6> QED
            BY <4>4, <6>2
        <5>2. b[j] = c[m + j - 1]
          BY <4>3, <5>1
        <5> QED
          BY <5>1, <5>2
      <4>6. Len(b) = Len(c) - k
        BY <4>3, <4>4
      <4> QED
        BY <4>3, <4>5, <4>6
    <3>6. d = a \o b
      BY <2>3, <3>1 DEF Unlinked
    <3>7. /\ d \in Seq(Definitions) /\ Len(d) = Len(a) + Len(b)
          /\ \A j \in 1 .. Len(a) + Len(b) : d[j] = IF j <= Len(a) THEN a[j] ELSE b[j - Len(a)]
      BY <3>4, <3>5, <3>6, ConcatProperties
    <3>8. Len(d) = Len(c) - 1
      BY <1>3, <3>3, <3>4, <3>5, <3>7
    <3>9. ASSUME NEW j \in 1 .. Len(c) - 1
          PROVE  d[j] = IF j < k THEN c[j] ELSE c[j + 1]
      <4>1. CASE j < k
        <5>1. j \in 1 .. k - 1 /\ j <= Len(a) /\ j \in 1 .. Len(a) + Len(b)
          BY <1>3, <3>3, <3>4, <3>5, <4>1
        <5>2. d[j] = a[j] /\ a[j] = c[j]
          BY <3>4, <3>7, <5>1
        <5> QED
          BY <4>1, <5>2
      <4>2. CASE ~(j < k)
        <5>1. PICK i : i = j - (k - 1)
          OBVIOUS
        <5>2. i \in 1 .. Len(c) - k /\ k + i = j + 1 /\ ~(j <= k - 1) /\ j \in 1 .. Len(a) + Len(b)
          BY <1>3, <3>3, <3>4, <3>5, <4>2, <5>1
        <5>3. d[j] = b[i]
          BY <3>4, <3>7, <5>1, <5>2
        <5>4. b[i] = c[k + i]
          BY <3>5, <5>2
        <5>5. d[j] = c[j + 1]
          BY <5>2, <5>3, <5>4
        <5> QED
          BY <4>2, <5>5
      <4> QED
        BY <4>1, <4>2
    <3> QED
      BY <3>7, <3>8, <3>9, LenProperties
  (* where a place of d lies in c *)
  <2> DEFINE from(j) == IF j < k THEN j ELSE j + 1
  <2>6. /\ \A j \in 1 .. Len(c) - 1 : from(j) \in 1 .. Len(c) /\ from(j) # k /\ d[j] = c[from(j)]
        /\ \A i, j \in 1 .. Len(c) - 1 : from(i) = from(j) => i = j
        /\ \A i \in 1 .. Len(c) : i # k => \E j \in 1 .. Len(c) - 1 : from(j) = i
    <3>1. k \in Nat /\ k >= 1 /\ k <= Len(c)
      BY <1>3, <2>1
    <3>2. ASSUME NEW i \in 1 .. Len(c), i # k
          PROVE  \E j \in 1 .. Len(c) - 1 : from(j) = i
      <4>1. CASE i < k
        BY <1>3, <3>1, <4>1
      <4>2. CASE ~(i < k)
        <5>1. i - 1 \in 1 .. Len(c) - 1 /\ ~(i - 1 < k) /\ i - 1 + 1 = i
          BY <1>3, <3>1, <3>2, <4>2
        <5> QED
          BY <5>1
      <4> QED
        BY <4>1, <4>2
    <3> QED
      BY <1>3, <2>5, <3>1, <3>2
  <2> HIDE DEF from
  <2>7. Chain(d, hash(name))
    <3>1. \A i, j \in 1 .. Len(c) : hash(c[i].word) = hash(name) /\ (c[i].word = c[j].word => i = j)
      BY <1>2, <1>3 DEF Chain
    <3>2. ASSUME NEW i \in 1 .. Len(c) - 1, NEW j \in 1 .. Len(c) - 1
          PROVE  hash(d[i].word) = hash(name) /\ (d[i].word = d[j].word => i = j)
      <4>1. d[i] = c[from(i)] /\ d[j] = c[from(j)] /\ from(i) \in 1 .. Len(c) /\ from(j) \in 1 .. Len(c)
        BY <2>6
      <4>2. hash(c[from(i)].word) = hash(name)
            /\ (c[from(i)].word = c[from(j)].word => from(i) = from(j))
        BY <3>1, <4>1
      <4> QED
        BY <2>6, <4>1, <4>2
    <3> QED
      BY <2>5, <3>2 DEF Chain
  <2>8. Says(d, name, "none")
    <3>1. \A i \in 1 .. Len(c) : c[i].word = name => i = k
      BY <1>2, <1>3, <2>1 DEF Chain
    <3>2. \A j \in 1 .. Len(c) - 1 : d[j].word # name
      BY <2>6, <3>1
    <3> QED
      BY <2>5, <3>2 DEF Says
  <2>9. ASSUME NEW n \in Names \ {name}, NEW q, Says(c, n, q)
        PROVE  Says(d, n, q)
    <3>1. \A i \in 1 .. Len(c) : c[i].word = n => i # k
      BY <2>1
    <3>2. CASE \E i \in 1 .. Len(c) : c[i].word = n
      <4>1. PICK i \in 1 .. Len(c) : c[i].word = n /\ c[i].repl = q
        BY <1>3, <2>9, <3>2 DEF Says
      <4>2. PICK j \in 1 .. Len(c) - 1 : from(j) = i
        BY <2>6, <3>1, <4>1
      <4>3. d[j] = c[i]
        BY <2>6, <4>2
      <4> QED
        BY <2>5, <4>1, <4>2, <4>3 DEF Says
    <3>3. CASE \A i \in 1 .. Len(c) : c[i].word # n
      <4>1. q = "none"
        BY <1>3, <2>9, <3>3 DEF Says
      <4>2. \A j \in 1 .. Len(c) - 1 : d[j].word # n
        BY <2>6, <3>3
      <4> QED
        BY <2>5, <4>1, <4>2 DEF Says
    <3> QED
      BY <3>2, <3>3
  <2> QED
    BY <1>1, <2>4, <2>7, <2>8, <2>9, ChainStep
<1> QED
  BY <1>4, <1>5

(* What is left of a text is a text.                                       *)
LEMMA RestFacts ==
  ASSUME NEW s \in Seq(Tokens), DefinesNames(s), NEW k \in Nat
  PROVE  /\ SubSeq(s, k + 1, Len(s)) \in Seq(Tokens)
         /\ DefinesNames(SubSeq(s, k + 1, Len(s)))
<1> DEFINE t == SubSeq(s, k + 1, Len(s))
<1>1. PICK l \in Nat : l = Len(s)
  BY LenProperties
<1>2. PICK m \in Int : m = k + 1
  OBVIOUS
<1>3. t = SubSeq(s, m, l)
  BY <1>1, <1>2
<1>4. \A i \in m .. l : s[i] \in Tokens
  BY <1>1, <1>2, ElementOfSeq
<1>5. /\ t \in Seq(Tokens) /\ Len(t) = IF m <= l THEN l - m + 1 ELSE 0
      /\ \A i \in 1 .. l - m + 1 : t[i] = s[m + i - 1]
  BY <1>3, <1>4, SubSeqProperties
<1> HIDE DEF t
<1>6. ASSUME NEW j \in Int, j >= 1
      PROVE  Token(t, j) = Token(s, k + j)
  <2>1. m + j - 1 = k + j
    BY <1>2
  <2>2. (j <= Len(t) <=> j <= l - m + 1) /\ (j <= Len(t) <=> k + j <= l)
    <3>0. Len(t) \in Int
      BY <1>5, LenProperties
    <3>1. PICK n \in Int : n = Len(t) /\ n = IF m <= l THEN l - m + 1 ELSE 0
      BY <1>5, <3>0
    <3>2. m = k + 1 /\ k \in Nat
      BY <1>2
    <3>3. (j <= n <=> j <= l - m + 1) /\ (j <= n <=> k + j <= l)
      BY <3>1, <3>2, <1>6
    <3> QED
      BY <3>1, <3>3
  <2>3. CASE j <= Len(t)
    <3>1. j \in 1 .. l - m + 1
      BY <1>1, <1>2, <1>6, <2>2, <2>3
    <3> QED
      BY <1>1, <1>5, <2>1, <2>2, <2>3, <3>1 DEF Token
  <2>4. CASE ~(j <= Len(t))
    BY <1>1, <2>2, <2>4 DEF Token
  <2> QED
    BY <2>3, <2>4
<1>7. ASSUME NEW j \in DOMAIN t, Token(t, j) = "#", Token(t, j + 1) = "define"
      PROVE  Token(t, j + 2) \in Names /\ Token(t, j + 3) # "none"
  <2>1. j \in Int /\ j >= 1 /\ j <= Len(t) /\ Len(t) \in Nat
    BY <1>5, LenProperties
  <2>2. k + j >= 1 /\ k + j <= l /\ k + j \in Int
    BY <1>1, <1>2, <1>5, <2>1
  <2>3. PICK i \in DOMAIN s : i = k + j
    BY <1>1, <2>2, LenProperties
  <2>4. /\ Token(t, j) = Token(s, i) /\ Token(t, j + 1) = Token(s, i + 1)
        /\ Token(t, j + 2) = Token(s, i + 2) /\ Token(t, j + 3) = Token(s, i + 3)
    <3>1. ASSUME NEW x \in Int, x >= 0
          PROVE  Token(t, j + x) = Token(s, i + x)
      <4>1. j + x \in Int /\ j + x >= 1 /\ k + (j + x) = i + x
        BY <2>1, <2>3, <3>1
      <4> QED
        BY <1>6, <4>1
    <3>2. Token(t, j) = Token(s, i)
      BY <1>6, <2>1, <2>3
    <3>3. Token(t, j + 1) = Token(s, i + 1)
      BY <3>1
    <3>4. Token(t, j + 2) = Token(s, i + 2)
      BY <3>1
    <3>5. Token(t, j + 3) = Token(s, i + 3)
      BY <3>1
    <3> QED
      BY <3>2, <3>3, <3>4, <3>5
  <2> QED
    BY <1>7, <2>4 DEF DefinesNames
<1> QED
  BY <1>5, <1>7 DEF DefinesNames, t

(* What a definition in the text defines.                                  *)
LEMMA TokenFacts ==
  ASSUME NEW s \in Seq(Tokens), DefinesNames(s), Token(s, 1) = "#", Token(s, 2) = "define"
  PROVE  Token(s, 3) \in Names /\ Token(s, 4) \in Tokens \ {"none"}
<1>1. Len(s) \in Nat /\ DOMAIN s = 1 .. Len(s) /\ \A i \in 1 .. Len(s) : s[i] \in Tokens
  BY LenProperties, ElementOfSeq
<1>2. 1 \in DOMAIN s
  BY <1>1 DEF Token
<1>3. Token(s, 3) \in Names /\ Token(s, 4) # "none"
  <2>1. 1 + 1 = 2 /\ 1 + 2 = 3 /\ 1 + 3 = 4
    OBVIOUS
  <2> QED
    BY <1>2, <2>1 DEF DefinesNames
<1>4. Token(s, 4) \in Tokens
  <2>1. 4 <= Len(s) => s[4] \in Tokens
    BY <1>1
  <2> QED
    BY <2>1, TokensFacts DEF Token
<1> QED
  BY <1>3, <1>4

LEMMA InstallsKeep ==
  ASSUME TableOK, NEW name \in Names, NEW repl \in Tokens \ {"none"}, Installs(name, repl),
         text' \in Seq(Tokens), DefinesNames(text')
  PROVE  TableOK'
<1>1. /\ Table(hashtab) /\ defs \in [Names -> Tokens \cup {"none"}]
      /\ \A n \in Names : Says(hashtab[hash(n)], n, defs[n])
  BY DEF TableOK
<1>2. PICK t : t = install(hashtab, name, repl)
  OBVIOUS
<1>3. hashtab' = t /\ defs' = [defs EXCEPT ![name] = repl]
  BY <1>2 DEF Installs
<1>4. /\ Table(t) /\ Says(t[hash(name)], name, repl)
      /\ \A n \in Names \ {name} : \A q : Says(hashtab[hash(n)], n, q) => Says(t[hash(n)], n, q)
  BY <1>1, <1>2, InstallFacts
<1>5. \A n \in Names : Says(t[hash(n)], n, defs'[n])
  <2>1. \A n \in Names : defs'[n] = IF n = name THEN repl ELSE defs[n]
    BY <1>1, <1>3
  <2> QED
    BY <1>1, <1>4, <2>1
<1>6. defs' \in [Names -> Tokens \cup {"none"}]
  BY <1>1, <1>3
<1> QED
  BY <1>3, <1>4, <1>5, <1>6 DEF TableOK

LEMMA UndefsKeep ==
  ASSUME TableOK, NEW name \in Names, Undefs(name), text' = text
  PROVE  TableOK'
<1>1. /\ Table(hashtab) /\ defs \in [Names -> Tokens \cup {"none"}]
      /\ \A n \in Names : Says(hashtab[hash(n)], n, defs[n])
  BY DEF TableOK
<1>2. PICK t : t = undef(hashtab, name)
  OBVIOUS
<1>3. hashtab' = t /\ defs' = [defs EXCEPT ![name] = "none"]
  BY <1>2 DEF Undefs
<1>4. /\ Table(t) /\ Says(t[hash(name)], name, "none")
      /\ \A n \in Names \ {name} : \A q : Says(hashtab[hash(n)], n, q) => Says(t[hash(n)], n, q)
  BY <1>1, <1>2, UndefFacts
<1>5. \A n \in Names : Says(t[hash(n)], n, defs'[n])
  <2>1. \A n \in Names : defs'[n] = IF n = name THEN "none" ELSE defs[n]
    BY <1>1, <1>3
  <2> QED
    BY <1>1, <1>4, <2>1
<1>6. defs' \in [Names -> Tokens \cup {"none"}]
  BY <1>1, <1>3
<1> QED
  BY <1>3, <1>4, <1>5, <1>6 DEF TableOK

LEMMA TableSame ==
  ASSUME TableOK, UNCHANGED <<hashtab, defs>>, text' \in Seq(Tokens), DefinesNames(text')
  PROVE  TableOK'
BY DEF TableOK

LEMMA TableKeeps ==
  ASSUME TableOK, TableNext
  PROVE  TableOK'
<1>1. /\ text \in Seq(Tokens) /\ DefinesNames(text)
      /\ \A k \in Nat : Rest(k) => text' \in Seq(Tokens) /\ DefinesNames(text')
  BY RestFacts DEF TableOK, Rest
<1>2. CASE Define
  <2>1. Token(text, 3) \in Names /\ Token(text, 4) \in Tokens \ {"none"}
    BY <1>1, <1>2, TokenFacts DEF Define
  <2> QED
    BY <1>1, <1>2, <2>1, InstallsKeep DEF Define
<1>3. CASE OtherDirective \/ Expand
  BY <1>1, <1>3, TableSame DEF OtherDirective, Expand
<1>4. CASE Calls
  <2>1. CASE \E name \in Names : Undefs(name)
    BY <1>4, <2>1, UndefsKeep DEF Calls
  <2>2. CASE \E name \in Names, repl \in {"1", "2"} : Installs(name, repl)
    <3>1. PICK name \in Names, repl \in Tokens \ {"none"} : Installs(name, repl)
      <4>1. PICK name \in Names, repl \in {"1", "2"} : Installs(name, repl)
        BY <2>2
      <4>2. repl \in Tokens \ {"none"}
        BY TokensFacts
      <4> QED
        BY <4>1, <4>2
    <3>2. text' = text
      BY <1>4 DEF Calls
    <3> QED
      BY <1>1, <3>1, <3>2, InstallsKeep
  <2> QED
    BY <1>4, <2>1, <2>2 DEF Calls
<1> QED
  BY <1>2, <1>3, <1>4 DEF TableNext

(* The chains hold each name once and under its hash, and what the table   *)
(* says of every name is what was last asked for: for any names, hashes    *)
(* and texts.                                                              *)
THEOREM TableSound == Spec => []TableOK
<1>1. Init => TableOK
  <2> SUFFICES ASSUME Init PROVE TableOK
    OBVIOUS
  <2>1. TableInit
    BY DEF Init
  <2>2. text \in Seq(Tokens) /\ DefinesNames(text)
    <3>1. text \in Sources /\ text \in Seq(STRING) /\ DefinesNames(text)
      BY <2>1, SourcesAssumption DEF TableInit
    <3>2. \A k \in DOMAIN text : text[k] \in Tokens
      BY <3>1, TokensFacts
    <3> QED
      BY <3>1, <3>2
  <2>3. <<>> \in Seq(Definitions) /\ DOMAIN <<>> = {} /\ \A h : Chain(<<>>, h)
    BY EmptySeq DEF Chain
  <2>4. \A h \in 0 .. HASHSIZE - 1 : hashtab[h] = <<>>
    BY <2>1 DEF TableInit
  <2>5. Table(hashtab)
    BY <2>1, <2>3, <2>4 DEF TableInit, Table
  <2>6. \A n \in Names : Says(hashtab[hash(n)], n, defs[n])
    <3>1. \A n \in Names : hashtab[hash(n)] = <<>> /\ defs[n] = "none"
      BY <2>1, <2>4, Hashes DEF TableInit
    <3> QED
      BY <2>3, <3>1 DEF Says
  <2>7. defs \in [Names -> Tokens \cup {"none"}]
    BY <2>1 DEF TableInit
  <2> QED
    BY <2>2, <2>5, <2>6, <2>7 DEF TableOK
<1>2. TableOK /\ [Next]_vars => TableOK'
  <2> SUFFICES ASSUME TableOK, [Next]_vars PROVE TableOK'
    OBVIOUS
  <2>1. TableNext \/ UNCHANGED tableVars
    BY DEF Next, Runs, vars
  <2>2. CASE UNCHANGED tableVars
    BY <2>2, TableSame DEF tableVars, TableOK
  <2> QED
    BY <2>1, <2>2, TableKeeps
<1> QED
  BY <1>1, <1>2, PTL DEF Spec

(* lookup() returns for every name what was last installed for it and not  *)
(* undefined, in 8-1-26/6-5.c and 6-6.c.                                   *)
THEOREM TableHolds == Spec => []TableHoldsDefinitions
<1>1. TableOK => TableHoldsDefinitions
  <2> SUFFICES ASSUME TableOK PROVE TableHoldsDefinitions
    OBVIOUS
  <2>1. \A n \in Names : lookup(hashtab, n) = defs[n]
    BY LookupFacts DEF TableOK
  <2>2. DOMAIN hashtab = 0 .. HASHSIZE - 1 /\ \A h \in 0 .. HASHSIZE - 1 : Chain(hashtab[h], h)
    BY DEF TableOK, Table
  <2> QED
    BY <2>1, <2>2 DEF TableHoldsDefinitions, Chain
<1> QED
  BY <1>1, TableSound, PTL

-----------------------------------------------------------------------------
(***************************************************************************)
(* The storage allocator.                                                  *)
(***************************************************************************)
Memories == [ptr : [Addresses -> Addresses], size : [Addresses -> Nat],
             freep : 0 .. Units + 1, brk : 1 .. Units + 1]

(* F: the free blocks and base, each linked to the next one above it and   *)
(* the last to base.                                                       *)
Linked(m, F) ==
  /\ F \in SUBSET Addresses /\ 0 \in F /\ m.freep \in F
  /\ \A a \in F : /\ m.ptr[a] \in F
                  /\ \/ m.ptr[a] > a /\ \A b \in F : b <= a \/ b >= m.ptr[a]
                     \/ m.ptr[a] = 0 /\ \A b \in F : b <= a

(* No two of them overlap or touch, and none reaches beyond the break.     *)
Apart(m, F) ==
  /\ m.size[0] = 0
  /\ \A a \in F \ {0} : /\ m.size[a] >= 1 /\ a + m.size[a] <= m.brk
                        /\ \A b \in F : a < b => a + m.size[a] < b

Heap(m, F) == m \in Memories /\ Linked(m, F) /\ Apart(m, F)

(* The memory of the free blocks.                                          *)
Within(x, a, size) == a <= x /\ x < a + size
InFree(m, F, x) == \E a \in F \ {0} : Within(x, a, m.size[a])

(* What the program has: no block overlaps another or the free ones, and   *)
(* its header says its size.                                               *)
HeldOK(h, m, F) ==
  /\ \A b \in h : /\ b \in [at : 1 .. Units, size : Nat]
                  /\ b.size >= 1 /\ b.at + b.size <= m.brk /\ m.size[b.at] = b.size
                  /\ \A x \in Nat : Within(x, b.at, b.size) => ~InFree(m, F, x)
  /\ \A b, c \in h : b = c \/ \A x \in Nat : ~(Within(x, b.at, b.size) /\ Within(x, c.at, c.size))

(* While all is fine no header of the program's is taken for a wrong one,  *)
(* and what was freed is free.                                             *)
FineOK(st, h, fr, m, F) ==
  st = "fine" => /\ \A b \in h : ~Implausible(b.size)
                 /\ \A a \in fr : a \in Nat /\ InFree(m, F, a)

AllocOK ==
  /\ story \in {"fine", "largest", "over"}
  /\ story # "over" =>
       /\ mem \in Memories
       /\ mem.freep = NULL => held = {} /\ freed = {}
       /\ mem.freep # NULL => /\ Heap(mem, Listed(mem)) /\ HeldOK(held, mem, Listed(mem))
                              /\ FineOK(story, held, freed, mem, Listed(mem))

LEMMA UnitsFacts ==
  /\ Units \in Nat /\ Units >= 2 /\ NULL = Units + 1 /\ NULL \notin Addresses
  /\ Addresses = 0 .. Units /\ NALLOC \in Nat /\ NALLOC >= 1
BY AllocAssumption DEF NULL, Addresses

(* The walk along the list from freep.                                     *)
Walk(m, g, n) == /\ g \in [0 .. n -> Addresses] /\ g[0] = m.freep
                 /\ \A k \in 1 .. n : g[k] = m.ptr[g[k - 1]]

LEMMA WalkExists ==
  ASSUME NEW m \in Memories, m.freep \in Addresses, NEW n \in Nat
  PROVE  \E g : Walk(m, g, n)
<1> DEFINE Bad == {i \in Nat : ~\E g : Walk(m, g, i)}
<1>0. m.ptr \in [Addresses -> Addresses]
  BY DEF Memories
<1>1. SUFFICES ASSUME Bad # {} PROVE FALSE
  OBVIOUS
<1>2. PICK i \in Bad : \A j \in Bad : i <= j
  <2>1. Bad \in SUBSET Nat
    OBVIOUS
  <2> HIDE DEF Bad
  <2> QED
    BY <1>1, <2>1, Least
<1>3. i # 0
  <2>1. Walk(m, [k \in 0 .. 0 |-> m.freep], 0)
    BY DEF Walk
  <2>2. 0 \notin Bad
    BY <2>1
  <2> QED
    BY <1>2, <2>2
<1>4. i - 1 \in Nat /\ i - 1 \notin Bad
  BY <1>2, <1>3
<1>5. PICK g : Walk(m, g, i - 1)
  BY <1>4
<1> DEFINE h == [k \in 0 .. i |-> IF k = i THEN m.ptr[g[i - 1]] ELSE g[k]]
<1>6. Walk(m, h, i)
  <2>1. g \in [0 .. i - 1 -> Addresses] /\ g[0] = m.freep
        /\ \A k \in 1 .. i - 1 : g[k] = m.ptr[g[k - 1]]
    BY <1>5 DEF Walk
  <2>2. h \in [0 .. i -> Addresses]
    BY <1>0, <1>4, <2>1
  <2>3. h[0] = m.freep
    BY <1>2, <1>3, <2>1
  <2>4. ASSUME NEW k \in 1 .. i PROVE h[k] = m.ptr[h[k - 1]]
    <3>1. k - 1 \in 0 .. i - 1 /\ h[k - 1] = g[k - 1]
      BY <1>2, <1>4
    <3>2. CASE k = i
      BY <3>1, <3>2
    <3>3. CASE k # i
      <4>1. k \in 1 .. i - 1 /\ h[k] = g[k]
        BY <1>4, <3>3
      <4> QED
        BY <2>1, <3>1, <4>1
    <3> QED
      BY <3>2, <3>3
  <2> QED
    BY <2>2, <2>3, <2>4 DEF Walk
<1> QED
  BY <1>2, <1>6

LEMMA RingFacts ==
  ASSUME NEW m \in Memories, m.freep \in Addresses
  PROVE  /\ \A k \in Addresses : Ring(m)[k] \in Addresses
         /\ Ring(m)[0] = m.freep
         /\ \A k \in 1 .. Units : Ring(m)[k] = m.ptr[Ring(m)[k - 1]]
<1>1. PICK g : Walk(m, g, Units)
  BY WalkExists, UnitsFacts
<1>2. g = [k \in Addresses |-> IF k = 0 THEN m.freep ELSE m.ptr[g[k - 1]]]
  <2>1. g \in [Addresses -> Addresses] /\ g[0] = m.freep
        /\ \A k \in 1 .. Units : g[k] = m.ptr[g[k - 1]]
    BY <1>1, UnitsFacts DEF Walk
  <2>2. \A k \in Addresses : k = 0 \/ k \in 1 .. Units
    BY UnitsFacts
  <2> QED
    BY <2>1, <2>2
<1> DEFINE r == CHOOSE at : at = [k \in Addresses |-> IF k = 0 THEN m.freep ELSE m.ptr[at[k - 1]]]
<1>3. r = [k \in Addresses |-> IF k = 0 THEN m.freep ELSE m.ptr[r[k - 1]]]
  BY <1>2
<1>4. Ring(m) = r
  BY DEF Ring
<1> HIDE DEF r
<1>5. r[0] = m.freep /\ \A k \in 1 .. Units : r[k] = m.ptr[r[k - 1]]
  BY <1>3, UnitsFacts
<1>6. \A k \in Addresses : r[k] \in Addresses
  <2> DEFINE Bad == {i \in Addresses : r[i] \notin Addresses}
  <2>1. SUFFICES ASSUME Bad # {} PROVE FALSE
    OBVIOUS
  <2>2. PICK i \in Bad : \A j \in Bad : i <= j
    <3>1. Bad \in SUBSET Nat
      BY UnitsFacts
    <3> HIDE DEF Bad
    <3> QED
      BY <2>1, <3>1, Least
  <2>3. i # 0
    BY <1>5
  <2>4. i \in 1 .. Units /\ i - 1 \in Addresses /\ i - 1 \notin Bad
    BY <2>2, <2>3, UnitsFacts
  <2>5. r[i] = m.ptr[r[i - 1]] /\ r[i - 1] \in Addresses
    BY <1>5, <2>4
  <2>6. m.ptr \in [Addresses -> Addresses]
    BY DEF Memories
  <2> QED
    BY <2>5, <2>6
<1> QED
  BY <1>4, <1>5, <1>6

(* The walk meets every block of the list: those above freep on the way to *)
(* the last one, then base, then the others.                               *)
LEMMA ListedIs ==
  ASSUME NEW m \in Memories, NEW F, Linked(m, F)
  PROVE  /\ Listed(m) = F
         /\ \A k \in Addresses : Ring(m)[k] \in F
<1> DEFINE r == Ring(m)
           f == m.freep
<1>0. /\ F \in SUBSET Addresses /\ 0 \in F /\ f \in F
      /\ \A a \in F : /\ m.ptr[a] \in F
                      /\ \/ m.ptr[a] > a /\ \A b \in F : b <= a \/ b >= m.ptr[a]
                         \/ m.ptr[a] = 0 /\ \A b \in F : b <= a
  BY DEF Linked
<1>1. /\ r[0] = f /\ \A k \in 1 .. Units : r[k] = m.ptr[r[k - 1]]
      /\ Units \in Nat /\ Addresses = 0 .. Units /\ f \in 0 .. Units /\ f # NULL
  BY <1>0, RingFacts, UnitsFacts
<1>9. \A a \in F : a \in Nat /\ a <= Units /\ m.ptr[a] \in Nat
  <2>1. \A a \in F : a \in 0 .. Units /\ m.ptr[a] \in F
    BY <1>0, <1>1
  <2>2. \A a \in 0 .. Units : a \in Nat /\ a <= Units
    BY <1>1
  <2> QED
    BY <2>1, <2>2
<1>2. \A k \in Addresses : r[k] \in F
  <2> DEFINE Bad == {i \in Addresses : r[i] \notin F}
  <2>1. SUFFICES ASSUME Bad # {} PROVE FALSE
    OBVIOUS
  <2>2. PICK i \in Bad : \A j \in Bad : i <= j
    <3>1. Bad \in SUBSET Nat
      BY UnitsFacts
    <3> HIDE DEF Bad
    <3> QED
      BY <2>1, <3>1, Least
  <2>3. i # 0
    BY <1>0, <1>1
  <2>4. i \in 1 .. Units /\ i - 1 \in Addresses /\ i - 1 \notin Bad
    BY <2>2, <2>3, UnitsFacts
  <2> QED
    BY <1>0, <1>1, <2>2, <2>4
<1> HIDE DEF r, f
(* the block just below one of the list *)
<1>3. ASSUME NEW x \in F, x # 0
      PROVE  \E p \in F : p < x /\ m.ptr[p] = x /\ \A b \in F : b < x => b <= p
  <2> DEFINE D == {d \in Nat : \E p \in F : p < x /\ d = x - p}
  <2>1. D \in SUBSET Nat /\ x \in D
    BY <1>0, <1>1, <1>3
  <2>2. PICK d \in D : \A e \in D : d <= e
    <3> HIDE DEF D
    <3> QED
      BY <2>1, Least
  <2>3. PICK p \in F : p < x /\ d = x - p
    BY <2>2
  <2>4. ASSUME NEW b \in F, b < x PROVE b <= p
    <3>1. x - b \in D
      BY <1>3, <1>9, <2>4
    <3>2. d <= x - b
      BY <2>2, <3>1
    <3> QED
      BY <1>3, <1>9, <2>3, <3>2
  <2>5. m.ptr[p] = x
    <3>1. m.ptr[p] \in F /\ m.ptr[p] > p /\ m.ptr[p] <= x
      BY <1>0, <1>3, <1>9, <2>3
    <3>2. ~(m.ptr[p] < x)
      BY <1>9, <2>3, <2>4, <3>1
    <3> QED
      BY <1>3, <1>9, <3>1, <3>2
  <2> QED
    BY <2>3, <2>4, <2>5
<1>4. \A x \in F : x >= f => \E k \in Addresses : k <= x - f /\ r[k] = x
  <2> DEFINE Met(x) == \E k \in Addresses : k <= x - f /\ r[k] = x
             Bad == {x \in F : x >= f /\ ~Met(x)}
  <2>1. SUFFICES ASSUME Bad # {} PROVE FALSE
    OBVIOUS
  <2>2. PICK x \in Bad : \A j \in Bad : x <= j
    <3>1. Bad \in SUBSET Nat
      BY <1>9
    <3> HIDE DEF Bad
    <3> QED
      BY <2>1, <3>1, Least
  <2>3. Met(f)
    BY <1>1
  <2>4. x # f /\ x > f /\ x \in Nat
    BY <1>0, <1>1, <2>2, <2>3
  <2>5. PICK p \in F : p < x /\ m.ptr[p] = x /\ \A b \in F : b < x => b <= p
    BY <1>1, <1>3, <2>2, <2>4
  <2>6. p >= f /\ p \notin Bad
    BY <1>0, <1>1, <2>2, <2>4, <2>5
  <2>7. PICK k \in Addresses : k <= p - f /\ r[k] = p
    BY <2>6
  <2>8. k + 1 \in 1 .. Units /\ k + 1 <= x - f /\ k + 1 - 1 = k
    BY <1>0, <1>1, <2>2, <2>4, <2>5, <2>7
  <2>9. r[k + 1] = x
    BY <1>1, <2>5, <2>7, <2>8
  <2>10. Met(x)
    BY <1>1, <2>8, <2>9
  <2> QED
    BY <2>2, <2>10
(* the last one *)
<1>5. \E mx \in F : mx >= f /\ m.ptr[mx] = 0 /\ \A b \in F : b <= mx
  <2> DEFINE D == {d \in Nat : \E p \in F : d = Units - p}
  <2>1. D \in SUBSET Nat /\ Units \in D
    BY <1>0, <1>1
  <2>2. PICK d \in D : \A e \in D : d <= e
    <3> HIDE DEF D
    <3> QED
      BY <2>1, Least
  <2>3. PICK p \in F : d = Units - p
    BY <2>2
  <2>4. ASSUME NEW b \in F PROVE b <= p
    <3>1. Units - b \in D
      BY <1>1, <1>9
    <3>2. d <= Units - b
      BY <2>2, <3>1
    <3> QED
      BY <1>1, <1>9, <2>3, <3>2
  <2>5. m.ptr[p] = 0
    <3>1. m.ptr[p] \in F /\ m.ptr[p] <= p
      BY <1>0, <2>3, <2>4
    <3>2. ~(m.ptr[p] > p)
      BY <1>9, <2>3, <3>1
    <3> QED
      BY <1>0, <2>3, <3>2
  <2>6. f \in F
    BY <1>0
  <2> QED
    BY <2>3, <2>4, <2>5, <2>6
<1>6. \A x \in F : x < f => \E k \in Addresses : k <= Units - f + 1 + x /\ r[k] = x
  <2> DEFINE Met(x) == \E k \in Addresses : k <= Units - f + 1 + x /\ r[k] = x
             Bad == {x \in F : x < f /\ ~Met(x)}
  <2>1. SUFFICES ASSUME Bad # {} PROVE FALSE
    OBVIOUS
  <2>2. PICK x \in Bad : \A j \in Bad : x <= j
    <3>1. Bad \in SUBSET Nat
      BY <1>9
    <3> HIDE DEF Bad
    <3> QED
      BY <2>1, <3>1, Least
  <2>3. x \in Nat /\ x < f
    BY <1>0, <1>1, <2>2
  <2>4. CASE x = 0
    <3>1. PICK mx \in F : mx >= f /\ m.ptr[mx] = 0
      BY <1>5
    <3>2. PICK k \in Addresses : k <= mx - f /\ r[k] = mx
      BY <1>4, <3>1
    <3>3. mx \in 0 .. Units /\ k + 1 \in 1 .. Units /\ k + 1 <= Units - f + 1 /\ k + 1 - 1 = k
      BY <1>0, <1>1, <2>3, <2>4, <3>1, <3>2
    <3>4. r[k + 1] = 0
      BY <1>1, <3>1, <3>2, <3>3
    <3> QED
      BY <1>1, <2>2, <2>4, <3>3, <3>4
  <2>5. CASE x # 0
    <3>1. PICK p \in F : p < x /\ m.ptr[p] = x
      BY <1>3, <2>2, <2>5
    <3>2. p < f /\ p \notin Bad
      BY <1>0, <1>1, <2>2, <2>3, <3>1
    <3>3. PICK k \in Addresses : k <= Units - f + 1 + p /\ r[k] = p
      BY <3>2
    <3>4. k + 1 \in 1 .. Units /\ k + 1 <= Units - f + 1 + x /\ k + 1 - 1 = k
      BY <1>0, <1>1, <2>3, <3>1, <3>3
    <3>5. r[k + 1] = x
      BY <1>1, <3>1, <3>3, <3>4
    <3> QED
      BY <1>1, <2>2, <3>4, <3>5
  <2> QED
    BY <2>4, <2>5
<1>7. F \subseteq {r[k] : k \in Addresses}
  <2>1. \A x \in F : \E k \in Addresses : r[k] = x
    BY <1>0, <1>1, <1>4, <1>6
  <2> QED
    BY <2>1
<1>8. Listed(m) = {r[k] : k \in Addresses}
  BY <1>1 DEF Listed, f, r
<1> QED
  BY <1>2, <1>7, <1>8 DEF r

LEMMA HeapFacts ==
  ASSUME NEW m, NEW F, Heap(m, F)
  PROVE  /\ m \in Memories /\ m.ptr \in [Addresses -> Addresses] /\ m.size \in [Addresses -> Nat]
         /\ m.freep \in F /\ m.brk \in Nat /\ m.brk <= Units + 1 /\ F \in SUBSET Addresses /\ 0 \in F
         /\ \A a \in F : /\ a \in Nat /\ a <= Units /\ m.ptr[a] \in F /\ m.ptr[a] \in Nat
                         /\ m.size[a] \in Nat
                         /\ \/ m.ptr[a] > a /\ \A b \in F : b <= a \/ b >= m.ptr[a]
                            \/ m.ptr[a] = 0 /\ \A b \in F : b <= a
         /\ m.size[0] = 0
         /\ \A a \in F \ {0} : /\ m.size[a] >= 1 /\ a + m.size[a] <= m.brk
                               /\ \A b \in F : a < b => a + m.size[a] < b
<1>1. /\ m \in Memories /\ m.ptr \in [Addresses -> Addresses] /\ m.size \in [Addresses -> Nat]
      /\ m.brk \in Nat /\ m.brk <= Units + 1
  <2>1. m \in Memories /\ m.brk \in 1 .. Units + 1
    BY DEF Heap, Memories
  <2>2. m.ptr \in [Addresses -> Addresses] /\ m.size \in [Addresses -> Nat]
    BY <2>1 DEF Memories
  <2>3. m.brk \in Nat /\ m.brk <= Units + 1
    BY <2>1, AllocAssumption
  <2> QED
    BY <2>1, <2>2, <2>3
<1>2. /\ F \in SUBSET Addresses /\ 0 \in F /\ m.freep \in F
      /\ \A a \in F : /\ m.ptr[a] \in F
                      /\ \/ m.ptr[a] > a /\ \A b \in F : b <= a \/ b >= m.ptr[a]
                         \/ m.ptr[a] = 0 /\ \A b \in F : b <= a
  BY DEF Heap, Linked
<1>3. /\ m.size[0] = 0
      /\ \A a \in F \ {0} : /\ m.size[a] >= 1 /\ a + m.size[a] <= m.brk
                            /\ \A b \in F : a < b => a + m.size[a] < b
  BY DEF Heap, Apart
<1>4. \A a \in F : a \in Nat /\ a <= Units /\ m.ptr[a] \in Nat /\ m.size[a] \in Nat
  <2>1. \A a \in F : a \in Addresses /\ m.ptr[a] \in Addresses
    BY <1>2
  <2>2. \A a \in Addresses : a \in Nat /\ a <= Units /\ m.size[a] \in Nat
    BY <1>1, UnitsFacts
  <2> QED
    BY <2>1, <2>2
<1> QED
  BY <1>1, <1>2, <1>3, <1>4

(* A block leaves the list.                                                *)
LEMMA Unlink ==
  ASSUME NEW m, NEW F, Heap(m, F), NEW p \in F, NEW q, q = m.ptr[p], q # 0,
         NEW n \in Memories, n.freep \in F \ {q}, n.brk = m.brk,
         \A a \in F \ {q} : /\ n.ptr[a] = IF a = p THEN m.ptr[q] ELSE m.ptr[a]
                            /\ n.size[a] = m.size[a]
  PROVE  Heap(n, F \ {q}) /\ p # q
<1> DEFINE G == F \ {q}
<1>1. /\ m.freep \in F /\ m.brk \in Nat /\ F \in SUBSET Addresses /\ 0 \in F
      /\ \A a \in F : /\ a \in Nat /\ a <= Units /\ m.ptr[a] \in F /\ m.ptr[a] \in Nat
                      /\ m.size[a] \in Nat
                      /\ \/ m.ptr[a] > a /\ \A b \in F : b <= a \/ b >= m.ptr[a]
                         \/ m.ptr[a] = 0 /\ \A b \in F : b <= a
      /\ m.size[0] = 0
      /\ \A a \in F \ {0} : /\ m.size[a] >= 1 /\ a + m.size[a] <= m.brk
                            /\ \A b \in F : a < b => a + m.size[a] < b
  BY HeapFacts
<1>2. /\ q \in F /\ q \in Nat /\ p \in Nat /\ q > p /\ p # q /\ \A b \in F : b <= p \/ b >= q
  <2>1. /\ p \in Nat /\ m.ptr[p] \in F /\ m.ptr[p] \in Nat
        /\ \/ m.ptr[p] > p /\ \A b \in F : b <= p \/ b >= m.ptr[p]
           \/ m.ptr[p] = 0
    BY <1>1
  <2> QED
    BY <2>1
<1>3. G \in SUBSET Addresses /\ 0 \in G /\ n.freep \in G /\ p \in G
  BY <1>1, <1>2
<1>4. ASSUME NEW a \in G
      PROVE  /\ n.ptr[a] \in G
             /\ \/ n.ptr[a] > a /\ \A b \in G : b <= a \/ b >= n.ptr[a]
                \/ n.ptr[a] = 0 /\ \A b \in G : b <= a
  <2>1. CASE a = p
    <3>1. n.ptr[a] = m.ptr[q] /\ m.ptr[q] # q
      BY <1>1, <1>2, <2>1
    <3>2. m.ptr[q] \in G
      BY <1>1, <1>2, <3>1
    <3>3. CASE m.ptr[q] > q
      <4>1. \A b \in G : b <= q \/ b >= m.ptr[q]
        BY <1>1, <1>2, <3>3
      <4>2. \A b \in G : b <= a \/ b >= n.ptr[a]
        BY <1>1, <1>2, <2>1, <3>1, <4>1
      <4>3. n.ptr[a] > a
        BY <1>1, <1>2, <2>1, <3>1, <3>3
      <4> QED
        BY <3>1, <3>2, <4>2, <4>3
    <3>4. CASE ~(m.ptr[q] > q)
      <4>1. m.ptr[q] = 0 /\ \A b \in F : b <= q
        BY <1>1, <1>2, <3>4
      <4>2. \A b \in G : b <= a
        BY <1>1, <1>2, <2>1, <4>1
      <4> QED
        BY <3>1, <3>2, <4>1, <4>2
    <3> QED
      BY <3>3, <3>4
  <2>2. CASE a # p
    <3>1. n.ptr[a] = m.ptr[a] /\ m.ptr[a] \in F
      BY <1>1, <2>2
    <3>2. m.ptr[a] # q
      <4>1. SUFFICES ASSUME m.ptr[a] = q PROVE FALSE
        OBVIOUS
      <4>2. q > a /\ \A b \in F : b <= a \/ b >= q
        BY <1>1, <1>2, <4>1
      <4> QED
        BY <1>1, <1>2, <2>2, <4>2
    <3> QED
      BY <1>1, <3>1, <3>2
  <2> QED
    BY <2>1, <2>2
<1>5. Apart(n, G)
  BY <1>1, <1>3 DEF Apart
<1> QED
  BY <1>2, <1>3, <1>4, <1>5 DEF Heap, Linked

(* The first word of a block behind which bp goes.                         *)
Before(m, p, bp) == p < bp /\ (m.ptr[p] = 0 \/ bp < m.ptr[p])

(* A block of size s goes behind p, or p grows by it.                      *)
LEMMA Insert ==
  ASSUME NEW m, NEW F, Heap(m, F), NEW p \in F, NEW bp \in 1 .. Units, Before(m, p, bp),
         NEW s \in Nat, s >= 1, bp + s <= m.brk, m.ptr[p] # 0 => bp + s < m.ptr[p],
         p # 0 => p + m.size[p] < bp,
         NEW n \in Memories, n.freep = p, n.brk = m.brk,
         \A a \in F : n.ptr[a] = (IF a = p THEN bp ELSE m.ptr[a]) /\ n.size[a] = m.size[a],
         n.ptr[bp] = m.ptr[p], n.size[bp] = s
  PROVE  Heap(n, F \cup {bp})
<1> DEFINE G == F \cup {bp}
<1>1. /\ m.freep \in F /\ m.brk \in Nat /\ F \in SUBSET Addresses /\ 0 \in F
      /\ \A a \in F : /\ a \in Nat /\ a <= Units /\ m.ptr[a] \in F /\ m.ptr[a] \in Nat
                      /\ m.size[a] \in Nat
                      /\ \/ m.ptr[a] > a /\ \A b \in F : b <= a \/ b >= m.ptr[a]
                         \/ m.ptr[a] = 0 /\ \A b \in F : b <= a
      /\ m.size[0] = 0
      /\ \A a \in F \ {0} : /\ m.size[a] >= 1 /\ a + m.size[a] <= m.brk
                            /\ \A b \in F : a < b => a + m.size[a] < b
  BY HeapFacts
<1>2. bp \in Nat /\ bp >= 1 /\ p \in Nat /\ p < bp /\ (m.ptr[p] = 0 \/ bp < m.ptr[p])
  BY <1>1, UnitsFacts DEF Before
<1>3. \A b \in F : b <= p \/ (b >= m.ptr[p] /\ b > bp /\ m.ptr[p] # 0)
  <2>1. /\ m.ptr[p] \in Nat
        /\ \/ m.ptr[p] > p /\ \A b \in F : b <= p \/ b >= m.ptr[p]
           \/ m.ptr[p] = 0 /\ \A b \in F : b <= p
    BY <1>1
  <2>2. CASE m.ptr[p] = 0
    <3>1. \A b \in F : b <= p
      BY <1>2, <2>1, <2>2
    <3> QED
      BY <3>1
  <2>3. CASE m.ptr[p] # 0
    <3>1. bp < m.ptr[p] /\ \A b \in F : b <= p \/ b >= m.ptr[p]
      BY <1>2, <2>1, <2>3
    <3>2. ASSUME NEW b \in F, b >= m.ptr[p]
          PROVE  b > bp
      <4>1. b \in Nat
        BY <1>1
      <4> QED
        BY <1>2, <2>1, <3>1, <3>2, <4>1
    <3> QED
      BY <2>3, <3>1, <3>2
  <2> QED
    BY <2>2, <2>3
<1>4. bp \notin F
  BY <1>1, <1>2, <1>3
<1>5. G \in SUBSET Addresses /\ 0 \in G /\ n.freep \in G
  BY <1>1, UnitsFacts
<1>6. ASSUME NEW a \in G
      PROVE  /\ n.ptr[a] \in G
             /\ \/ n.ptr[a] > a /\ \A b \in G : b <= a \/ b >= n.ptr[a]
                \/ n.ptr[a] = 0 /\ \A b \in G : b <= a
  <2>1. CASE a = p
    <3>1. n.ptr[a] = bp
      BY <2>1
    <3>2. \A b \in G : b <= a \/ b >= bp
      BY <1>1, <1>2, <1>3, <2>1
    <3> QED
      BY <1>2, <2>1, <3>1, <3>2
  <2>2. CASE a = bp
    <3>1. n.ptr[a] = m.ptr[p] /\ m.ptr[p] \in G
      BY <1>1, <2>2
    <3>2. CASE m.ptr[p] = 0
      <4>1. \A b \in G : b <= a
        BY <1>1, <1>2, <1>3, <2>2, <3>2
      <4> QED
        BY <3>1, <3>2, <4>1
    <3>3. CASE m.ptr[p] # 0
      <4>1. m.ptr[p] > a
        BY <1>2, <2>2, <3>3
      <4>2. \A b \in G : b <= a \/ b >= m.ptr[p]
        BY <1>1, <1>2, <1>3, <2>2
      <4> QED
        BY <3>1, <4>1, <4>2
    <3> QED
      BY <3>2, <3>3
  <2>3. CASE a \in F /\ a # p
    <3>1. n.ptr[a] = m.ptr[a] /\ m.ptr[a] \in F /\ a # bp
      BY <1>1, <1>4, <2>3
    <3>2. CASE m.ptr[a] > a /\ \A b \in F : b <= a \/ b >= m.ptr[a]
      <4>1. bp < a \/ bp > m.ptr[a]
        <5>1. p <= a \/ p >= m.ptr[a]
          BY <3>2
        <5>2. CASE p >= m.ptr[a]
          BY <1>1, <1>2, <2>3, <5>2
        <5>3. CASE p <= a
          BY <1>1, <1>2, <1>3, <2>3, <5>3
        <5> QED
          BY <5>1, <5>2, <5>3
      <4>2. \A b \in G : b <= a \/ b >= m.ptr[a]
        <5>1. bp <= a \/ bp >= m.ptr[a]
          BY <1>1, <1>2, <2>3, <4>1
        <5> QED
          BY <3>2, <5>1
      <4> QED
        BY <3>1, <3>2, <4>2
    <3>3. CASE m.ptr[a] = 0 /\ \A b \in F : b <= a
      <4>1. p < a
        BY <1>1, <2>3, <3>3
      <4>2. a > bp
        BY <1>1, <1>2, <1>3, <2>3, <4>1
      <4>3. \A b \in G : b <= a
        BY <1>1, <1>2, <2>3, <3>3, <4>2
      <4> QED
        BY <3>1, <3>3, <4>3
    <3> QED
      BY <1>1, <2>3, <3>2, <3>3
  <2> QED
    BY <2>1, <2>2, <2>3
<1>7. n.size[0] = 0
  BY <1>1
<1>8. ASSUME NEW a \in G \ {0}
      PROVE  /\ n.size[a] >= 1 /\ a + n.size[a] <= n.brk
             /\ \A b \in G : a < b => a + n.size[a] < b
  <2>1. CASE a = bp
    <3>1. n.size[a] = s
      BY <2>1
    <3>2. \A b \in F : a < b => a + s < b
      <4> SUFFICES ASSUME NEW b \in F, a < b PROVE a + s < b
        OBVIOUS
      <4>1. b >= m.ptr[p] /\ m.ptr[p] # 0 /\ m.ptr[p] \in Nat /\ b \in Nat
        BY <1>1, <1>2, <1>3, <2>1
      <4> QED
        BY <1>2, <2>1, <4>1
    <3> QED
      BY <1>1, <1>2, <2>1, <3>1, <3>2
  <2>2. CASE a \in F
    <3>1. a # bp /\ n.size[a] = m.size[a] /\ a \in Nat /\ m.size[a] \in Nat
          /\ m.size[a] >= 1 /\ a + m.size[a] <= m.brk
          /\ \A b \in F : a < b => a + m.size[a] < b
      BY <1>1, <1>4, <2>2
    <3>2. a < bp => a + m.size[a] < bp
      <4>1. a < bp => a <= p
        BY <1>1, <1>2, <1>3, <2>2
      <4>2. CASE a = p
        BY <4>2
      <4>3. CASE a < p
        <5>1. a + m.size[a] < p
          BY <3>1, <4>3
        <5> QED
          BY <1>2, <3>1, <5>1
      <4> QED
        BY <1>2, <3>1, <4>1, <4>2, <4>3
    <3> QED
      BY <3>1, <3>2
  <2> QED
    BY <2>1, <2>2
<1>9. Apart(n, G)
  BY <1>7, <1>8 DEF Apart
<1> QED
  BY <1>5, <1>6, <1>9 DEF Heap, Linked

LEMMA Grow ==
  ASSUME NEW m, NEW F, Heap(m, F), NEW p \in F, p # 0,
         NEW s \in Nat, p + m.size[p] + s <= m.brk, m.ptr[p] # 0 => p + m.size[p] + s < m.ptr[p],
         NEW n \in Memories, n.freep = p, n.brk = m.brk,
         \A a \in F : n.ptr[a] = m.ptr[a] /\ n.size[a] = IF a = p THEN m.size[p] + s ELSE m.size[a]
  PROVE  Heap(n, F)
<1>1. /\ m.freep \in F /\ m.brk \in Nat /\ F \in SUBSET Addresses /\ 0 \in F
      /\ \A a \in F : /\ a \in Nat /\ a <= Units /\ m.ptr[a] \in F /\ m.ptr[a] \in Nat
                      /\ m.size[a] \in Nat
                      /\ \/ m.ptr[a] > a /\ \A b \in F : b <= a \/ b >= m.ptr[a]
                         \/ m.ptr[a] = 0 /\ \A b \in F : b <= a
      /\ m.size[0] = 0
      /\ \A a \in F \ {0} : /\ m.size[a] >= 1 /\ a + m.size[a] <= m.brk
                            /\ \A b \in F : a < b => a + m.size[a] < b
  BY HeapFacts
<1>2. Linked(n, F)
  BY <1>1 DEF Linked
<1>3. ASSUME NEW a \in F \ {0}
      PROVE  /\ n.size[a] >= 1 /\ a + n.size[a] <= n.brk
             /\ \A b \in F : a < b => a + n.size[a] < b
  <2>1. CASE a = p
    <3>1. n.size[a] = m.size[p] + s /\ m.size[p] >= 1 /\ m.size[p] \in Nat /\ p \in Nat
      BY <1>1, <2>1
    <3>2. \A b \in F : p < b => b >= m.ptr[p] /\ m.ptr[p] # 0 /\ b \in Nat /\ m.ptr[p] \in Nat
      BY <1>1
    <3> QED
      BY <2>1, <3>1, <3>2
  <2>2. CASE a # p
    BY <1>1, <2>2
  <2> QED
    BY <2>1, <2>2
<1>4. Apart(n, F)
  BY <1>1, <1>3 DEF Apart
<1> QED
  BY <1>2, <1>4 DEF Heap

LEMMA MemoryParts ==
  ASSUME NEW m \in Memories
  PROVE  /\ m.ptr \in [Addresses -> Addresses] /\ m.size \in [Addresses -> Nat]
         /\ m.freep \in 0 .. Units + 1 /\ m.brk \in 1 .. Units + 1
         /\ m = [ptr |-> m.ptr, size |-> m.size, freep |-> m.freep, brk |-> m.brk]
BY DEF Memories

(* A block gets a size and a link, or freep moves.                         *)
BlockSet(m, a, z, x) == [m EXCEPT !.size[a] = z, !.ptr[a] = x]
FreepSet(m, f) == [m EXCEPT !.freep = f]

LEMMA BlockSetFacts ==
  ASSUME NEW m \in Memories, NEW a \in Addresses, NEW x \in Addresses, NEW z \in Nat,
         NEW u, u = BlockSet(m, a, z, x)
  PROVE  /\ u \in Memories /\ u.freep = m.freep /\ u.brk = m.brk
         /\ u.ptr = [m.ptr EXCEPT ![a] = x] /\ u.size = [m.size EXCEPT ![a] = z]
<1>1. PICK p, s, f, b : m = [ptr |-> p, size |-> s, freep |-> f, brk |-> b]
                        /\ p = m.ptr /\ s = m.size /\ f = m.freep /\ b = m.brk
  BY MemoryParts
<1>2. u = [ptr |-> [p EXCEPT ![a] = x], size |-> [s EXCEPT ![a] = z], freep |-> f, brk |-> b]
  BY <1>1 DEF BlockSet
<1>3. PICK p2, s2 : p2 = [p EXCEPT ![a] = x] /\ s2 = [s EXCEPT ![a] = z]
  OBVIOUS
<1>4. p2 \in [Addresses -> Addresses] /\ s2 \in [Addresses -> Nat]
  BY <1>1, <1>3, MemoryParts
<1>5. f \in 0 .. Units + 1 /\ b \in 1 .. Units + 1
  BY <1>1, MemoryParts
<1>6. u = [ptr |-> p2, size |-> s2, freep |-> f, brk |-> b]
  BY <1>2, <1>3
<1>7. u \in Memories /\ u.ptr = p2 /\ u.size = s2 /\ u.freep = f /\ u.brk = b
  BY <1>4, <1>5, <1>6 DEF Memories
<1> QED
  BY <1>1, <1>3, <1>7

LEMMA FreepSetFacts ==
  ASSUME NEW m \in Memories, NEW f \in 0 .. Units + 1, NEW u, u = FreepSet(m, f)
  PROVE  u \in Memories /\ u.freep = f /\ u.brk = m.brk /\ u.ptr = m.ptr /\ u.size = m.size
<1>1. PICK p, s, g, b : m = [ptr |-> p, size |-> s, freep |-> g, brk |-> b]
                        /\ p = m.ptr /\ s = m.size /\ g = m.freep /\ b = m.brk
  BY MemoryParts
<1>2. u = [ptr |-> p, size |-> s, freep |-> f, brk |-> b]
  BY <1>1 DEF FreepSet
<1>3. /\ p \in [Addresses -> Addresses] /\ s \in [Addresses -> Nat] /\ b \in 1 .. Units + 1
  BY <1>1, MemoryParts
<1>4. u \in Memories /\ u.ptr = p /\ u.size = s /\ u.freep = f /\ u.brk = b
  BY <1>2, <1>3 DEF Memories
<1> QED
  BY <1>1, <1>4

LEMMA JoinUpperFacts ==
  ASSUME NEW m \in Memories, NEW bp \in Addresses, NEW p \in Addresses,
         NEW u, u = JoinUpper(m, bp, p)
  PROVE  /\ u \in Memories /\ u.freep = m.freep /\ u.brk = m.brk
         /\ u.ptr = [m.ptr EXCEPT ![bp] = IF bp + m.size[bp] = m.ptr[p] THEN m.ptr[m.ptr[p]] ELSE m.ptr[p]]
         /\ u.size = [m.size EXCEPT ![bp] =
                        IF bp + m.size[bp] = m.ptr[p] THEN m.size[bp] + m.size[m.ptr[p]] ELSE m.size[bp]]
<1>1. /\ m.ptr \in [Addresses -> Addresses] /\ m.size \in [Addresses -> Nat]
      /\ m.ptr[p] \in Addresses /\ m.ptr[m.ptr[p]] \in Addresses
      /\ m.size[bp] \in Nat /\ m.size[m.ptr[p]] \in Nat
  BY DEF Memories
<1>2. CASE bp + m.size[bp] = m.ptr[p]
  <2>1. PICK s \in Nat, x \in Addresses : s = m.size[bp] + m.size[m.ptr[p]] /\ x = m.ptr[m.ptr[p]]
    BY <1>1
  <2>2. u = BlockSet(m, bp, s, x)
    BY <1>2, <2>1 DEF JoinUpper, BlockSet
  <2>3. /\ u \in Memories /\ u.freep = m.freep /\ u.brk = m.brk
        /\ u.ptr = [m.ptr EXCEPT ![bp] = x] /\ u.size = [m.size EXCEPT ![bp] = s]
    BY <2>1, <2>2, BlockSetFacts
  <2> QED
    BY <1>2, <2>1, <2>3
<1>3. CASE bp + m.size[bp] # m.ptr[p]
  <2>1. PICK x \in Addresses : x = m.ptr[p]
    BY <1>1
  <2>2. u = [m EXCEPT !.ptr[bp] = x]
    BY <1>3, <2>1 DEF JoinUpper
  <2>3. /\ u \in Memories /\ u.freep = m.freep /\ u.brk = m.brk
        /\ u.ptr = [m.ptr EXCEPT ![bp] = x] /\ u.size = m.size
    BY <1>1, <2>2 DEF Memories
  <2>4. m.size = [m.size EXCEPT ![bp] = m.size[bp]]
    BY <1>1
  <2> QED
    BY <1>3, <2>1, <2>3, <2>4
<1> QED
  BY <1>2, <1>3

Placed(m, bp, p) == [JoinLower(m, bp, p) EXCEPT !.freep = p]

LEMMA JoinLowerFacts ==
  ASSUME NEW m \in Memories, NEW bp \in Addresses, NEW p \in Addresses,
         NEW u, u = Placed(m, bp, p)
  PROVE  /\ u \in Memories /\ u.freep = p /\ u.brk = m.brk
         /\ u.ptr = [m.ptr EXCEPT ![p] = IF p + m.size[p] = bp THEN m.ptr[bp] ELSE bp]
         /\ u.size = [m.size EXCEPT ![p] =
                        IF p + m.size[p] = bp THEN m.size[p] + m.size[bp] ELSE m.size[p]]
<1>1. /\ m.ptr \in [Addresses -> Addresses] /\ m.size \in [Addresses -> Nat]
      /\ m.ptr[bp] \in Addresses /\ m.size[bp] \in Nat /\ m.size[p] \in Nat
  BY DEF Memories
<1>2. p \in 0 .. Units + 1
  BY UnitsFacts
<1>3. CASE p + m.size[p] = bp
  <2>1. PICK s \in Nat, x \in Addresses : s = m.size[p] + m.size[bp] /\ x = m.ptr[bp]
    BY <1>1
  <2>2. PICK l : l = BlockSet(m, p, s, x)
    OBVIOUS
  <2>4. u = FreepSet(l, p)
    BY <1>3, <2>1, <2>2 DEF JoinLower, BlockSet, FreepSet, Placed
  <2>5. /\ l \in Memories /\ l.brk = m.brk
        /\ l.ptr = [m.ptr EXCEPT ![p] = x] /\ l.size = [m.size EXCEPT ![p] = s]
    BY <2>1, <2>2, BlockSetFacts
  <2>3. /\ u \in Memories /\ u.freep = p /\ u.brk = m.brk
        /\ u.ptr = [m.ptr EXCEPT ![p] = x] /\ u.size = [m.size EXCEPT ![p] = s]
    BY <1>2, <2>4, <2>5, FreepSetFacts
  <2> QED
    BY <1>3, <2>1, <2>3
<1>4. CASE p + m.size[p] # bp
  <2>2. PICK l : l = [m EXCEPT !.ptr[p] = bp]
    OBVIOUS
  <2>5. u = FreepSet(l, p)
    BY <1>4, <2>2 DEF JoinLower, FreepSet, Placed
  <2>6. /\ l \in Memories /\ l.brk = m.brk
        /\ l.ptr = [m.ptr EXCEPT ![p] = bp] /\ l.size = m.size
    BY <1>1, <2>2 DEF Memories
  <2>3. /\ u \in Memories /\ u.freep = p /\ u.brk = m.brk
        /\ u.ptr = [m.ptr EXCEPT ![p] = bp] /\ u.size = m.size
    BY <1>2, <2>5, <2>6, FreepSetFacts
  <2>4. m.size = [m.size EXCEPT ![p] = m.size[p]]
    BY <1>1
  <2> QED
    BY <1>4, <2>3, <2>4
<1> QED
  BY <1>3, <1>4

(* Where a block goes that is not in the list.                             *)
LEMMA BehindFacts ==
  ASSUME NEW m, NEW F, Heap(m, F), NEW bp \in 1 .. Units, bp \notin F, NEW p, p = Behind(m, bp)
  PROVE  p \in F /\ Before(m, p, bp)
<1>1. /\ m \in Memories /\ 0 \in F
      /\ \A a \in F : /\ a \in Nat /\ a <= Units /\ m.ptr[a] \in F /\ m.ptr[a] \in Nat
                      /\ \/ m.ptr[a] > a /\ \A b \in F : b <= a \/ b >= m.ptr[a]
                         \/ m.ptr[a] = 0 /\ \A b \in F : b <= a
  BY HeapFacts
<1>2. Listed(m) = F /\ bp \in Nat /\ bp >= 1
  BY <1>1, ListedIs, UnitsFacts DEF Heap
<1> DEFINE Fit(x) == \/ x < bp /\ bp < m.ptr[x]
                     \/ x >= m.ptr[x] /\ (bp > x \/ bp < m.ptr[x])
<1>3. \E x \in F : Fit(x)
  <2> DEFINE D == {d \in Nat : \E x \in F : x < bp /\ d = bp - x}
  <2>1. D \in SUBSET Nat /\ bp \in D
    BY <1>1, <1>2
  <2>2. PICK d \in D : \A e \in D : d <= e
    <3> HIDE DEF D
    <3> QED
      BY <2>1, Least
  <2>3. PICK x \in F : x < bp /\ d = bp - x
    BY <2>2
  <2>4. ~(x < m.ptr[x] /\ m.ptr[x] < bp)
    <3>1. SUFFICES ASSUME x < m.ptr[x], m.ptr[x] < bp PROVE FALSE
      OBVIOUS
    <3>2. bp - m.ptr[x] \in D
      BY <1>1, <1>2, <2>3, <3>1
    <3>3. d <= bp - m.ptr[x]
      BY <2>2, <3>2
    <3> QED
      BY <1>1, <1>2, <2>3, <3>1, <3>3
  <2>5. CASE x < m.ptr[x] /\ m.ptr[x] # bp
    BY <1>1, <1>2, <2>3, <2>4, <2>5
  <2>6. CASE x >= m.ptr[x]
    BY <1>1, <1>2, <2>3, <2>6
  <2>7. m.ptr[x] # bp
    BY <1>1, <2>3
  <2> QED
    BY <1>1, <2>3, <2>5, <2>6, <2>7
<1>4. p = CHOOSE x \in F : Fit(x)
  BY <1>2 DEF Behind
<1>5. p \in F /\ Fit(p)
  <2> HIDE DEF Fit
  <2> QED
    BY <1>3, <1>4
<1> QED
  BY <1>1, <1>2, <1>5 DEF Before

(* my_free: a block that does not overlap the list's goes into it, and     *)
(* nothing else changes.                                                   *)
LEMMA FreeFacts ==
  ASSUME NEW m, NEW F, Heap(m, F), NEW bp \in 1 .. Units, m.size[bp] >= 1, bp + m.size[bp] <= m.brk,
         \A x \in Nat : Within(x, bp, m.size[bp]) => ~InFree(m, F, x), ~Implausible(m.size[bp]),
         NEW n, n = my_free(m, bp)
  PROVE  \E G : /\ Heap(n, G) /\ n.brk = m.brk
                /\ \A x \in Nat : InFree(n, G, x) <=> InFree(m, F, x) \/ Within(x, bp, m.size[bp])
                /\ \A a \in Addresses \ (F \cup {bp}) : n.size[a] = m.size[a]
<1> DEFINE z == m.size[bp]
<1>1. /\ m \in Memories /\ m.ptr \in [Addresses -> Addresses] /\ m.size \in [Addresses -> Nat]
      /\ m.freep \in F /\ m.brk \in Nat /\ m.brk <= Units + 1 /\ F \in SUBSET Addresses /\ 0 \in F
      /\ \A a \in F : /\ a \in Nat /\ a <= Units /\ m.ptr[a] \in F /\ m.ptr[a] \in Nat
                      /\ m.size[a] \in Nat
                      /\ \/ m.ptr[a] > a /\ \A b \in F : b <= a \/ b >= m.ptr[a]
                         \/ m.ptr[a] = 0 /\ \A b \in F : b <= a
      /\ m.size[0] = 0
      /\ \A a \in F \ {0} : /\ m.size[a] >= 1 /\ a + m.size[a] <= m.brk
                            /\ \A b \in F : a < b => a + m.size[a] < b
  BY HeapFacts
<1>2. bp \in Addresses /\ bp \in Nat /\ bp >= 1 /\ z \in Nat /\ z >= 1 /\ bp # 0
  <2>1. bp \in Addresses /\ bp \in Nat /\ bp >= 1 /\ bp # 0
    BY UnitsFacts
  <2>2. z \in Nat
    BY <1>1, <2>1
  <2> QED
    BY <2>1, <2>2
<1>3. ASSUME NEW a \in F \ {0}
      PROVE  a + m.size[a] <= bp \/ bp + z <= a
  <2>1. a \in Nat /\ m.size[a] \in Nat /\ m.size[a] >= 1
    BY <1>1
  <2>2. CASE a <= bp
    <3>1. Within(bp, bp, z)
      BY <1>2 DEF Within
    <3>2. ~Within(bp, a, m.size[a])
      BY <1>2, <3>1 DEF InFree
    <3> QED
      BY <1>2, <2>1, <2>2, <3>2 DEF Within
  <2>3. CASE a > bp
    <3>1. Within(a, a, m.size[a])
      BY <2>1 DEF Within
    <3>2. ~Within(a, bp, z)
      BY <2>1, <3>1 DEF InFree
    <3> QED
      BY <1>2, <2>1, <2>3, <3>2 DEF Within
  <2> QED
    BY <1>2, <2>1, <2>2, <2>3
<1>4. bp \notin F
  BY <1>1, <1>2, <1>3
<1>5. Listed(m) = F
  BY ListedIs DEF Heap
<1>6. PICK p : p = Behind(m, bp)
  OBVIOUS
<1>7. p \in F /\ Before(m, p, bp) /\ p \in Addresses /\ p \in Nat
  BY <1>1, <1>4, <1>6, BehindFacts
<1>8. PICK u : u = JoinUpper(m, bp, p)
  OBVIOUS
<1>9. n = Placed(u, bp, p)
  BY <1>4, <1>5, <1>6, <1>8 DEF my_free, AlreadyFree, Placed
<1> DEFINE q == m.ptr[p]
           A == bp + z = q
           C == p + m.size[p] = bp
           s == IF A THEN z + m.size[q] ELSE z
           G == IF A THEN F \ {q} ELSE F
           h == IF A THEN [m EXCEPT !.ptr[p] = m.ptr[q], !.freep = p] ELSE [m EXCEPT !.freep = p]
<1>10. /\ q \in F /\ q \in Nat /\ q \in Addresses /\ m.ptr[q] \in Addresses /\ m.size[q] \in Nat
       /\ m.ptr[q] \in Nat /\ p < bp /\ (q = 0 \/ bp < q) /\ m.size[p] \in Nat
  BY <1>1, <1>7 DEF Before
<1>11. A => /\ q # 0 /\ q > bp /\ p # q /\ m.size[q] >= 1 /\ q + m.size[q] <= m.brk
            /\ m.ptr[q] # 0 => q < m.ptr[q] /\ q + m.size[q] < m.ptr[q]
  <2> SUFFICES ASSUME A PROVE /\ q # 0 /\ q > bp /\ p # q /\ m.size[q] >= 1 /\ q + m.size[q] <= m.brk
                              /\ m.ptr[q] # 0 => q < m.ptr[q] /\ q + m.size[q] < m.ptr[q]
    OBVIOUS
  <2>1. q # 0 /\ q > bp /\ p # q
    BY <1>2, <1>7, <1>10
  <2>2. m.ptr[q] # 0 => m.ptr[q] \in F /\ q < m.ptr[q]
    BY <1>1, <1>10
  <2>3. m.size[q] >= 1 /\ q + m.size[q] <= m.brk /\ \A b \in F : q < b => q + m.size[q] < b
    BY <1>1, <1>10, <2>1
  <2> QED
    BY <2>1, <2>2, <2>3
<1>12. /\ u \in Memories /\ u.freep = m.freep /\ u.brk = m.brk
       /\ u.ptr = [m.ptr EXCEPT ![bp] = IF A THEN m.ptr[q] ELSE q]
       /\ u.size = [m.size EXCEPT ![bp] = s]
  <2>1. m \in Memories /\ bp \in Addresses /\ p \in Addresses
    BY <1>1, <1>2, <1>7
  <2> HIDE DEF z, q, A, s
  <2>2. /\ u \in Memories /\ u.freep = m.freep /\ u.brk = m.brk
        /\ u.ptr = [m.ptr EXCEPT ![bp] = IF bp + m.size[bp] = m.ptr[p] THEN m.ptr[m.ptr[p]] ELSE m.ptr[p]]
        /\ u.size = [m.size EXCEPT ![bp] =
                       IF bp + m.size[bp] = m.ptr[p] THEN m.size[bp] + m.size[m.ptr[p]] ELSE m.size[bp]]
    BY <1>8, <2>1, JoinUpperFacts
  <2>3. /\ (IF A THEN m.ptr[q] ELSE q) = IF bp + m.size[bp] = m.ptr[p] THEN m.ptr[m.ptr[p]] ELSE m.ptr[p]
        /\ s = IF bp + m.size[bp] = m.ptr[p] THEN m.size[bp] + m.size[m.ptr[p]] ELSE m.size[bp]
    BY DEF z, q, A, s
  <2> QED
    BY <2>2, <2>3
<1>13. /\ n \in Memories /\ n.freep = p /\ n.brk = u.brk
       /\ n.ptr = [u.ptr EXCEPT ![p] = IF p + u.size[p] = bp THEN u.ptr[bp] ELSE bp]
       /\ n.size = [u.size EXCEPT ![p] = IF p + u.size[p] = bp THEN u.size[p] + u.size[bp] ELSE u.size[p]]
  <2>1. u \in Memories /\ bp \in Addresses /\ p \in Addresses
    BY <1>2, <1>7, <1>12
  <2> QED
    BY <1>9, <2>1, JoinLowerFacts
<1>14. p # bp /\ s \in Nat /\ s >= 1
  BY <1>2, <1>7, <1>10
<1> HIDE DEF z, s
<1>15. /\ n.brk = m.brk /\ n.freep = p
       /\ n.ptr[bp] = (IF A THEN m.ptr[q] ELSE q) /\ n.size[bp] = s
       /\ n.ptr[p] = (IF C THEN n.ptr[bp] ELSE bp)
       /\ n.size[p] = (IF C THEN m.size[p] + s ELSE m.size[p])
       /\ \A a \in Addresses \ {bp, p} : n.ptr[a] = m.ptr[a] /\ n.size[a] = m.size[a]
  <2>1. PICK y : y = IF A THEN m.ptr[q] ELSE q
    OBVIOUS
  <2>2. /\ u.ptr = [m.ptr EXCEPT ![bp] = y] /\ u.size = [m.size EXCEPT ![bp] = s]
    BY <1>12, <2>1
  <2>3. /\ u.ptr[bp] = y /\ u.size[bp] = s /\ u.size[p] = m.size[p]
        /\ u.ptr \in [Addresses -> Addresses] /\ u.size \in [Addresses -> Nat]
        /\ \A a \in Addresses \ {bp} : u.ptr[a] = m.ptr[a] /\ u.size[a] = m.size[a]
    <3>1. u.ptr \in [Addresses -> Addresses] /\ u.size \in [Addresses -> Nat]
      BY <1>12 DEF Memories
    <3> QED
      BY <1>1, <1>2, <1>7, <1>14, <2>2, <3>1
  <2>4. PICK w, v : w = (IF C THEN y ELSE bp) /\ v = IF C THEN m.size[p] + s ELSE m.size[p]
    OBVIOUS
  <2>5. n.ptr = [u.ptr EXCEPT ![p] = w] /\ n.size = [u.size EXCEPT ![p] = v]
    BY <1>13, <2>3, <2>4
  <2> QED
    BY <1>2, <1>7, <1>12, <1>13, <1>14, <2>1, <2>3, <2>4, <2>5
<1>16. /\ h \in Memories /\ h.freep = p /\ h.brk = m.brk /\ h.size = m.size
       /\ h.ptr[p] = (IF A THEN m.ptr[q] ELSE q)
       /\ \A a \in Addresses \ {p} : h.ptr[a] = m.ptr[a]
  <2>0. p \in 0 .. Units + 1
    BY <1>7, UnitsFacts
  <2>1. CASE A
    <3>1. PICK y \in Addresses : y = m.ptr[q]
      BY <1>10
    <3>2. h = [m EXCEPT !.ptr[p] = y, !.freep = p]
      BY <2>1, <3>1
    <3>3. /\ h \in Memories /\ h.freep = p /\ h.brk = m.brk /\ h.size = m.size
          /\ h.ptr = [m.ptr EXCEPT ![p] = y]
      BY <1>1, <1>7, <2>0, <3>2 DEF Memories
    <3> QED
      BY <1>1, <1>7, <2>1, <3>1, <3>3
  <2>2. CASE ~A
    <3>1. h = [m EXCEPT !.freep = p]
      BY <2>2
    <3>2. /\ h \in Memories /\ h.freep = p /\ h.brk = m.brk /\ h.size = m.size /\ h.ptr = m.ptr
      BY <1>1, <2>0, <3>1 DEF Memories
    <3> QED
      BY <2>2, <3>2
  <2> QED
    BY <2>1, <2>2
<1> HIDE DEF h
<1>17. Heap(h, G) /\ p \in G /\ bp \notin G /\ G \subseteq F
  <2>1. CASE A
    <3>1. G = F \ {q} /\ p \in G
      BY <1>7, <1>11, <2>1
    <3>2. \A a \in F \ {q} : /\ h.ptr[a] = (IF a = p THEN m.ptr[q] ELSE m.ptr[a])
                             /\ h.size[a] = m.size[a]
      BY <1>1, <1>16, <2>1
    <3>3. Heap(h, F \ {q})
      <4>1. q # 0 /\ q = m.ptr[p] /\ h \in Memories /\ h.freep \in F \ {q} /\ h.brk = m.brk /\ p \in F
        BY <1>7, <1>11, <1>16, <2>1, <3>1
      <4> HIDE DEF q
      <4> QED
        BY <3>2, <4>1, Unlink
    <3> QED
      BY <1>4, <3>1, <3>3
  <2>2. CASE ~A
    <3>1. \A a \in F : h.ptr[a] = m.ptr[a] /\ h.size[a] = m.size[a]
      BY <1>1, <1>7, <1>16, <2>2
    <3>2. Linked(h, F)
      BY <1>1, <1>7, <1>16, <3>1 DEF Linked
    <3>3. Apart(h, F)
      BY <1>1, <1>16 DEF Apart
    <3> QED
      BY <1>4, <1>7, <1>16, <2>2, <3>2, <3>3 DEF Heap
  <2> QED
    BY <2>1, <2>2
<1>18. /\ Before(h, p, bp) /\ bp + s <= h.brk
       /\ h.ptr[p] # 0 => bp + s < h.ptr[p]
  <2>1. CASE A
    <3>1. s = z + m.size[q] /\ bp + s = q + m.size[q]
      BY <1>2, <1>10, <2>1 DEF s
    <3> QED
      BY <1>2, <1>10, <1>11, <1>16, <2>1, <3>1 DEF Before
  <2>2. CASE ~A
    <3>1. s = z
      BY <2>2 DEF s
    <3>2. q # 0 => bp + z < q
      BY <1>2, <1>3, <1>10, <2>2
    <3> QED
      BY <1>2, <1>10, <1>16, <2>2, <3>1, <3>2 DEF Before, z
  <2> QED
    BY <2>1, <2>2
<1>19. (p # 0 => p + m.size[p] <= bp) /\ (C => p # 0)
  <2>1. p # 0 => p + m.size[p] <= bp
    BY <1>2, <1>3, <1>7, <1>10
  <2> QED
    BY <1>1, <1>2, <2>1
<1>20. ASSUME NEW x \in Nat
       PROVE  InFree(m, F, x) \/ Within(x, bp, z) <=> InFree(m, G, x) \/ Within(x, bp, s)
  <2>1. CASE A
    <3>1. s = z + m.size[q] /\ q = bp + z /\ G = F \ {q} /\ q # 0
      BY <1>11, <2>1 DEF s
    <3>2. Within(x, bp, s) <=> Within(x, bp, z) \/ Within(x, q, m.size[q])
      BY <1>2, <1>10, <3>1 DEF Within
    <3>3. InFree(m, F, x) <=> InFree(m, G, x) \/ Within(x, q, m.size[q])
      BY <1>10, <3>1 DEF InFree
    <3> QED
      BY <3>2, <3>3
  <2>2. CASE ~A
    BY <2>2 DEF s
  <2> QED
    BY <2>1, <2>2
<1> HIDE DEF G, q, A
<1>21. CASE C
  <2>1. \A a \in G : /\ n.ptr[a] = h.ptr[a]
                     /\ n.size[a] = IF a = p THEN h.size[p] + s ELSE h.size[a]
    BY <1>1, <1>15, <1>16, <1>17, <1>21
  <2>2. p + h.size[p] + s <= h.brk /\ (h.ptr[p] # 0 => p + h.size[p] + s < h.ptr[p])
    BY <1>16, <1>18, <1>21
  <2>3. Heap(n, G)
    <3>1. /\ Heap(h, G) /\ p \in G /\ p # 0 /\ s \in Nat
          /\ n \in Memories /\ n.freep = p /\ n.brk = h.brk
      BY <1>13, <1>14, <1>15, <1>16, <1>17, <1>19, <1>21
    <3> HIDE DEF C
    <3> QED
      BY <2>1, <2>2, <3>1, Grow
  <2>4. ASSUME NEW x \in Nat
        PROVE  InFree(n, G, x) <=> InFree(m, G, x) \/ Within(x, bp, s)
    <3>1. n.size[p] = m.size[p] + s /\ \A a \in G \ {p} : n.size[a] = m.size[a]
      BY <1>16, <1>17, <2>1
    <3>2. Within(x, p, n.size[p]) <=> Within(x, p, m.size[p]) \/ Within(x, bp, s)
      BY <1>2, <1>7, <1>10, <1>14, <1>21, <3>1 DEF Within
    <3> QED
      BY <1>17, <1>19, <1>21, <3>1, <3>2 DEF InFree
  <2>5. \A a \in Addresses \ (F \cup {bp}) : n.size[a] = m.size[a]
    BY <1>7, <1>15
  <2> QED
    BY <1>15, <1>20, <2>3, <2>4, <2>5 DEF z
<1>22. CASE ~C
  <2>1. \A a \in G : /\ n.ptr[a] = (IF a = p THEN bp ELSE h.ptr[a])
                     /\ n.size[a] = h.size[a]
    BY <1>1, <1>15, <1>16, <1>17, <1>22
  <2>2. p # 0 => p + h.size[p] < bp
    BY <1>2, <1>7, <1>10, <1>16, <1>19, <1>22
  <2>3. n.ptr[bp] = h.ptr[p] /\ n.size[bp] = s
    BY <1>15, <1>16
  <2>4. Heap(n, G \cup {bp})
    <3>1. /\ Heap(h, G) /\ p \in G /\ s \in Nat /\ s >= 1 /\ n \in Memories /\ n.freep = p /\ n.brk = h.brk
          /\ Before(h, p, bp) /\ bp + s <= h.brk /\ (h.ptr[p] # 0 => bp + s < h.ptr[p])
      BY <1>13, <1>14, <1>15, <1>16, <1>17, <1>18
    <3> HIDE DEF C
    <3> QED
      BY <2>1, <2>2, <2>3, <3>1, Insert
  <2>5. ASSUME NEW x \in Nat
        PROVE  InFree(n, G \cup {bp}, x) <=> InFree(m, G, x) \/ Within(x, bp, s)
    <3>1. n.size[bp] = s /\ \A a \in G : n.size[a] = m.size[a]
      BY <1>16, <2>1, <2>3
    <3> QED
      BY <1>2, <1>17, <3>1 DEF InFree
  <2>6. \A a \in Addresses \ (F \cup {bp}) : n.size[a] = m.size[a]
    BY <1>7, <1>15
  <2> QED
    BY <1>15, <1>20, <2>4, <2>5, <2>6 DEF z
<1> QED
  BY <1>21, <1>22

(* Two free blocks do not touch, so some address is not in the list.       *)
LEMMA ListedBound ==
  ASSUME NEW m, NEW F, Heap(m, F)
  PROVE  Cardinality(F) \in Nat /\ Cardinality(F) <= Units
<1>1. F \in SUBSET Addresses
  BY HeapFacts
<1>2. \E e \in {1, 2} : e \notin F
  <2>1. SUFFICES ASSUME 1 \in F, 2 \in F PROVE FALSE
    OBVIOUS
  <2>2. m.size[1] >= 1 /\ m.size[1] \in Nat /\ 1 + m.size[1] < 2
    BY <2>1, HeapFacts
  <2> QED
    BY <2>2
<1>3. PICK e \in Addresses : e \notin F
  BY <1>2, UnitsFacts
<1>4. IsFiniteSet(Addresses) /\ Cardinality(Addresses) = Units + 1
  <2>1. 0 \in Int /\ Units \in Int /\ ~(0 > Units) /\ Units - 0 + 1 = Units + 1
    BY AllocAssumption
  <2>2. IsFiniteSet(0 .. Units) /\ Cardinality(0 .. Units) = IF 0 > Units THEN 0 ELSE Units - 0 + 1
    BY <2>1, FS_Interval
  <2>3. IsFiniteSet(0 .. Units) /\ Cardinality(0 .. Units) = Units + 1
    BY <2>1, <2>2
  <2> QED
    BY <2>3 DEF Addresses
<1>5. IsFiniteSet(Addresses \ {e}) /\ Cardinality(Addresses \ {e}) = Units
  <2>1. /\ IsFiniteSet(Addresses \ {e})
        /\ Cardinality(Addresses \ {e}) = IF e \in Addresses THEN Cardinality(Addresses) - 1
                                         ELSE Cardinality(Addresses)
    BY <1>4, FS_RemoveElement
  <2>2. Cardinality(Addresses \ {e}) = Cardinality(Addresses) - 1
    BY <1>3, <2>1
  <2>3. Cardinality(Addresses) - 1 = Units
    BY <1>4, AllocAssumption
  <2> QED
    BY <2>1, <2>2, <2>3
<1>6. F \in SUBSET (Addresses \ {e})
  BY <1>1, <1>3
<1>7. IsFiniteSet(F) /\ Cardinality(F) <= Units
  BY <1>5, <1>6, FS_Subset
<1> QED
  BY <1>7, FS_CardinalityType

(* What the search finds.                                                  *)
LEMMA FoundFacts ==
  ASSUME NEW m, NEW F, Heap(m, F), NEW n \in Nat, n >= 1, Fits(m, n) # {},
         NEW k, k = First(m, n)
  PROVE  /\ Ring(m)[k] \in F \ {0} /\ Ring(m)[k - 1] \in F
         /\ m.ptr[Ring(m)[k - 1]] = Ring(m)[k] /\ m.size[Ring(m)[k]] >= n
<1>1. m \in Memories /\ Linked(m, F) /\ m.freep \in Addresses /\ m.size[0] = 0
  <2>1. m \in Memories /\ Linked(m, F)
    BY DEF Heap
  <2>2. m.freep \in F /\ F \in SUBSET Addresses /\ m.size[0] = 0
    BY HeapFacts
  <2>3. m.freep \in Addresses
    BY <2>2
  <2> QED
    BY <2>1, <2>2, <2>3
<1>2. Listed(m) = F /\ \A i \in Addresses : Ring(m)[i] \in F
  BY <1>1, ListedIs
<1>3. Fits(m, n) \in SUBSET Nat
  BY <1>2, ListedBound DEF Fits
<1>4. k \in Fits(m, n)
  <2>1. \E i \in Fits(m, n) : \A j \in Fits(m, n) : i <= j
    BY <1>3, Least
  <2> QED
    BY <2>1 DEF First
<1>5. k \in 1 .. Cardinality(F) /\ m.size[Ring(m)[k]] >= n
  BY <1>2, <1>4 DEF Fits
<1>6. k \in 1 .. Units /\ k \in Addresses /\ k - 1 \in Addresses
  BY <1>5, ListedBound, UnitsFacts
<1>7. Ring(m)[k] = m.ptr[Ring(m)[k - 1]]
  BY <1>1, <1>6, RingFacts
<1>8. Ring(m)[k] # 0
  BY <1>1, <1>5
<1> QED
  BY <1>2, <1>5, <1>6, <1>7, <1>8

LEMMA TakenFacts ==
  ASSUME NEW m, NEW F, Heap(m, F), NEW n \in Nat, n >= 1, Fits(m, n) # {},
         NEW t, t = Taken(m, n)
  PROVE  /\ t.at \in 1 .. Units /\ t.at + n <= m.brk
         /\ \E G : /\ Heap(t.mem, G) /\ t.mem.brk = m.brk /\ t.mem.size[t.at] = n
                   /\ \A x \in Nat : /\ InFree(m, F, x) <=> InFree(t.mem, G, x) \/ Within(x, t.at, n)
                                     /\ ~(InFree(t.mem, G, x) /\ Within(x, t.at, n))
                   /\ \A a \in Addresses \ (F \cup {t.at}) : t.mem.size[a] = m.size[a]
<1>1. /\ m \in Memories /\ m.ptr \in [Addresses -> Addresses] /\ m.size \in [Addresses -> Nat]
      /\ m.freep \in F /\ m.brk \in Nat /\ m.brk <= Units + 1 /\ F \in SUBSET Addresses /\ 0 \in F
      /\ \A a \in F : /\ a \in Nat /\ a <= Units /\ m.ptr[a] \in F /\ m.ptr[a] \in Nat
                      /\ m.size[a] \in Nat
                      /\ \/ m.ptr[a] > a /\ \A b \in F : b <= a \/ b >= m.ptr[a]
                         \/ m.ptr[a] = 0 /\ \A b \in F : b <= a
      /\ m.size[0] = 0
      /\ \A a \in F \ {0} : /\ m.size[a] >= 1 /\ a + m.size[a] <= m.brk
                            /\ \A b \in F : a < b => a + m.size[a] < b
  BY HeapFacts
<1>2. PICK k : k = First(m, n)
  OBVIOUS
<1>3. PICK p, prevp : p = Ring(m)[k] /\ prevp = Ring(m)[k - 1]
  OBVIOUS
<1>4. p \in F /\ p # 0 /\ prevp \in F /\ m.ptr[prevp] = p /\ m.size[p] >= n
  BY <1>2, <1>3, FoundFacts
<1>5. PICK at : at = p + m.size[p] - n
  OBVIOUS
<1>6. /\ p \in Nat /\ p >= 1 /\ p <= Units /\ m.size[p] \in Nat /\ p \in Addresses /\ prevp \in Addresses
      /\ p + m.size[p] <= m.brk /\ prevp \in 0 .. Units + 1 /\ m.ptr[p] \in Addresses
      /\ \A b \in F : p < b => p + m.size[p] < b
  <2>1. p \in Addresses /\ prevp \in Addresses /\ m.ptr[p] \in Addresses
    BY <1>1, <1>4
  <2>2. prevp \in 0 .. Units + 1
    BY <2>1, AllocAssumption DEF Addresses
  <2>3. /\ p \in Nat /\ p <= Units /\ m.size[p] \in Nat /\ p + m.size[p] <= m.brk
        /\ \A b \in F : p < b => p + m.size[p] < b
    BY <1>1, <1>4
  <2>4. p >= 1
    BY <1>4, <2>3
  <2> QED
    BY <2>1, <2>2, <2>3, <2>4
<1>7. at \in 1 .. Units /\ at \in Nat /\ at >= p /\ at + n = p + m.size[p] /\ at + n <= m.brk
  <2>1. at \in Int /\ at >= p /\ at + n = p + m.size[p] /\ at + n <= m.brk
    BY <1>4, <1>5, <1>6
  <2>2. m.brk <= Units + 1 /\ m.brk \in Nat /\ Units \in Nat
    BY <1>1, AllocAssumption
  <2> QED
    BY <1>6, <2>1, <2>2
<1>8. /\ t.at = at
      /\ t.mem = IF m.size[p] = n THEN [m EXCEPT !.ptr[prevp] = m.ptr[p], !.freep = prevp]
                 ELSE [m EXCEPT !.size[p] = @ - n, !.size[at] = n, !.freep = prevp]
  BY <1>2, <1>3, <1>5 DEF Taken
<1>9. PICK u : u = t.mem
  OBVIOUS
<1>10. CASE m.size[p] = n
  <2>1. PICK y \in Addresses : y = m.ptr[p]
    BY <1>6
  <2>2. u = [m EXCEPT !.ptr[prevp] = y, !.freep = prevp]
    BY <1>8, <1>9, <1>10, <2>1
  <2>3. /\ u \in Memories /\ u.freep = prevp /\ u.brk = m.brk /\ u.size = m.size
        /\ u.ptr = [m.ptr EXCEPT ![prevp] = y]
    BY <1>1, <1>6, <2>1, <2>2 DEF Memories
  <2>4. prevp # p
    BY <1>1, <1>4, <1>6
  <2>5. \A a \in F \ {p} : /\ u.ptr[a] = (IF a = prevp THEN m.ptr[p] ELSE m.ptr[a])
                           /\ u.size[a] = m.size[a]
    BY <1>1, <2>1, <2>3
  <2>6. Heap(u, F \ {p})
    <3>1. p = m.ptr[prevp] /\ u \in Memories /\ u.freep \in F \ {p} /\ u.brk = m.brk
      BY <1>4, <2>3, <2>4
    <3> QED
      BY <1>4, <2>5, <3>1, Unlink
  <2>7. at = p
    BY <1>5, <1>6, <1>10
  <2>8. \A x \in Nat : InFree(m, F, x) <=> InFree(u, F \ {p}, x) \/ Within(x, at, n)
    BY <1>4, <1>10, <2>3, <2>7 DEF InFree
  <2>9. ASSUME NEW x \in Nat, Within(x, at, n)
        PROVE  ~InFree(u, F \ {p}, x)
    <3>1. SUFFICES ASSUME NEW a \in F \ {0}, a # p, Within(x, a, m.size[a]) PROVE FALSE
      BY <2>3 DEF InFree
    <3>2. a \in Nat /\ m.size[a] \in Nat /\ (a < p => a + m.size[a] < p) /\ (p < a => p + m.size[p] < a)
      BY <1>1, <1>4, <3>1
    <3> QED
      BY <1>6, <1>10, <2>7, <2>9, <3>1, <3>2 DEF Within
  <2>10. \A a \in Addresses \ (F \cup {at}) : u.size[a] = m.size[a]
    BY <2>3
  <2>11. u.size[at] = n
    BY <1>10, <2>3, <2>7
  <2> QED
    BY <1>7, <1>8, <1>9, <2>3, <2>6, <2>8, <2>9, <2>10, <2>11
<1>11. CASE m.size[p] # n
  <2>1. PICK z \in Nat : z = m.size[p] - n /\ z >= 1
    BY <1>4, <1>6, <1>11
  <2>2. u = [m EXCEPT !.size[p] = z, !.size[at] = n, !.freep = prevp]
    BY <1>8, <1>9, <1>11, <2>1
  <2>3. at \in Addresses /\ at # p /\ at = p + z
    <3>1. at \in Addresses
      BY <1>7, AllocAssumption DEF Addresses
    <3>2. at = p + z
      BY <1>5, <1>6, <2>1
    <3> QED
      BY <1>6, <2>1, <3>1, <3>2
  <2>4. /\ u \in Memories /\ u.freep = prevp /\ u.brk = m.brk /\ u.ptr = m.ptr
        /\ u.size = [[m.size EXCEPT ![p] = z] EXCEPT ![at] = n]
    <3>1. PICK p1, s1, f1, b1 : m = [ptr |-> p1, size |-> s1, freep |-> f1, brk |-> b1]
                                /\ p1 = m.ptr /\ s1 = m.size /\ f1 = m.freep /\ b1 = m.brk
      BY <1>1, MemoryParts
    <3>2. u = [ptr |-> p1, size |-> [[s1 EXCEPT ![p] = z] EXCEPT ![at] = n], freep |-> prevp, brk |-> b1]
      BY <2>2, <3>1
    <3>3. PICK s2 : s2 = [[s1 EXCEPT ![p] = z] EXCEPT ![at] = n]
      OBVIOUS
    <3>4. p1 \in [Addresses -> Addresses] /\ s2 \in [Addresses -> Nat] /\ b1 \in 1 .. Units + 1
      BY <1>1, <2>1, <3>1, <3>3, MemoryParts
    <3>5. u = [ptr |-> p1, size |-> s2, freep |-> prevp, brk |-> b1]
      BY <3>2, <3>3
    <3>6. u \in Memories /\ u.ptr = p1 /\ u.size = s2 /\ u.freep = prevp /\ u.brk = b1
      BY <1>6, <3>4, <3>5 DEF Memories
    <3> QED
      BY <3>1, <3>3, <3>6
  <2>5. u.size[p] = z /\ u.size[at] = n /\ \A a \in Addresses \ {p, at} : u.size[a] = m.size[a]
    BY <1>1, <1>6, <2>3, <2>4
  <2>6. at \notin F
    BY <1>6, <1>7, <2>1, <2>3
  <2>7. Linked(u, F)
    BY <1>1, <1>4, <2>4 DEF Linked
  <2>8. Apart(u, F)
    <3>1. u.size[0] = 0
      BY <1>1, <1>4, <1>7, <2>5
    <3>2. ASSUME NEW a \in F \ {0}
          PROVE  u.size[a] >= 1 /\ a + u.size[a] <= u.brk /\ \A b \in F : a < b => a + u.size[a] < b
      <4>1. CASE a = p
        <5>1. u.size[a] = z /\ p + z <= p + m.size[p]
          BY <1>6, <2>1, <2>5, <4>1
        <5>2. \A b \in F : p < b => p + z < b
          BY <1>1, <1>6, <2>1, <5>1
        <5> QED
          BY <1>1, <1>6, <2>1, <2>4, <4>1, <5>1, <5>2
      <4>2. CASE a # p
        <5>1. u.size[a] = m.size[a]
          BY <1>1, <2>5, <2>6, <4>2
        <5> QED
          BY <1>1, <2>4, <5>1
      <4> QED
        BY <4>1, <4>2
    <3> QED
      BY <3>1, <3>2 DEF Apart
  <2>9. Heap(u, F)
    BY <2>4, <2>7, <2>8 DEF Heap
  <2>10. ASSUME NEW x \in Nat
         PROVE  /\ InFree(m, F, x) <=> InFree(u, F, x) \/ Within(x, at, n)
                /\ ~(InFree(u, F, x) /\ Within(x, at, n))
    <3>1. \A a \in F \ {p} : u.size[a] = m.size[a]
      BY <1>1, <2>5, <2>6
    <3>2. Within(x, p, m.size[p]) <=> Within(x, p, z) \/ Within(x, at, n)
      BY <1>6, <1>7, <2>1, <2>3 DEF Within
    <3>3. ~(Within(x, p, z) /\ Within(x, at, n))
      BY <1>6, <1>7, <2>1, <2>3 DEF Within
    <3>4. ASSUME NEW a \in F \ {0}, a # p, Within(x, a, m.size[a])
          PROVE  ~Within(x, at, n)
      <4>2. a \in Nat /\ m.size[a] \in Nat /\ (a < p => a + m.size[a] < p) /\ (p < a => p + m.size[p] < a)
        BY <1>1, <1>4, <3>4
      <4> QED
        BY <1>6, <1>7, <2>1, <2>3, <3>4, <4>2 DEF Within
    <3>5. InFree(u, F, x) <=> Within(x, p, z) \/ \E a \in F \ {0} : a # p /\ Within(x, a, m.size[a])
      BY <1>4, <2>5, <3>1 DEF InFree
    <3>6. InFree(m, F, x) <=> Within(x, p, m.size[p]) \/ \E a \in F \ {0} : a # p /\ Within(x, a, m.size[a])
      BY <1>4 DEF InFree
    <3> QED
      BY <3>2, <3>3, <3>4, <3>5, <3>6
  <2>11. \A a \in Addresses \ (F \cup {at}) : u.size[a] = m.size[a]
    BY <1>4, <2>5
  <2> QED
    BY <1>7, <1>8, <1>9, <2>4, <2>5, <2>9, <2>10, <2>11
<1> QED
  BY <1>10, <1>11

-----------------------------------------------------------------------------
(* The free memory of m2 is that of m, and what lies behind m's break.     *)
Grows(m, F, m2, G) ==
  /\ Heap(m2, G) /\ m.brk <= m2.brk
  /\ \A x \in Nat : /\ InFree(m, F, x) => InFree(m2, G, x)
                    /\ InFree(m2, G, x) => InFree(m, F, x) \/ x >= m.brk
  /\ \A a \in Addresses : a # 0 /\ a < m.brk /\ ~InFree(m, F, a) => m2.size[a] = m.size[a]

LEMMA GrowsTwice ==
  ASSUME NEW m, NEW F, NEW m2, NEW G, NEW m3, NEW H, m.brk \in Nat,
         Grows(m, F, m2, G), Grows(m2, G, m3, H)
  PROVE  Grows(m, F, m3, H)
<1>1. m2.brk \in Nat /\ m3.brk \in Nat /\ Addresses \subseteq Nat
  BY HeapFacts, UnitsFacts DEF Grows
<1>2. Heap(m3, H) /\ m.brk <= m3.brk
  BY <1>1 DEF Grows
<1>3. ASSUME NEW x \in Nat
      PROVE  /\ InFree(m, F, x) => InFree(m3, H, x)
             /\ InFree(m3, H, x) => InFree(m, F, x) \/ x >= m.brk
  BY <1>1 DEF Grows
<1>4. ASSUME NEW a \in Addresses, a # 0, a < m.brk, ~InFree(m, F, a)
      PROVE  m3.size[a] = m.size[a]
  <2>1. a \in Nat /\ a < m2.brk /\ ~InFree(m2, G, a)
    BY <1>1, <1>4 DEF Grows
  <2> QED
    BY <1>4, <2>1 DEF Grows
<1> QED
  BY <1>2, <1>3, <1>4 DEF Grows

(* A free block is free memory.                                            *)
LEMMA ListedFree ==
  ASSUME NEW m, NEW F, Heap(m, F), NEW a \in F, a # 0
  PROVE  InFree(m, F, a)
<1>1. a \in Nat /\ m.size[a] \in Nat /\ m.size[a] >= 1
  BY HeapFacts
<1>2. Within(a, a, m.size[a])
  BY <1>1 DEF Within
<1> QED
  BY <1>2 DEF InFree

LEMMA FreeBelowBreak ==
  ASSUME NEW m, NEW F, Heap(m, F), NEW x \in Nat, InFree(m, F, x)
  PROVE  x < m.brk
<1>1. PICK a \in F \ {0} : Within(x, a, m.size[a])
  BY DEF InFree
<1>2. a \in Nat /\ m.size[a] \in Nat /\ a + m.size[a] <= m.brk /\ m.brk \in Nat
  BY HeapFacts
<1> QED
  BY <1>1, <1>2 DEF Within

(* my_morecore: a region behind the break.                                 *)
LEMMA CoreFacts ==
  ASSUME NEW m, NEW F, Heap(m, F), NEW n \in Nat, HasCore(m, n)
  PROVE  \E G : Grows(m, F, my_morecore(m, n), G)
<1>1. /\ m \in Memories /\ m.brk \in Nat /\ m.brk <= Units + 1
      /\ m.size \in [Addresses -> Nat] /\ F \in SUBSET Addresses
      /\ \A a \in F \ {0} : m.size[a] >= 1 /\ a + m.size[a] <= m.brk
  BY HeapFacts
<1>2. PICK r : r = Region(n)
  OBVIOUS
<1>3. r \in Nat /\ r >= 1 /\ m.brk + r <= Units + 1
  BY <1>2, AllocAssumption DEF Region, HasCore
<1>4. PICK bp : bp = m.brk
  OBVIOUS
<1>5. bp \in 1 .. Units /\ bp + r \in 1 .. Units + 1 /\ bp \in Nat /\ bp >= 1
  <2>1. m.brk \in 1 .. Units + 1
    BY <1>1, MemoryParts
  <2> QED
    BY <1>3, <1>4, <2>1, AllocAssumption
<1>6. bp \in Addresses /\ bp # 0
  BY <1>5, AllocAssumption DEF Addresses
<1>7. PICK m1 : m1 = [m EXCEPT !.size[bp] = r, !.brk = bp + r]
  OBVIOUS
<1>8. my_morecore(m, n) = my_free(m1, bp)
  BY <1>2, <1>4, <1>7 DEF my_morecore
<1>9. /\ m1 \in Memories /\ m1.ptr = m.ptr /\ m1.freep = m.freep /\ m1.brk = bp + r
      /\ m1.size = [m.size EXCEPT ![bp] = r]
  <2>1. PICK p1, s1, f1, b1 : m = [ptr |-> p1, size |-> s1, freep |-> f1, brk |-> b1]
                              /\ p1 = m.ptr /\ s1 = m.size /\ f1 = m.freep /\ b1 = m.brk
    BY <1>1, MemoryParts
  <2>2. PICK s2, b2 : s2 = [s1 EXCEPT ![bp] = r] /\ b2 = bp + r
    OBVIOUS
  <2>3. m1 = [ptr |-> p1, size |-> s2, freep |-> f1, brk |-> b2]
    BY <1>7, <2>1, <2>2
  <2>4. p1 \in [Addresses -> Addresses] /\ s2 \in [Addresses -> Nat] /\ b2 \in 1 .. Units + 1
        /\ f1 \in 0 .. Units + 1
    BY <1>1, <1>3, <1>5, <1>6, <2>1, <2>2, MemoryParts
  <2>5. m1 \in Memories /\ m1.ptr = p1 /\ m1.size = s2 /\ m1.freep = f1 /\ m1.brk = b2
    BY <2>3, <2>4 DEF Memories
  <2> QED
    BY <2>1, <2>2, <2>5
<1>10. m1.size[bp] = r /\ \A a \in Addresses \ {bp} : m1.size[a] = m.size[a]
  BY <1>1, <1>6, <1>9
<1>11. bp \notin F /\ \A x \in Nat : InFree(m, F, x) => x < bp
  <2>1. \A x \in Nat : InFree(m, F, x) => x < bp
    BY <1>4, FreeBelowBreak
  <2>2. bp \in F => InFree(m, F, bp)
    BY <1>6, ListedFree
  <2> QED
    BY <1>5, <2>1, <2>2
<1>12. \A x \in Nat : InFree(m1, F, x) <=> InFree(m, F, x)
  <2>1. \A a \in F : m1.size[a] = m.size[a]
    BY <1>1, <1>10, <1>11
  <2> QED
    BY <2>1 DEF InFree
<1>13. Heap(m1, F)
  <2>1. Linked(m1, F)
    BY <1>9 DEF Heap, Linked
  <2>2. \A a \in F : m1.size[a] = m.size[a] /\ 0 \in F
    BY <1>1, <1>10, <1>11, HeapFacts
  <2>3. \A a \in F \ {0} : a \in Nat /\ m.size[a] \in Nat /\ a + m.size[a] <= m.brk
    BY HeapFacts
  <2>4. \A a \in F \ {0} : a + m1.size[a] <= m1.brk
    BY <1>3, <1>4, <1>5, <1>9, <2>2, <2>3
  <2>5. Apart(m1, F)
    <3>1. Apart(m, F) /\ 0 \in F
      BY HeapFacts DEF Heap
    <3>2. m1.size[0] = 0
      BY <2>2, <3>1 DEF Apart
    <3>3. ASSUME NEW a \in F \ {0}
          PROVE  m1.size[a] >= 1 /\ \A b \in F : a < b => a + m1.size[a] < b
      BY <2>2, <3>1 DEF Apart
    <3> QED
      BY <2>4, <3>2, <3>3 DEF Apart
  <2> QED
    BY <1>9, <2>1, <2>5 DEF Heap
<1>14. CASE Implausible(r)
  <2>1. my_free(m1, bp) = m1
    BY <1>10, <1>14 DEF my_free
  <2>2. Grows(m, F, m1, F)
    <3>1. m.brk <= m1.brk
      BY <1>3, <1>4, <1>5, <1>9
    <3>2. \A a \in Addresses : a < m.brk => m1.size[a] = m.size[a]
      BY <1>4, <1>5, <1>10
    <3> QED
      BY <1>12, <1>13, <3>1, <3>2 DEF Grows
  <2> QED
    BY <1>8, <2>1, <2>2
<1>15. CASE ~Implausible(r)
  <2>1. PICK u : u = my_free(m1, bp)
    OBVIOUS
  <2>2. \A x \in Nat : Within(x, bp, m1.size[bp]) => ~InFree(m1, F, x)
    BY <1>3, <1>5, <1>10, <1>11, <1>12 DEF Within
  <2>3. m1.size[bp] >= 1 /\ bp + m1.size[bp] <= m1.brk /\ ~Implausible(m1.size[bp])
    BY <1>3, <1>5, <1>9, <1>10, <1>15
  <2>4. PICK G : /\ Heap(u, G) /\ u.brk = m1.brk
                 /\ \A x \in Nat : InFree(u, G, x) <=> InFree(m1, F, x) \/ Within(x, bp, m1.size[bp])
                 /\ \A a \in Addresses \ (F \cup {bp}) : u.size[a] = m1.size[a]
    BY <1>5, <1>13, <2>1, <2>2, <2>3, FreeFacts
  <2>5. m.brk <= u.brk
    BY <1>3, <1>4, <1>5, <1>9, <2>4
  <2>6. \A x \in Nat : Within(x, bp, m1.size[bp]) => x >= m.brk
    BY <1>4 DEF Within
  <2>7. ASSUME NEW a \in Addresses, a # 0, a < m.brk, ~InFree(m, F, a)
        PROVE  u.size[a] = m.size[a]
    <3>1. a \notin F
      BY <2>7, ListedFree
    <3>2. a # bp
      BY <1>4, <1>5, <2>7
    <3> QED
      BY <1>10, <2>4, <3>1, <3>2
  <2>8. Grows(m, F, u, G)
    BY <1>12, <2>4, <2>5, <2>6, <2>7 DEF Grows
  <2> QED
    BY <1>8, <2>1, <2>8
<1> QED
  BY <1>14, <1>15

(* The search that asks for regions.                                       *)
Tried(last, n) == IF Fits(last, n) = {} /\ HasCore(last, n) THEN my_morecore(last, n) ELSE last
Tries(g, m, n, i) == g = [k \in 0 .. i |-> IF k = 0 THEN m ELSE Tried(g[k - 1], n)]

LEMMA TriesExist ==
  ASSUME NEW m, NEW n, NEW i \in Nat
  PROVE  \E g : Tries(g, m, n, i)
<1> DEFINE Bad == {j \in Nat : ~\E g : Tries(g, m, n, j)}
<1>1. SUFFICES ASSUME Bad # {} PROVE FALSE
  OBVIOUS
<1>2. PICK j \in Bad : \A k \in Bad : j <= k
  <2>1. Bad \in SUBSET Nat
    OBVIOUS
  <2> HIDE DEF Bad
  <2> QED
    BY <1>1, <2>1, Least
<1>3. j # 0
  <2> DEFINE g0 == [k \in 0 .. 0 |-> m]
  <2>1. g0 = [k \in 0 .. 0 |-> IF k = 0 THEN m ELSE Tried(g0[k - 1], n)]
    OBVIOUS
  <2>2. Tries(g0, m, n, 0)
    BY <2>1 DEF Tries
  <2> QED
    BY <1>2, <2>2
<1>4. j - 1 \in Nat /\ j - 1 \notin Bad /\ j \in Nat /\ j >= 1
  BY <1>2, <1>3
<1>5. PICK g : Tries(g, m, n, j - 1)
  BY <1>4
<1> DEFINE h == [k \in 0 .. j |-> IF k = 0 THEN m ELSE Tried(g[k - 1], n)]
<1>6. \A k \in 0 .. j - 1 : h[k] = g[k]
  <2>1. \A k \in 0 .. j - 1 : g[k] = IF k = 0 THEN m ELSE Tried(g[k - 1], n)
    BY <1>5 DEF Tries
  <2> QED
    BY <1>4, <2>1
<1>7. h = [k \in 0 .. j |-> IF k = 0 THEN m ELSE Tried(h[k - 1], n)]
  <2>1. \A k \in 0 .. j : k # 0 => k - 1 \in 0 .. j - 1
    BY <1>4
  <2>2. \A k \in 0 .. j : k # 0 => h[k - 1] = g[k - 1]
    BY <1>6, <2>1
  <2> HIDE DEF h
  <2>3. h = [k \in 0 .. j |-> IF k = 0 THEN m ELSE Tried(g[k - 1], n)]
    BY DEF h
  <2> QED
    BY <2>2, <2>3
<1>8. Tries(h, m, n, j)
  <2> HIDE DEF h
  <2> QED
    BY <1>7 DEF Tries
<1> QED
  BY <1>2, <1>8

LEMMA SearchedFacts ==
  ASSUME NEW m, NEW F, Heap(m, F), NEW n \in Nat
  PROVE  \E G : Grows(m, F, Searched(m, n), G)
<1> DEFINE r == CHOOSE g : g = [k \in Addresses |-> IF k = 0 THEN m ELSE Tried(g[k - 1], n)]
           last == Units \div NALLOC
<1>1. Searched(m, n) = r[last]
  BY DEF Searched, Tried
<1>2. r = [k \in Addresses |-> IF k = 0 THEN m ELSE Tried(r[k - 1], n)]
  <2>1. \E g : Tries(g, m, n, Units)
    BY TriesExist, AllocAssumption
  <2>2. \E g : g = [k \in Addresses |-> IF k = 0 THEN m ELSE Tried(g[k - 1], n)]
    BY <2>1 DEF Tries, Addresses
  <2> QED
    BY <2>2
<1> HIDE DEF r
<1>3. last \in Addresses
  BY AllocAssumption DEF Addresses
<1> HIDE DEF last
<1>4. m.brk \in Nat /\ Addresses = 0 .. Units /\ Units \in Nat
  BY HeapFacts, UnitsFacts
<1> DEFINE Q(k) == \E G : Grows(m, F, r[k], G)
           Bad == {k \in Addresses : ~Q(k)}
<1>5. Bad = {}
  <2>1. SUFFICES ASSUME Bad # {} PROVE FALSE
    OBVIOUS
  <2>2. PICK k \in Bad : \A j \in Bad : k <= j
    <3>1. Bad \in SUBSET Nat
      BY <1>4
    <3> HIDE DEF Bad
    <3> QED
      BY <2>1, <3>1, Least
  <2>3. r[0] = m
    BY <1>2, <1>4
  <2>4. Grows(m, F, m, F)
    BY <1>4 DEF Grows
  <2>5. k # 0
    BY <2>2, <2>3, <2>4
  <2>6. k - 1 \in Addresses /\ k - 1 \notin Bad /\ k \in Addresses
    BY <1>4, <2>2, <2>5
  <2>7. PICK G : Grows(m, F, r[k - 1], G)
    BY <2>6
  <2>8. PICK l : l = r[k - 1]
    OBVIOUS
  <2>9. r[k] = Tried(l, n)
    BY <1>2, <2>5, <2>6, <2>8
  <2>10. Heap(l, G)
    BY <2>7, <2>8 DEF Grows
  <2>11. CASE Fits(l, n) = {} /\ HasCore(l, n)
    <3>1. PICK H : Grows(l, G, my_morecore(l, n), H)
      BY <2>10, <2>11, CoreFacts
    <3>2. Grows(m, F, r[k], H)
      BY <1>4, <2>7, <2>8, <2>9, <2>11, <3>1, GrowsTwice DEF Tried
    <3> QED
      BY <2>2, <3>2
  <2>12. CASE ~(Fits(l, n) = {} /\ HasCore(l, n))
    BY <2>2, <2>7, <2>8, <2>9, <2>12 DEF Tried
  <2> QED
    BY <2>11, <2>12
<1> QED
  BY <1>1, <1>3, <1>5

-----------------------------------------------------------------------------
(* What the program has is not touched when free memory grows.             *)
LEMMA HeldStays ==
  ASSUME NEW h, NEW m, NEW F, NEW m2, NEW G, Heap(m, F), Grows(m, F, m2, G), HeldOK(h, m, F)
  PROVE  HeldOK(h, m2, G)
<1>1. m.brk \in Nat /\ m2.brk \in Nat /\ m.brk <= m2.brk
  BY HeapFacts DEF Grows
<1>2. ASSUME NEW b \in h
      PROVE  /\ b \in [at : 1 .. Units, size : Nat]
             /\ b.size >= 1 /\ b.at + b.size <= m2.brk /\ m2.size[b.at] = b.size
             /\ \A x \in Nat : Within(x, b.at, b.size) => ~InFree(m2, G, x)
  <2>1. /\ b \in [at : 1 .. Units, size : Nat]
        /\ b.size >= 1 /\ b.at + b.size <= m.brk /\ m.size[b.at] = b.size
        /\ \A x \in Nat : Within(x, b.at, b.size) => ~InFree(m, F, x)
    BY DEF HeldOK
  <2>2. b.at \in 1 .. Units /\ b.size \in Nat
    BY <2>1
  <2>3. b.at \in Nat /\ b.at # 0 /\ b.at \in Addresses /\ b.at < m.brk
    BY <1>1, <2>1, <2>2, AllocAssumption DEF Addresses
  <2>4. Within(b.at, b.at, b.size)
    BY <2>1, <2>2, <2>3 DEF Within
  <2>5. m2.size[b.at] = b.size
    BY <2>1, <2>3, <2>4 DEF Grows
  <2>6. ASSUME NEW x \in Nat, Within(x, b.at, b.size)
        PROVE  ~InFree(m2, G, x)
    <3>1. x < m.brk
      BY <1>1, <2>1, <2>2, <2>3, <2>6 DEF Within
    <3>2. ~InFree(m, F, x)
      BY <2>1, <2>6
    <3> QED
      BY <1>1, <3>1, <3>2 DEF Grows
  <2>7. b.at + b.size <= m2.brk
    BY <1>1, <2>1, <2>2, <2>3
  <2> QED
    BY <2>1, <2>5, <2>6, <2>7
<1>3. \A b, c \in h : b = c \/ \A x \in Nat : ~(Within(x, b.at, b.size) /\ Within(x, c.at, c.size))
  BY DEF HeldOK
<1> QED
  BY <1>2, <1>3 DEF HeldOK

LEMMA FineStays ==
  ASSUME NEW st, NEW st2, NEW h, NEW fr, NEW m, NEW F, NEW m2, NEW G, Grows(m, F, m2, G),
         FineOK(st, h, fr, m, F), st2 = "fine" => st = "fine"
  PROVE  FineOK(st2, h, fr, m2, G)
BY DEF FineOK, Grows

(* The state is one of a heap F.                                           *)
LEMMA AllocFrom ==
  ASSUME NEW m, NEW F, Heap(m, F), mem' = m, story' \in {"fine", "largest", "over"},
         HeldOK(held', m, F), FineOK(story', held', freed', m, F)
  PROVE  AllocOK'
<1>1. Listed(m) = F /\ m \in Memories /\ m.freep \in F /\ F \in SUBSET Addresses
  BY ListedIs, HeapFacts DEF Heap
<1>2. m.freep # NULL
  BY <1>1, UnitsFacts
<1>3. Listed(mem)' = F
  BY <1>1 DEF Listed, Ring
<1>4. /\ Heap(mem, Listed(mem))' /\ HeldOK(held, mem, Listed(mem))'
      /\ FineOK(story, held, freed, mem, Listed(mem))'
  BY <1>3 DEF Heap, Linked, Apart, HeldOK, FineOK, InFree, Within, Implausible
<1> QED
  BY <1>1, <1>2, <1>4 DEF AllocOK, Memories

LEMMA StartedFacts ==
  ASSUME AllocOK, story # "over"
  PROVE  \E F : /\ Heap(Started(mem), F) /\ HeldOK(held, Started(mem), F)
                /\ FineOK(story, held, freed, Started(mem), F)
<1>1. CASE mem.freep # NULL
  BY <1>1 DEF AllocOK, Started
<1>2. CASE mem.freep = NULL
  <2>1. mem \in Memories /\ held = {} /\ freed = {}
    BY <1>2 DEF AllocOK
  <2>2. PICK m : m = Started(mem)
    OBVIOUS
  <2>3. /\ m \in Memories /\ m.freep = 0 /\ m.ptr[0] = 0 /\ m.size[0] = 0
    <3>0. 0 \in Addresses /\ 0 \in 0 .. Units + 1 /\ 0 \in Nat
      BY AllocAssumption DEF Addresses
    <3>1. PICK p1, s1, f1, b1 : mem = [ptr |-> p1, size |-> s1, freep |-> f1, brk |-> b1]
                                /\ p1 = mem.ptr /\ s1 = mem.size /\ f1 = mem.freep /\ b1 = mem.brk
      BY <2>1, MemoryParts
    <3>2. m = [ptr |-> [p1 EXCEPT ![0] = 0], size |-> [s1 EXCEPT ![0] = 0], freep |-> 0, brk |-> b1]
      BY <1>2, <2>2, <3>1 DEF Started
    <3>3. PICK p2, s2 : p2 = [p1 EXCEPT ![0] = 0] /\ s2 = [s1 EXCEPT ![0] = 0]
      OBVIOUS
    <3>4. /\ p2 \in [Addresses -> Addresses] /\ s2 \in [Addresses -> Nat] /\ b1 \in 1 .. Units + 1
          /\ p2[0] = 0 /\ s2[0] = 0
      BY <2>1, <3>0, <3>1, <3>3, MemoryParts
    <3>5. m = [ptr |-> p2, size |-> s2, freep |-> 0, brk |-> b1]
      BY <3>2, <3>3
    <3>6. m \in Memories /\ m.ptr = p2 /\ m.size = s2 /\ m.freep = 0
      BY <3>0, <3>4, <3>5 DEF Memories
    <3> QED
      BY <3>4, <3>6
  <2>4. 0 \in Addresses
    BY AllocAssumption DEF Addresses
  <2>5. Heap(m, {0})
    BY <2>3, <2>4 DEF Heap, Linked, Apart
  <2>6. HeldOK(held, m, {0}) /\ FineOK(story, held, freed, m, {0})
    BY <2>1 DEF HeldOK, FineOK
  <2> QED
    BY <2>2, <2>5, <2>6
<1> QED
  BY <1>1, <1>2

LEMMA MallocKeeps ==
  ASSUME AllocOK, NEW nbytes \in Requests, my_malloc(nbytes)
  PROVE  AllocOK'
<1>1. nbytes \in Nat /\ nbytes > 0 /\ story # "over" /\ story \in {"fine", "largest"}
  BY AllocAssumption DEF my_malloc, Plausible, AllocOK
<1>2. PICK n : n = nunits(nbytes)
  OBVIOUS
<1>3. n \in Nat /\ n >= 1
  BY <1>1, <1>2 DEF nunits, HeaderSize
<1>4. PICK m0, F0 : /\ m0 = Started(mem) /\ Heap(m0, F0) /\ HeldOK(held, m0, F0)
                    /\ FineOK(story, held, freed, m0, F0)
  BY <1>1, StartedFacts
<1>5. PICK m : m = Searched(m0, n)
  OBVIOUS
<1>6. PICK F : Grows(m0, F0, m, F)
  BY <1>3, <1>4, <1>5, SearchedFacts
<1>7. Heap(m, F) /\ HeldOK(held, m, F)
  BY <1>4, <1>6, HeldStays DEF Grows
<1>8. story' = (IF Implausible(n) THEN "largest" ELSE story) /\ story' \in {"fine", "largest", "over"}
  BY <1>1, <1>2 DEF my_malloc
<1>9. story' = "fine" => story = "fine" /\ ~Implausible(n)
  BY <1>8
<1>10. FineOK(story', held, freed, m, F)
  BY <1>4, <1>6, <1>9, FineStays
<1>11. CASE Fits(m, n) = {}
  <2>1. mem' = m /\ held' = held /\ freed' = freed
    BY <1>2, <1>4, <1>5, <1>11 DEF my_malloc
  <2>2. HeldOK(held', m, F) /\ FineOK(story', held', freed', m, F)
    BY <1>7, <1>10, <2>1
  <2> QED
    BY <1>7, <1>8, <2>1, <2>2, AllocFrom
<1>12. CASE Fits(m, n) # {}
  <2>1. PICK t : t = Taken(m, n)
    OBVIOUS
  <2>2. /\ mem' = t.mem /\ held' = held \cup {[at |-> t.at, size |-> n]}
        /\ freed' = freed \ (t.at .. t.at + n - 1)
    BY <1>2, <1>4, <1>5, <1>12, <2>1 DEF my_malloc
  <2>3. /\ t.at \in 1 .. Units /\ t.at + n <= m.brk
    BY <1>3, <1>7, <1>12, <2>1, TakenFacts
  <2>4. PICK G : /\ Heap(t.mem, G) /\ t.mem.brk = m.brk /\ t.mem.size[t.at] = n
                 /\ \A x \in Nat : /\ InFree(m, F, x) <=> InFree(t.mem, G, x) \/ Within(x, t.at, n)
                                   /\ ~(InFree(t.mem, G, x) /\ Within(x, t.at, n))
                 /\ \A a \in Addresses \ (F \cup {t.at}) : t.mem.size[a] = m.size[a]
    BY <1>3, <1>7, <1>12, <2>1, TakenFacts
  <2>5. PICK u, at : u = t.mem /\ at = t.at
    OBVIOUS
  <2>6. PICK new : new = [at |-> at, size |-> n]
    OBVIOUS
  <2>7. new.at = at /\ new.size = n /\ new \in [at : 1 .. Units, size : Nat] /\ at \in Nat
    BY <1>3, <2>3, <2>5, <2>6, AllocAssumption
  <2>8. held' = held \cup {new} /\ mem' = u
    BY <2>2, <2>5, <2>6
  <2>9. ASSUME NEW b \in held
        PROVE  /\ b \in [at : 1 .. Units, size : Nat]
               /\ b.size >= 1 /\ b.at + b.size <= u.brk /\ u.size[b.at] = b.size
               /\ \A x \in Nat : Within(x, b.at, b.size) => ~InFree(u, G, x) /\ ~Within(x, at, n)
    <3>1. /\ b \in [at : 1 .. Units, size : Nat]
          /\ b.size >= 1 /\ b.at + b.size <= m.brk /\ m.size[b.at] = b.size
          /\ \A x \in Nat : Within(x, b.at, b.size) => ~InFree(m, F, x)
      BY <1>7 DEF HeldOK
    <3>2. b.at \in Nat /\ b.at # 0 /\ b.at \in Addresses /\ b.size \in Nat
      <4>1. b.at \in 1 .. Units /\ b.size \in Nat
        BY <3>1
      <4> QED
        BY <4>1, AllocAssumption DEF Addresses
    <3>3. Within(b.at, b.at, b.size)
      BY <3>1, <3>2 DEF Within
    <3>4. \A x \in Nat : Within(x, b.at, b.size) => ~InFree(u, G, x) /\ ~Within(x, at, n)
      BY <2>4, <2>5, <3>1
    <3>5. ~InFree(m, F, b.at) /\ ~Within(b.at, at, n)
      BY <3>1, <3>2, <3>3, <3>4
    <3>6. b.at \notin F
      BY <1>7, <3>2, <3>5, ListedFree
    <3>7. b.at # at
      BY <1>3, <2>7, <3>5 DEF Within
    <3>8. u.size[b.at] = b.size
      BY <2>4, <2>5, <3>1, <3>2, <3>6, <3>7
    <3> QED
      BY <2>4, <2>5, <3>1, <3>4, <3>8
  <2>10. HeldOK(held', u, G)
    <3>1. /\ new.size >= 1 /\ new.at + new.size <= u.brk /\ u.size[new.at] = new.size
          /\ \A x \in Nat : Within(x, new.at, new.size) => ~InFree(u, G, x)
      BY <1>3, <2>3, <2>4, <2>5, <2>7
    <3>2. \A b, c \in held : b = c \/ \A x \in Nat : ~(Within(x, b.at, b.size) /\ Within(x, c.at, c.size))
      BY <1>7 DEF HeldOK
    <3>3. \A b \in held : \A x \in Nat : ~(Within(x, b.at, b.size) /\ Within(x, new.at, new.size))
      BY <2>7, <2>9
    <3>4. \A b \in held' : b \in held \/ b = new
      BY <2>8
    <3>5. \A b \in held' : /\ b \in [at : 1 .. Units, size : Nat]
                           /\ b.size >= 1 /\ b.at + b.size <= u.brk /\ u.size[b.at] = b.size
                           /\ \A x \in Nat : Within(x, b.at, b.size) => ~InFree(u, G, x)
      BY <2>7, <2>9, <3>1, <3>4
    <3>6. \A b, c \in held' : b = c \/ \A x \in Nat : ~(Within(x, b.at, b.size) /\ Within(x, c.at, c.size))
      BY <3>2, <3>3, <3>4
    <3> QED
      BY <3>5, <3>6 DEF HeldOK
  <2>11. FineOK(story', held', freed', u, G)
    <3> SUFFICES ASSUME story' = "fine"
                 PROVE  /\ \A b \in held' : ~Implausible(b.size)
                        /\ \A a \in freed' : a \in Nat /\ InFree(u, G, a)
      BY DEF FineOK
    <3>1. \A b \in held : ~Implausible(b.size)
      BY <1>10 DEF FineOK
    <3>2. ASSUME NEW a \in freed'
          PROVE  a \in Nat /\ InFree(u, G, a)
      <4>1. a \in freed /\ a \notin at .. at + n - 1
        BY <2>2, <2>5
      <4>2. a \in Nat /\ InFree(m, F, a)
        BY <1>10, <4>1 DEF FineOK
      <4>3. ~Within(a, at, n)
        BY <1>3, <2>7, <4>1, <4>2 DEF Within
      <4> QED
        BY <2>4, <2>5, <4>2, <4>3
    <3> QED
      BY <1>9, <2>7, <2>8, <3>1, <3>2
  <2> QED
    BY <1>8, <2>4, <2>5, <2>8, <2>10, <2>11, AllocFrom
<1> QED
  BY <1>11, <1>12

LEMMA FreeKeeps ==
  ASSUME AllocOK, NEW b \in held, FreeHeld(b)
  PROVE  AllocOK'
<1>1. /\ story # "over" /\ mem' = my_free(mem, b.at)
      /\ held' = held \ {b} /\ freed' = freed \cup {b.at} /\ story' = story
  BY DEF FreeHeld
<1>2. PICK m, F : m = mem /\ F = Listed(mem)
  OBVIOUS
<1>3. Heap(m, F) /\ HeldOK(held, m, F) /\ FineOK(story, held, freed, m, F)
      /\ story' \in {"fine", "largest", "over"}
  BY <1>1, <1>2 DEF AllocOK
<1>4. PICK bp, z : bp = b.at /\ z = b.size
  OBVIOUS
<1>5. /\ bp \in 1 .. Units /\ z \in Nat /\ z >= 1 /\ bp + z <= m.brk /\ m.size[bp] = z
      /\ \A x \in Nat : Within(x, bp, z) => ~InFree(m, F, x)
  <2>1. /\ b \in [at : 1 .. Units, size : Nat]
        /\ b.size >= 1 /\ b.at + b.size <= m.brk /\ m.size[b.at] = b.size
        /\ \A x \in Nat : Within(x, b.at, b.size) => ~InFree(m, F, x)
    BY <1>3 DEF HeldOK
  <2> QED
    BY <1>4, <2>1
<1>6. CASE Implausible(z)
  <2>1. mem' = m
    BY <1>1, <1>2, <1>4, <1>5, <1>6 DEF my_free
  <2>2. story' # "fine"
    BY <1>1, <1>3, <1>4, <1>6 DEF FineOK
  <2>3. HeldOK(held', m, F)
    BY <1>1, <1>3 DEF HeldOK
  <2>4. FineOK(story', held', freed', m, F)
    BY <2>2 DEF FineOK
  <2> QED
    BY <1>3, <2>1, <2>3, <2>4, AllocFrom
<1>7. CASE ~Implausible(z)
  <2>1. PICK u : u = my_free(m, bp)
    OBVIOUS
  <2>2. PICK G : /\ Heap(u, G) /\ u.brk = m.brk
                 /\ \A x \in Nat : InFree(u, G, x) <=> InFree(m, F, x) \/ Within(x, bp, z)
                 /\ \A a \in Addresses \ (F \cup {bp}) : u.size[a] = m.size[a]
    BY <1>3, <1>5, <1>7, <2>1, FreeFacts
  <2>3. mem' = u
    BY <1>1, <1>2, <1>4, <2>1
  <2>4. ASSUME NEW c \in held'
        PROVE  /\ c \in [at : 1 .. Units, size : Nat]
               /\ c.size >= 1 /\ c.at + c.size <= u.brk /\ u.size[c.at] = c.size
               /\ \A x \in Nat : Within(x, c.at, c.size) => ~InFree(u, G, x)
    <3>1. c \in held /\ c # b
      BY <1>1
    <3>2. /\ c \in [at : 1 .. Units, size : Nat]
          /\ c.size >= 1 /\ c.at + c.size <= m.brk /\ m.size[c.at] = c.size
          /\ \A x \in Nat : Within(x, c.at, c.size) => ~InFree(m, F, x)
      BY <1>3, <3>1 DEF HeldOK
    <3>3. \A x \in Nat : ~(Within(x, c.at, c.size) /\ Within(x, bp, z))
      BY <1>3, <1>4, <3>1 DEF HeldOK
    <3>4. c.at \in Nat /\ c.at # 0 /\ c.at \in Addresses /\ c.size \in Nat
      <4>1. c.at \in 1 .. Units /\ c.size \in Nat
        BY <3>2
      <4> QED
        BY <4>1, AllocAssumption DEF Addresses
    <3>5. Within(c.at, c.at, c.size)
      BY <3>2, <3>4 DEF Within
    <3>6. c.at \notin F
      BY <1>3, <3>2, <3>4, <3>5, ListedFree
    <3>7. c.at # bp
      <4>1. Within(bp, bp, z)
        BY <1>5, AllocAssumption DEF Within
      <4> QED
        BY <3>3, <3>4, <3>5, <4>1
    <3>8. u.size[c.at] = c.size
      BY <2>2, <3>2, <3>4, <3>6, <3>7
    <3>9. \A x \in Nat : Within(x, c.at, c.size) => ~InFree(u, G, x)
      BY <2>2, <3>2, <3>3
    <3> QED
      BY <2>2, <3>2, <3>8, <3>9
  <2>5. HeldOK(held', u, G)
    <3>1. \A c, d \in held' : c = d \/ \A x \in Nat : ~(Within(x, c.at, c.size) /\ Within(x, d.at, d.size))
      BY <1>1, <1>3 DEF HeldOK
    <3> QED
      BY <2>4, <3>1 DEF HeldOK
  <2>6. FineOK(story', held', freed', u, G)
    <3> SUFFICES ASSUME story' = "fine"
                 PROVE  /\ \A c \in held' : ~Implausible(c.size)
                        /\ \A a \in freed' : a \in Nat /\ InFree(u, G, a)
      BY DEF FineOK
    <3>1. (\A c \in held : ~Implausible(c.size)) /\ \A a \in freed : a \in Nat /\ InFree(m, F, a)
      BY <1>1, <1>3 DEF FineOK
    <3>2. bp \in Nat /\ Within(bp, bp, z)
      BY <1>5, AllocAssumption DEF Within
    <3>3. \A a \in freed' : a \in freed \/ a = bp
      BY <1>1, <1>4
    <3> QED
      BY <1>1, <2>2, <3>1, <3>2, <3>3
  <2> QED
    BY <1>3, <2>2, <2>3, <2>5, <2>6, AllocFrom
<1> QED
  BY <1>6, <1>7

(* A second free changes nothing, or the process is over.                  *)
LEMMA AgainKeeps ==
  ASSUME AllocOK, NEW a \in freed, FreeAgain(a)
  PROVE  AllocOK'
<1>1. CASE story' = "over"
  BY <1>1 DEF AllocOK
<1>2. CASE story' # "over"
  <2>1. /\ story' = story /\ story # "over" /\ held' = held /\ freed' = freed
        /\ mem' = my_free(mem, a) /\ (a \in Listed(mem) \/ Implausible(mem.size[a]))
    BY <1>2 DEF FreeAgain
  <2>2. mem' = mem
    BY <2>1 DEF my_free, AlreadyFree
  <2>3. /\ Heap(mem, Listed(mem)) /\ HeldOK(held, mem, Listed(mem))
        /\ FineOK(story, held, freed, mem, Listed(mem)) /\ story' \in {"fine", "largest", "over"}
    BY <2>1 DEF AllocOK
  <2>4. PICK m, F : m = mem /\ F = Listed(mem)
    OBVIOUS
  <2> QED
    BY <2>1, <2>2, <2>3, <2>4, AllocFrom
<1> QED
  BY <1>1, <1>2

LEMMA LibraryKeeps ==
  ASSUME AllocOK, LibraryGrows
  PROVE  AllocOK'
<1>1. mem.brk < Units /\ mem' = [mem EXCEPT !.brk = @ + 1] /\ held' = held /\ freed' = freed /\ story' = story
  BY DEF LibraryGrows
<1>2. CASE story = "over"
  BY <1>1, <1>2 DEF AllocOK
<1>3. CASE story # "over"
  <2>1. mem \in Memories
    BY <1>3 DEF AllocOK
  <2>2. PICK m : m = mem'
    OBVIOUS
  <2>3. /\ m \in Memories /\ m.ptr = mem.ptr /\ m.size = mem.size /\ m.freep = mem.freep
        /\ mem.brk <= m.brk
    <3>1. PICK p1, s1, f1, b1 : mem = [ptr |-> p1, size |-> s1, freep |-> f1, brk |-> b1]
                                /\ p1 = mem.ptr /\ s1 = mem.size /\ f1 = mem.freep /\ b1 = mem.brk
      BY <2>1, MemoryParts
    <3>2. PICK b2 : b2 = b1 + 1
      OBVIOUS
    <3>3. m = [ptr |-> p1, size |-> s1, freep |-> f1, brk |-> b2]
      BY <1>1, <2>2, <3>1, <3>2
    <3>4. /\ p1 \in [Addresses -> Addresses] /\ s1 \in [Addresses -> Nat] /\ f1 \in 0 .. Units + 1
          /\ b1 \in 1 .. Units + 1
      BY <2>1, <3>1, MemoryParts
    <3>5. b2 \in 1 .. Units + 1 /\ b1 <= b2
      BY <1>1, <3>1, <3>2, <3>4, AllocAssumption
    <3>6. m \in Memories /\ m.ptr = p1 /\ m.size = s1 /\ m.freep = f1 /\ m.brk = b2
      BY <3>3, <3>4, <3>5 DEF Memories
    <3> QED
      BY <3>1, <3>5, <3>6
  <2>4. CASE mem.freep = NULL
    <3>1. held' = {} /\ freed' = {} /\ story' \in {"fine", "largest", "over"}
      BY <1>1, <1>3, <2>4 DEF AllocOK
    <3>2. mem' \in Memories /\ mem'.freep = NULL
      BY <2>2, <2>3, <2>4
    <3> QED
      BY <3>1, <3>2 DEF AllocOK, Memories, NULL, Addresses
  <2>5. CASE mem.freep # NULL
    <3>1. PICK F : F = Listed(mem)
      OBVIOUS
    <3>2. /\ Heap(mem, F) /\ HeldOK(held, mem, F) /\ FineOK(story, held, freed, mem, F)
          /\ story' \in {"fine", "largest", "over"}
      BY <1>1, <1>3, <2>5, <3>1 DEF AllocOK
    <3>3. \A x \in Nat : InFree(m, F, x) <=> InFree(mem, F, x)
      BY <2>3 DEF InFree
    <3>4. Heap(m, F)
      <4>1. Linked(m, F)
        BY <2>3, <3>2 DEF Heap, Linked
      <4>2. \A a \in F \ {0} : a \in Nat /\ m.size[a] \in Nat /\ a + m.size[a] <= mem.brk /\ mem.brk \in Nat
        BY <2>3, <3>2, HeapFacts
      <4>3. m.brk \in Nat
        <5>1. m.brk \in 1 .. Units + 1
          BY <2>3, MemoryParts
        <5> QED
          BY <5>1, AllocAssumption
      <4>4. \A a \in F \ {0} : a + m.size[a] <= m.brk
        BY <2>3, <4>2, <4>3
      <4>5. Apart(m, F)
        BY <2>3, <3>2, <4>4 DEF Heap, Apart
      <4> QED
        BY <2>3, <4>1, <4>5 DEF Heap
    <3>5. Grows(mem, F, m, F)
      BY <2>3, <3>3, <3>4 DEF Grows
    <3>6. HeldOK(held', m, F)
      BY <1>1, <3>2, <3>5, HeldStays
    <3>7. FineOK(story', held', freed', m, F)
      BY <1>1, <3>2, <3>5, FineStays
    <3> QED
      BY <2>2, <3>2, <3>4, <3>6, <3>7, AllocFrom
  <2> QED
    BY <2>4, <2>5
<1> QED
  BY <1>2, <1>3

LEMMA AllocSame ==
  ASSUME AllocOK, UNCHANGED <<mem, held, freed>>, story' \in {"over", story}
  PROVE  AllocOK'
<1>1. CASE story' = "over"
  BY <1>1 DEF AllocOK
<1>2. CASE story' = story /\ story # "over" /\ mem.freep = NULL
  <2>1. mem' = mem /\ held' = {} /\ freed' = {} /\ mem \in Memories
        /\ story' \in {"fine", "largest", "over"}
    BY <1>2 DEF AllocOK
  <2> QED
    BY <1>2, <2>1 DEF AllocOK, Memories, NULL, Addresses
<1>3. CASE story' = story /\ story # "over" /\ mem.freep # NULL
  <2>1. PICK m, F : m = mem /\ F = Listed(mem)
    OBVIOUS
  <2>2. /\ Heap(m, F) /\ HeldOK(held, m, F) /\ FineOK(story, held, freed, m, F)
        /\ story' \in {"fine", "largest", "over"}
    BY <1>3, <2>1 DEF AllocOK
  <2>3. mem' = m /\ HeldOK(held', m, F) /\ FineOK(story', held', freed', m, F)
    BY <1>3, <2>1, <2>2
  <2> QED
    BY <2>2, <2>3, AllocFrom
<1> QED
  BY <1>1, <1>2, <1>3

(* The allocator's list runs through its blocks in the order of their      *)
(* addresses; they lie apart from each other and from the program's, below *)
(* the break; and every freed address is in one of them while no header    *)
(* was taken for a wrong one (8-8.c 42).                                   *)
THEOREM HeapSound == Spec => []AllocOK
<1>1. Init => AllocOK
  <2> SUFFICES ASSUME Init PROVE AllocOK
    OBVIOUS
  <2>1. /\ mem = [ptr |-> [a \in Addresses |-> 0], size |-> [a \in Addresses |-> 0],
                  freep |-> NULL, brk |-> 1]
        /\ held = {} /\ freed = {} /\ story = "fine"
    BY DEF Init, AllocInit
  <2>2. 0 \in Addresses /\ NULL \in 0 .. Units + 1 /\ 1 \in 1 .. Units + 1
    BY AllocAssumption DEF Addresses, NULL
  <2>3. mem \in Memories /\ mem.freep = NULL
    BY <2>1, <2>2 DEF Memories
  <2> QED
    BY <2>1, <2>3 DEF AllocOK
<1>2. AllocOK /\ [Next]_vars => AllocOK'
  <2> SUFFICES ASSUME AllocOK, [Next]_vars PROVE AllocOK'
    OBVIOUS
  <2>1. AllocNext \/ UNCHANGED allocVars
    BY DEF Next, Runs, vars
  <2>2. CASE UNCHANGED allocVars
    BY <2>2, AllocSame DEF allocVars
  <2>3. CASE \E nbytes \in Requests : my_malloc(nbytes)
    BY <2>3, MallocKeeps
  <2>4. CASE \E nbytes \in Requests : Refused(nbytes)
    BY <2>4, AllocSame DEF Refused, allocVars
  <2>5. CASE \E nbytes \in Requests : bfree(nbytes)
    BY <2>5, AllocSame DEF bfree
  <2>6. CASE \E b \in held : FreeHeld(b)
    BY <2>6, FreeKeeps
  <2>7. CASE \E a \in freed : FreeAgain(a)
    BY <2>7, AgainKeeps
  <2>8. CASE LibraryGrows
    BY <2>8, LibraryKeeps
  <2> QED
    BY <2>1, <2>2, <2>3, <2>4, <2>5, <2>6, <2>7, <2>8 DEF AllocNext
<1> QED
  BY <1>1, <1>2, PTL DEF Spec

(* my_malloc and my_free of 16-1-26/8-8.c: free and held blocks never      *)
(* overlap, the list is in the order of the addresses and no two free      *)
(* blocks touch, and what was freed can be given again: for any memory,    *)
(* any NALLOC and MAXALLOC and any requests.                               *)
THEOREM BlocksPartitioned == Spec => []BlocksArePartition
<1>1. AllocOK => BlocksArePartition
  <2> SUFFICES ASSUME AllocOK, story # "over"
               PROVE  /\ Disjoint(FreeBlocks \cup held)
                      /\ \A a \in Listed(mem) : mem.ptr[a] > a \/ mem.ptr[a] = 0
                      /\ \A b, c \in FreeBlocks : b.at + b.size # c.at
                      /\ story = "fine" => \A a \in freed : \E b \in FreeBlocks : a \in Extent(b.at, b.size)
    BY DEF BlocksArePartition
  <2>1. CASE mem.freep = NULL
    <3>1. held = {} /\ freed = {} /\ Listed(mem) = {} /\ FreeBlocks = {}
      BY <2>1 DEF AllocOK, Listed, FreeBlocks
    <3> QED
      BY <3>1 DEF Disjoint
  <2>2. CASE mem.freep # NULL
    <3>1. PICK F : F = Listed(mem)
      OBVIOUS
    <3>2. Heap(mem, F) /\ HeldOK(held, mem, F) /\ FineOK(story, held, freed, mem, F)
      BY <2>2, <3>1 DEF AllocOK
    <3>3. /\ \A a \in F : /\ a \in Nat /\ mem.ptr[a] \in Nat /\ mem.size[a] \in Nat
                          /\ mem.ptr[a] > a \/ mem.ptr[a] = 0
          /\ \A a \in F \ {0} : /\ mem.size[a] >= 1
                                /\ \A b \in F : a < b => a + mem.size[a] < b
      BY <3>2, HeapFacts
    <3>4. \A b \in FreeBlocks : b.at \in F \ {0} /\ b.size = mem.size[b.at] /\ b = [at |-> b.at, size |-> b.size]
      BY <3>1 DEF FreeBlocks
    <3>5. \A b \in held : b \in [at : 1 .. Units, size : Nat]
                          /\ \A x \in Nat : Within(x, b.at, b.size) => ~InFree(mem, F, x)
      BY <3>2 DEF HeldOK
    <3>6. ASSUME NEW b \in FreeBlocks, NEW c \in FreeBlocks
          PROVE  /\ b.at + b.size # c.at
                 /\ b = c \/ \A x \in Nat : ~(Within(x, b.at, b.size) /\ Within(x, c.at, c.size))
      <4>1. /\ b.at \in F \ {0} /\ b.size = mem.size[b.at] /\ b = [at |-> b.at, size |-> b.size]
            /\ c.at \in F \ {0} /\ c.size = mem.size[c.at] /\ c = [at |-> c.at, size |-> c.size]
        BY <3>4
      <4>2. /\ b.at \in Nat /\ c.at \in Nat /\ b.size \in Nat /\ c.size \in Nat
            /\ b.size >= 1 /\ c.size >= 1
            /\ b.at < c.at => b.at + b.size < c.at
            /\ c.at < b.at => c.at + c.size < b.at
        BY <3>3, <4>1
      <4>3. b.at = c.at => b = c
        BY <4>1
      <4>4. b.at + b.size # c.at
        BY <4>2
      <4>5. b.at # c.at => \A x \in Nat : ~(Within(x, b.at, b.size) /\ Within(x, c.at, c.size))
        BY <4>2 DEF Within
      <4> QED
        BY <4>3, <4>4, <4>5
    <3>7. ASSUME NEW b \in FreeBlocks, NEW c \in held
          PROVE  \A x \in Nat : ~(Within(x, b.at, b.size) /\ Within(x, c.at, c.size))
      <4>1. b.at \in F \ {0} /\ b.size = mem.size[b.at]
        BY <3>4
      <4>2. \A x \in Nat : Within(x, b.at, b.size) => InFree(mem, F, x)
        BY <4>1 DEF InFree
      <4> QED
        BY <3>5, <4>2
    <3>8. ASSUME NEW b \in held, NEW c \in held
          PROVE  b = c \/ \A x \in Nat : ~(Within(x, b.at, b.size) /\ Within(x, c.at, c.size))
      BY <3>2 DEF HeldOK
    <3>9. \A b \in FreeBlocks \cup held : b.at \in Nat /\ b.size \in Nat
      <4>1. \A b \in FreeBlocks : b.at \in Nat /\ b.size \in Nat
        BY <3>3, <3>4
      <4>2. \A b \in held : b.at \in 1 .. Units /\ b.size \in Nat
        BY <3>5
      <4>3. \A i \in 1 .. Units : i \in Nat
        BY AllocAssumption
      <4> QED
        BY <4>1, <4>2, <4>3
    <3>10. ASSUME NEW b \in FreeBlocks \cup held, NEW c \in FreeBlocks \cup held, b # c
           PROVE  Extent(b.at, b.size) \cap Extent(c.at, c.size) = {}
      <4>1. \A x \in Nat : ~(Within(x, b.at, b.size) /\ Within(x, c.at, c.size))
        BY <3>6, <3>7, <3>8, <3>10
      <4>2. PICK i \in Nat, j \in Nat, k \in Nat, l \in Nat :
              i = b.at /\ j = b.size /\ k = c.at /\ l = c.size
        BY <3>9
      <4>3. \A x \in Nat : ~(Within(x, i, j) /\ Within(x, k, l))
        BY <4>1, <4>2
      <4>4. Extent(i, j) \cap Extent(k, l) = {}
        BY <4>2, <4>3 DEF Within, Extent
      <4> QED
        BY <4>2, <4>4
    <3>11. ASSUME NEW a \in freed, story = "fine"
           PROVE  \E b \in FreeBlocks : a \in Extent(b.at, b.size)
      <4>1. a \in Nat /\ InFree(mem, F, a)
        BY <3>2, <3>11 DEF FineOK
      <4>2. PICK f \in F \ {0} : Within(a, f, mem.size[f])
        BY <4>1 DEF InFree
      <4>3. PICK b : b = [at |-> f, size |-> mem.size[f]]
        OBVIOUS
      <4>4. b \in FreeBlocks /\ b.at = f /\ b.size = mem.size[f]
        BY <3>1, <4>2, <4>3 DEF FreeBlocks
      <4>5. f \in Nat /\ mem.size[f] \in Nat
        BY <3>3, <4>2
      <4>6. a \in Extent(f, mem.size[f])
        BY <4>1, <4>2, <4>5 DEF Within, Extent
      <4> QED
        BY <4>4, <4>6
    <3> QED
      BY <3>1, <3>3, <3>6, <3>10, <3>11 DEF Disjoint
  <2> QED
    BY <2>1, <2>2
<1> QED
  BY <1>1, HeapSound, PTL
=============================================================================
