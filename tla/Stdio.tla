------------------------------- MODULE Stdio -------------------------------
(***************************************************************************)
(* 14-1-26/8-4.c: buffered input and output on descriptors, with fseek;    *)
(* 8-2.c and 8-3.c hold the same code without it.                          *)
(*                                                                         *)
(* The program works on one file and has one stream at a time.  buf is     *)
(* what a writer has between base and ptr, or a reader from ptr on; a cnt  *)
(* below zero is as good as zero.                                          *)
(***************************************************************************)
EXTENDS Integers, Sequences

CONSTANTS BUFSIZ, OPEN_MAX,   \* the macros; OPEN_MAX without the standard streams
          Bytes, MaxDisk      \* what is written, and how far: lseek() fails beyond it

ASSUME StdioAssumption == BUFSIZ \in Nat \ {0} /\ OPEN_MAX \in Nat /\ MaxDisk \in Nat

VARIABLES _iob,     \* the table of streams
          disk,     \* the file
          fp,       \* the program's stream, 0 when it has none
          want,     \* the file as the program's calls make it
          place,      \* and the place in it where the next byte belongs
          running   \* "yes", "astray" once my_fseek went elsewhere, or "crashed"

stdioVars == <<_iob, disk, fp, want, place, running>>

NoStream == [read |-> FALSE, write |-> FALSE, eof |-> FALSE, err |-> FALSE,
             base |-> FALSE, buf |-> <<>>, cnt |-> 0, off |-> 0]

StdioInit == /\ _iob = [s \in 1 .. OPEN_MAX |-> NoStream]
             /\ disk = <<>> /\ want = <<>> /\ fp = 0 /\ place = 0 /\ running = "yes"

Stream == _iob[fp]
Has(mode) == running # "crashed" /\ fp # 0 /\ Stream[mode]
Becomes(f) == _iob' = [_iob EXCEPT ![fp] = f]

-----------------------------------------------------------------------------
(* The file.  write() puts all of it at the offset, or a part of it when   *)
(* the disk is full.                                                       *)
Over(file, at, bytes) ==
  IF bytes = <<>> THEN file ELSE
  [k \in 1 .. (IF at + Len(bytes) > Len(file) THEN at + Len(bytes) ELSE Len(file)) |->
     IF k > at /\ k <= at + Len(bytes) THEN bytes[k - at]
     ELSE IF k <= Len(file) THEN file[k] ELSE "zero"]
Min2(a, b) == IF a < b THEN a ELSE b

writes(f) ==
  {[n |-> n, disk |-> Over(disk, f.off, SubSeq(f.buf, 1, n)), off |-> f.off + n] :
     n \in 0 .. Len(f.buf)}
Complete(f, w) == w.n = Len(f.buf)

-----------------------------------------------------------------------------
(* my_fopen: the first slot that neither reads nor writes.                 *)
Slots == {s \in 1 .. OPEN_MAX : ~_iob[s].read /\ ~_iob[s].write}

my_fopen(mode) ==
  LET s == CHOOSE t \in Slots : \A u \in Slots : t <= u
      file == IF mode = "w" THEN <<>> ELSE disk
      at == IF mode = "a" THEN Len(disk) ELSE 0
  IN  /\ running # "crashed" /\ fp = 0 /\ Slots # {}
      /\ _iob' = [_iob EXCEPT ![s] = [NoStream EXCEPT !.read = (mode = "r"),
                                                      !.write = (mode # "r"), !.off = at]]
      /\ fp' = s /\ place' = at /\ disk' = file /\ want' = file /\ running' = "yes"

(* No slot is left, or open() fails: a free slot is as it was.             *)
OpenFails == running # "crashed" /\ fp = 0 /\ UNCHANGED stdioVars

-----------------------------------------------------------------------------
(* my_putc, and _my_flushbuf when the buffer is full or not there yet.     *)
(* It is an error when malloc() has no buffer to give; _my_fillbuf only     *)
(* returns EOF then.                                                       *)
Accepted(c) == want' = Over(want, place, <<c>>) /\ place' = place + 1
Stored(c) == /\ Becomes([Stream EXCEPT !.cnt = @ - 1, !.buf = Append(@, c)])
             /\ Accepted(c) /\ UNCHANGED <<disk, fp, running>>
NoBuffer == /\ running' = "crashed" /\ UNCHANGED <<_iob, disk, fp, want, place>>

_my_flushbuf(c) ==
  IF Stream.err
  THEN UNCHANGED stdioVars
  ELSE \/ /\ ~Stream.base /\ Becomes([Stream EXCEPT !.err = TRUE])
          /\ UNCHANGED <<disk, fp, want, place, running>>
       \/ \E w \in writes(Stream) :
            /\ disk' = w.disk /\ UNCHANGED <<fp, running>>
            /\ IF Complete(Stream, w)
               THEN /\ Becomes([Stream EXCEPT !.base = TRUE, !.buf = <<c>>,
                                              !.cnt = BUFSIZ - 1, !.off = w.off])
                    /\ Accepted(c)
               ELSE /\ Becomes([Stream EXCEPT !.err = TRUE, !.off = w.off])
                    /\ UNCHANGED <<want, place>>

my_putc(c) == /\ Has("write") /\ place < MaxDisk
              /\ IF Stream.cnt > 0 THEN (IF Stream.base THEN Stored(c) ELSE NoBuffer)
                 ELSE _my_flushbuf(c)

(* my_fflush counts on a buffer, also when there is none yet.              *)
Flushed(f, w) == [f EXCEPT !.buf = <<>>, !.cnt = BUFSIZ, !.off = w.off]
my_fflush ==
  /\ Has("write") /\ ~Stream.err
  /\ \E w \in writes(Stream) :
       /\ disk' = w.disk
       /\ Becomes(IF Complete(Stream, w) THEN Flushed(Stream, w)
                  ELSE [Stream EXCEPT !.err = TRUE, !.off = w.off])
  /\ UNCHANGED <<fp, want, place, running>>

-----------------------------------------------------------------------------
(* my_getc, and _my_fillbuf when the buffer is empty.                      *)
Consumed == place' = place + 1 /\ UNCHANGED <<disk, fp, want, running>>
NothingRead(f) == Becomes(f) /\ UNCHANGED <<disk, fp, want, place, running>>

_my_fillbuf ==
  LET n == Min2(BUFSIZ, IF Stream.off < Len(disk) THEN Len(disk) - Stream.off ELSE 0)
      got == SubSeq(disk, Stream.off + 1, Stream.off + n)
  IN  IF Stream.eof \/ Stream.err THEN UNCHANGED stdioVars
      ELSE \/ /\ n > 0 /\ Consumed
              /\ Becomes([Stream EXCEPT !.base = TRUE, !.buf = Tail(got), !.cnt = n - 1,
                                        !.off = @ + n])
           \/ /\ n = 0
              /\ NothingRead([Stream EXCEPT !.base = TRUE, !.buf = <<>>, !.cnt = 0, !.eof = TRUE])
           \/ NothingRead([Stream EXCEPT !.base = TRUE, !.buf = <<>>, !.cnt = 0, !.err = TRUE])
           \/ ~Stream.base /\ UNCHANGED stdioVars

my_getc ==
  /\ Has("read")
  /\ IF Stream.cnt > 0
     THEN Consumed /\ Becomes([Stream EXCEPT !.cnt = @ - 1, !.buf = Tail(@)])
     ELSE _my_fillbuf

-----------------------------------------------------------------------------
(* my_fseek: a writer is flushed first; what a reader has buffered is      *)
(* dropped, and an offset from the current place is one from the           *)
(* descriptor's.                                                           *)
Place(from, at) == CASE from = "set" -> 0 [] from = "cur" -> at [] from = "end" -> Len(disk')

KeepsBufferMutant(f) == f.buf
AfterSeek(f) == <<>>

Sought(f, offset, from) ==
  LET off == offset + Place(from, f.off)
      drop(g) == [g EXCEPT !.buf = AfterSeek(g), !.cnt = IF AfterSeek(g) = <<>> THEN 0 ELSE @,
                           !.eof = FALSE]
  IN  IF off < 0 \/ off > MaxDisk THEN Becomes(f) /\ UNCHANGED <<place, running>>
      ELSE /\ Becomes([drop(f) EXCEPT !.off = off])
           /\ place' = off
           /\ running' = IF offset + Place(from, place) = off THEN running ELSE "astray"

my_fseek(offset, from) ==
  /\ UNCHANGED <<fp, want>>
  /\ \/ Has("read") /\ UNCHANGED disk /\ Sought(Stream, offset, from)
     \/ /\ Has("write") /\ ~Stream.err
        /\ \E w \in writes(Stream) :
             /\ disk' = w.disk
             /\ IF Complete(Stream, w) THEN Sought(Flushed(Stream, w), offset, from)
                ELSE /\ Becomes([Stream EXCEPT !.err = TRUE, !.off = w.off])
                     /\ UNCHANGED <<place, running>>

(* my_fclose: when its write fails the stream stays in the table.          *)
my_fclose ==
  /\ running # "crashed" /\ fp # 0 /\ fp' = 0
  /\ \E w \in writes([Stream EXCEPT !.buf = IF Stream.write THEN @ ELSE <<>>]) :
       /\ disk' = w.disk
       /\ IF Stream.read \/ Complete(Stream, w)
          THEN Becomes(NoStream) /\ want' = IF Stream.err \/ running = "astray" THEN disk' ELSE want
          ELSE Becomes([Stream EXCEPT !.err = TRUE, !.off = w.off]) /\ want' = disk'
  /\ UNCHANGED place /\ running' = "yes"

StdioNext == \/ \E mode \in {"r", "w", "a"} : my_fopen(mode)
             \/ OpenFails \/ my_fflush \/ my_getc \/ my_fclose
             \/ \E c \in Bytes : my_putc(c)
             \/ \E offset \in {-1, 0, 1}, from \in {"set", "cur", "end"} : my_fseek(offset, from)

-----------------------------------------------------------------------------
(* A byte that was accepted is in the file or in the buffer, in its place  *)
(* and once; what a reader has buffered is what the file has at its place; *)
(* and after my_fclose the file is what was asked for.  Except after an    *)
(* error that was reported, or when my_fseek counted from the descriptor's *)
(* place with bytes left in the buffer (line 265).                         *)
BytesKeepTheirPlace ==
  running = "yes" =>
    /\ fp = 0 => disk = want
    /\ fp # 0 /\ ~Stream.err =>
         IF Stream.write
         THEN Over(disk, Stream.off, Stream.buf) = want /\ place = Stream.off + Len(Stream.buf)
         ELSE disk = want /\ Stream.buf = SubSeq(disk, place + 1, Stream.off)
=============================================================================
