------------------------------ MODULE Hexdump -------------------------------
(***************************************************************************)
(* ConsoleUtils_Hexdump (console_utils.c): the bytes of a buffer, a line   *)
(* at a time.  The two line buffers are not cleared between lines; every   *)
(* snprintf writes its cell and a NUL into the next one, and a line is     *)
(* printed up to the first NUL.  Both buffers have one cell per byte, so   *)
(* one of them is modelled.                                                *)
(***************************************************************************)
EXTENDS Integers, Sequences, SequencesExt

CONSTANTS
    WIDTH,    \* the bytes on a line: 16
    NUL,      \* the end of a string
    Garbage   \* what the stack held before

ASSUME WidthAssumption == WIDTH \in Nat \ {0}

Least(a, b) == IF a <= b THEN a ELSE b

\* "snprintf(&hexdump_line[j * 3], 4, ...)" and its likes.
WriteCellOnly(cells, j, c) == [cells EXCEPT ![j] = c]
WriteCell(cells, j, c) == [cells EXCEPT ![j] = c, ![j + 1] = NUL]

\* "%s": up to the first NUL.
Visible(cells) ==
    LET ends == {k \in DOMAIN cells : cells[k] = NUL}
    IN IF ends = {} THEN cells ELSE SubSeq(cells, 1, Min(ends) - 1)

PrintedLine(addr, bytes) == [addr |-> addr, bytes |-> bytes]

\* The lines printed for the given bytes: one turn of the inner loop for each, and a
\* line when it is full or the bytes are used up.
Hexdump(data) ==
    LET Turn(s, i) ==
          LET j == ((i - 1) % WIDTH) + 1
              cells == WriteCell(s.cells, j, data[i])
          IN [ cells |-> cells,
               printed |-> IF j = WIDTH \/ i = Len(data)
                           THEN Append(s.printed, PrintedLine(i - j, Visible(cells)))
                           ELSE s.printed ]
    IN FoldLeftDomain(Turn, [cells |-> [k \in 1..(WIDTH + 1) |-> Garbage], printed |-> <<>>], data).printed

\* What a dump should look like: the bytes in order, WIDTH on each line and the
\* rest on the last, each line under the index of its first byte.
LinesOf(data) ==
    [m \in 1..((Len(data) + WIDTH - 1) \div WIDTH) |->
       PrintedLine(WIDTH * (m - 1), SubSeq(data, WIDTH * (m - 1) + 1, Least(WIDTH * m, Len(data))))]
=============================================================================
