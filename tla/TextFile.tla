------------------------------ MODULE TextFile ------------------------------
(***************************************************************************)
(* The text files of backend_file.rs.  A file is read as a whole, changed  *)
(* in memory, truncated and written again: OpenOptions with truncate, then *)
(* a writeln! for each line.  Writes are not buffered, so each piece of    *)
(* text that a writeln! puts together is a write of its own.  Reads are:   *)
(* BufReader calls read until nothing is left, twice at least.  Between    *)
(* two of these calls other threads read and write, and nothing locks a    *)
(* file.                                                                   *)
(*                                                                         *)
(* A file is a sequence of cells, pieces of text of some length.  Readers  *)
(* and writers have positions of their own: two writers write over each    *)
(* other, one that goes on after another has truncated the file leaves a   *)
(* hole, and a reader may join what two writers have written.              *)
(***************************************************************************)
EXTENDS Integers, SequencesExt

CONSTANTS
    Thread,  \* the threads of the runtime: each serves one request at a time
    File,
    NoFile,
    Buffer,  \* the cells that one call of read returns at most: those of 8 KiB
    NL,      \* the cell that ends a line
    Hole     \* what a file has where nothing was written

ASSUME TextFileAssumption ==
    /\ NoFile \notin File
    /\ Buffer \in Nat \ {0}
    /\ NL # Hole

VARIABLES
    text,    \* text[f]: the cells of f
    handle,  \* handle[t]: the file t writes, its position, and what is to come
    got      \* got[t]: the cells that t has read so far of the file that it reads

files == <<text, handle>>

Closed == [file |-> NoFile, pos |-> 0, pieces |-> <<>>]

InitFiles(contents) ==
    /\ text = contents
    /\ handle = [t \in Thread |-> Closed]
    /\ got = [t \in Thread |-> <<>>]

-----------------------------------------------------------------------------
\* Writing

\* Wrong: the file is opened without truncating it.
OpenOver(t, f, pieces) ==
    /\ handle' = [handle EXCEPT ![t] = [file |-> f, pos |-> 0, pieces |-> pieces]]
    /\ UNCHANGED text

\* The file is opened, and empty from now on; the pieces are still to be written.
Open(t, f, pieces) ==
    /\ handle' = [handle EXCEPT ![t] = [file |-> f, pos |-> 0, pieces |-> pieces]]
    /\ text' = [text EXCEPT ![f] = <<>>]

\* cells with the piece at position pos.
Over(cells, pos, piece) ==
    LET before == [i \in 1 .. pos |-> IF i \in DOMAIN cells THEN cells[i] ELSE Hole]
    IN  before \o piece \o SubSeq(cells, pos + Len(piece) + 1, Len(cells))

WritePiece(t) ==
    /\ handle[t].pieces # <<>>
    /\ LET h == handle[t]
           piece == Head(h.pieces)
       IN  /\ text' = [text EXCEPT ![h.file] = Over(text[h.file], h.pos, piece)]
           /\ handle' = [handle EXCEPT ![t] =
                [file |-> h.file, pos |-> h.pos + Len(piece), pieces |-> Tail(h.pieces)]]

\* The file is closed: all is written, or a write has failed.
Close(t) ==
    /\ handle' = [handle EXCEPT ![t] = Closed]
    /\ UNCHANGED text

\* The process is killed, or stops, and is started again.
CloseAll ==
    /\ handle' = [t \in Thread |-> Closed]
    /\ UNCHANGED text

Writing(f) == {t \in Thread : handle[t].file = f}

\* The files that a thread has truncated and not written completely.
Unfinished == {handle[t].file : t \in {w \in Thread : handle[w].pieces # <<>>}}

-----------------------------------------------------------------------------
\* Reading: BufReader::lines

\* A call of read returns what comes next in the file, as it is now.
ReadSome(t, f) ==
    LET n == Len(got[t])
    IN  /\ n < Len(text[f])
        /\ got' = [got EXCEPT ![t] =
                @ \o SubSeq(text[f], n + 1, Min({n + Buffer, Len(text[f])}))]

\* It returns nothing: the file ends here, or somebody has truncated it.
AtEnd(t, f) == Len(text[f]) <= Len(got[t])

DropRead(t) == got' = [got EXCEPT ![t] = <<>>]

\* The place of the first such cell at i or after it, or the end of the file.
Find(cells, cell, i) ==
    Min({j \in i .. Len(cells) : cells[j] = cell} \cup {Len(cells) + 1})

\* Lines are known by where they start; the last of them may have no end.
LineStarts(cells) == {i \in DOMAIN cells : i = 1 \/ cells[i - 1] = NL}

Line(cells, i) == SubSeq(cells, i, Find(cells, NL, i) - 1)
=============================================================================
