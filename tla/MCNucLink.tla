------------------------------ MODULE MCNucLink ------------------------------
(* The smallest frame with room for three strips of tape a filter apart,   *)
(* two of them of the same size.                                           *)
EXTENDS NucLink

Dark == [blue |-> 60, green |-> 60, red |-> 60]
Tape == [blue |-> 255, green |-> 255, red |-> 0]
White == [blue |-> 255, green |-> 255, red |-> 255]

SomeColours == {Dark, Tape, White}

Strips(columns) == [p \in Pixels |-> IF p[1] \in columns THEN Tape ELSE Dark]

(* No tape, two strips that melt into one, and three.                      *)
SomeFrames == {Strips(c) : c \in {{}, {2, 4}, {0, 1, 5, 9}}}

(* No tape, and two strips with their middle in the middle of the frame.   *)
CentredFrames == {Strips(c) : c \in {{}, {2, 7}}}

(* Everything one row can show, alone, twice and twice mirrored.           *)
AllPictures ==
  {[p \in Pixels |-> IF (IF p[2] = 0 THEN p[1]
                         ELSE IF fold = "mirrored" THEN Width - 1 - p[1] ELSE p[1]) \in columns
                        /\ (p[2] = 0 \/ fold # "once")
                     THEN Tape ELSE Dark] :
     columns \in SUBSET (0 .. Width - 1), fold \in {"once", "twice", "mirrored"}}
=============================================================================
