----------------------------- MODULE TapeTracker -----------------------------
(***************************************************************************)
(* The vision pipeline of src/NUC_master/image_processing.cpp, and the two *)
(* programs that show what copies of it see: opencv_test.cpp and           *)
(* image_subscriber.cpp.                                                   *)
(*                                                                         *)
(* A frame gives every pixel a colour.  What OpenCV does is modelled from  *)
(* its use: a contour is a set of touching pixels, none inside another,    *)
(* and the tape hangs upright, so that minAreaRect is the bounding box.    *)
(* Centres are kept in quarter pixels, a distance by what it is computed   *)
(* from.                                                                   *)
(*                                                                         *)
(* "fault:" marks a plausible bug in the definition after it, against      *)
(* which the properties are tested; it is no part of the model.            *)
(***************************************************************************)
EXTENDS Integers, FiniteSets, FiniteSetsExt

CONSTANTS
  Width, Height,    \* of a frame, in pixels
  Kernel,           \* erosion_size of both filters, 10 in the code
  Colours,          \* the colours looked at: records of blue, green and red
  Frames,           \* the frames the camera of the NUC may deliver
  Pictures,         \* the frames a viewer may be given
  Programs          \* the programs started, among "master" and the two viewers

Pixels == (0 .. Width - 1) \X (0 .. Height - 1)

ASSUME TrackerAssumption ==
  /\ Width \in Nat \ {0} /\ Height \in Nat \ {0} /\ Kernel \in Nat
  /\ Colours \subseteq [blue : 0 .. 255, green : 0 .. 255, red : 0 .. 255]
  /\ Frames \subseteq [Pixels -> Colours]
  /\ Pictures \subseteq [Pixels -> Colours]
  /\ Programs \subseteq {"master", "image_subscriber", "opencv_test"}

VARIABLES
  program,          \* which program runs, "none" once a viewer has ended
  frame,            \* the frame image_update works on, until the reply
  image_mode,       \* "ship" or "boiler"
  tapeFound,        \* tapeFound
  actualDistance,   \* actualDistance: the mode's constant, and twice the distance squared
  actualX           \* actualX, in quarter pixels

tracker == <<program, frame, image_mode, tapeFound, actualDistance, actualX>>

----------------------------------------------------------------------------
(* The filters.                                                            *)

Apart(a, b) == IF a > b THEN a - b ELSE b - a

(* The rectangle of the filters reaches n pixels to every side.            *)
Within(p, q, n) == Apart(p[1], q[1]) <= n /\ Apart(p[2], q[2]) <= n

(* Beyond the border of the frame there is nothing to dilate or to erode.  *)
Dilation(original, n) == {p \in Pixels : \E q \in original : Within(p, q, n)}
Erosion(original, n) == {p \in Pixels : \A q \in Pixels : Within(p, q, n) => q \in original}

IsTape(colour) == colour.green > 200 /\ colour.blue > 200 /\ colour.red < 200
Lit(original) == {p \in Pixels : IsTape(original[p])}

\* fault: the filters are swapped
OnlyGreenOpened(original) == Dilation(Erosion(Lit(original), Kernel), Kernel)

(* onlyGreen: the pixels that stay green, with the gaps between them closed. *)
OnlyGreen(original) == Erosion(Dilation(Lit(original), Kernel), Kernel)

----------------------------------------------------------------------------
(* Contours.                                                               *)

(* The contours of an image once a pixel is added to it: those it touches  *)
(* become one.                                                             *)
Join(p, contours) ==
  LET touched == {c \in contours : \E q \in c : Within(p, q, 1)}
  IN  (contours \ touched) \cup {{p} \cup UNION touched}

FindContours(image) == FoldSet(Join, {}, image)

MinAreaRect(contour) ==
  LET xs == {p[1] : p \in contour}
      ys == {p[2] : p \in contour}
  IN  [size   |-> (Max(xs) - Min(xs)) * (Max(ys) - Min(ys)),
       center |-> <<Max(xs) + Min(xs), Max(ys) + Min(ys)>>]

Cmp(a, b) == MinAreaRect(a).size > MinAreaRect(b).size

(* The first two contours once they are sorted; equal ones in any order.   *)
FirstTwo(contours) ==
  {pair \in contours \X contours :
     /\ pair[1] # pair[2]
     /\ ~Cmp(pair[2], pair[1])
     /\ \A c \in contours \ {pair[1], pair[2]} : ~Cmp(c, pair[2])}

Square(n) == n * n

(* ACTUAL_SHIP or ACTUAL_BOILER times FOCAL, over the distance.            *)
Distance(rect1, rect2, mode) ==
  [actual |-> mode,
   apart  |-> Square(rect1.center[1] - rect2.center[1])
                + Square(rect1.center[2] - rect2.center[2])]

(* The minus before the middle of the tape and the factor -1 cancel out:   *)
(* the two halves are added.                                               *)
Middle(rect1, rect2) == 4 * (Width \div 2) + (rect1.center[1] + rect2.center[1])

\* fault: tapeFound is not reset when there is no tape
ContoursKept(image) ==
  LET contours == FindContours(image) IN
    IF Cardinality(contours) > 1
    THEN \E pair \in FirstTwo(contours) :
           LET rect1 == MinAreaRect(pair[1])
               rect2 == MinAreaRect(pair[2])
           IN  /\ actualDistance' = Distance(rect1, rect2, image_mode')
               /\ actualX' = Middle(rect1, rect2)
               /\ tapeFound' = TRUE
    ELSE UNCHANGED <<tapeFound, actualDistance, actualX>>

(* contours: distance and middle of the two largest; without two of them   *)
(* the last ones are kept.                                                 *)
Contours(image) ==
  LET contours == FindContours(image) IN
    IF Cardinality(contours) > 1
    THEN \E pair \in FirstTwo(contours) :
           LET rect1 == MinAreaRect(pair[1])
               rect2 == MinAreaRect(pair[2])
           IN  /\ actualDistance' = Distance(rect1, rect2, image_mode')
               /\ actualX' = Middle(rect1, rect2)
               /\ tapeFound' = TRUE
    ELSE tapeFound' = FALSE /\ UNCHANGED <<actualDistance, actualX>>

(* image_update, after image_set_mode(mode).                               *)
ImageUpdate(mode) ==
  /\ image_mode' = mode
  /\ frame' \in Frames
  /\ Contours(OnlyGreen(frame'))
  /\ UNCHANGED program

----------------------------------------------------------------------------
(* The viewers.  They keep nothing from one frame to the next, so one      *)
(* frame is enough (a bound of the model); what they show has a line       *)
(* across the tape if there are two contours.                              *)

NoFrame == [p \in {} |-> p]

(* opencv_test.cpp's copies of the filters and of contours.                *)
OpencvTestLine(original) == Cardinality(FindContours(OnlyGreen(original))) > 1

(* opencv_test: without a camera it ends; it shows frames until a key.     *)
OpencvTest ==
  /\ program = "opencv_test"
  /\ \/ frame = NoFrame /\ frame' \in Pictures /\ tapeFound' = OpencvTestLine(frame')
     \/ UNCHANGED <<frame, tapeFound>>
  /\ program' \in {program, "none"}
  /\ UNCHANGED <<image_mode, actualDistance, actualX>>

(* image_subscriber.cpp's copies.                                          *)
SubscriberLine(original) == Cardinality(FindContours(OnlyGreen(original))) > 1

(* imageCallback: a message of another encoding is reported and dropped, a *)
(* message without pixels is an exception nobody catches.                  *)
ImageCallback ==
  /\ program = "image_subscriber"
  /\ \/ frame = NoFrame /\ frame' \in Pictures /\ tapeFound' = SubscriberLine(frame')
     \/ UNCHANGED <<frame, tapeFound>>
  /\ program' \in {program, "none"}
  /\ UNCHANGED <<image_mode, actualDistance, actualX>>

TrackerInit ==
  /\ program \in Programs
  /\ frame = NoFrame
  /\ image_mode = "ship"       \* globals start as zero
  /\ tapeFound = FALSE
  /\ actualDistance = [actual |-> "ship", apart |-> 0] /\ actualX = 0

(* The globals of a program that has started again.                        *)
TrackerStart ==
  /\ frame' = NoFrame /\ image_mode' = "ship" /\ tapeFound' = FALSE
  /\ actualDistance' = [actual |-> "ship", apart |-> 0] /\ actualX' = 0

TrackerTypeOK ==
  /\ program \in {"master", "image_subscriber", "opencv_test", "none"}
  /\ frame = NoFrame \/ frame \in [Pixels -> Colours]
  /\ image_mode \in {"ship", "boiler"}
  /\ tapeFound \in BOOLEAN
  /\ actualDistance \in [actual : {"ship", "boiler"}, apart : Nat]
  /\ actualX \in 0 .. 6 * Width

----------------------------------------------------------------------------
(* Two contours in one row or in one column are more than a whole filter   *)
(* apart: nearer strips of tape melt into one contour, and the tracker     *)
(* then says there is no tape.  This is the closing of onlyGreen seen from *)
(* contours.                                                               *)
GapWiderThanKernel ==
  frame # NoFrame =>
    \A a, b \in FindContours(OnlyGreen(frame)) :
      a # b => \A p \in a, q \in b :
                 /\ p[2] = q[2] => Apart(p[1], q[1]) > 2 * Kernel + 1
                 /\ p[1] = q[1] => Apart(p[2], q[2]) > 2 * Kernel + 1
=============================================================================
