--------------------------- MODULE ImageInspection ---------------------------
(***************************************************************************)
(* What an image is: `inspect` of src/image/mod.rs, behind the bus method  *)
(* InspectImage, whose stream is read under the limit of one image.        *)
(*                                                                         *)
(* A file is a sequence of cells.  A cell is a byte, except that a number  *)
(* of several bytes, the three bytes of a component, the signature of a    *)
(* PNG and the name of its chunk are one cell each.                        *)
(***************************************************************************)
EXTENDS Integers, SequencesExt

CONSTANTS
  MaxImageCells,   \* MAX_IMAGE_BYTES
  Fill, Soi, Restart, Stop, Sof,   \* 0xFF; 0xD8; 0x01 and 0xD0 to 0xD7; 0xDA and 0xD9; SOFn
  Png, Ihdr, PngChunk,   \* the signature, the first chunk and the length it has
  PngCells,        \* cells up to the end of the first chunk
  Announced,       \* lengths a stream may announce, or NoLength
  NoLength,
  Picture          \* pictures of which a stream may carry the beginning: JPEGs as
                   \* [head, stopped, frame, rest], others as [raw |-> cells]

ASSUME InspectAssumption ==
  /\ {MaxImageCells, PngCells} \subseteq Nat
  /\ {Fill, Soi, Restart, Stop, Sof} \subseteq Nat \ {0}
  /\ Fill \notin {Soi, Restart, Stop, Sof} /\ {Soi, Restart} \cap {Stop, Sof} = {} /\ Stop # Sof
  /\ NoLength \notin Nat /\ Announced \subseteq Nat \cup {NoLength}

VARIABLES
  picture,     \* history: what the file was made from, and how much of it
  file,        \* the cells that arrive
  at,          \* the position of the walk, from 0
  inspected,   \* "waiting", "stream", "bytes", "markers" or the answer
  facts        \* [w, h] or <<>>

inspectVars == <<picture, file, at, inspected, facts>>

Refuses(error) == inspected' = error /\ UNCHANGED <<at, facts>>

Cell(i) == file[i + 1]
Size == Len(file)

-----------------------------------------------------------------------------
(* A JPEG as it is written: segments, then the frame header, of which the  *)
(* length and the number of components are said twice.                     *)

FrameCells(f) == <<Fill, Sof, f.len, 8, f.h, f.w, f.n>> \o [i \in 1 .. f.n |-> 1]

Jpeg(p) == <<Fill, Soi>> \o FlattenSeq(p.head) \o (IF p.stopped THEN <<Fill, Stop>> ELSE <<>>)
             \o FrameCells(p.frame) \o p.rest

IsJpeg(p) == "head" \in DOMAIN p
Written(p) == IF IsJpeg(p) THEN Jpeg(p) ELSE p.raw

\* Fill bytes, a marker, and, if it is one that has a segment, the length of the
\* segment, which counts itself, and as many cells, whatever they are.
IsSegment(cells) ==
  \E k \in 1 .. Len(cells) - 1 :
    /\ \A i \in 1 .. k : cells[i] = Fill
    /\ cells[k + 1] \notin {Fill, Stop, Sof, 0}
    /\ IF cells[k + 1] \in {Soi, Restart} THEN Len(cells) = k + 1
       ELSE Len(cells) >= k + 2 /\ cells[k + 2] = Len(cells) - (k + 1)

ASSUME PictureAssumption ==
  \A p \in Picture :
    IsJpeg(p) => /\ p.head \in Seq(Seq(Nat)) /\ \A i \in 1 .. Len(p.head) : IsSegment(p.head[i])
                 /\ p.stopped \in BOOLEAN /\ p.rest \in Seq(Nat)
                 /\ p.frame \in [w : Nat, h : Nat, n : Nat, len : Nat]

\* What the writer of the file meant.
Sound(f) == f.w > 0 /\ f.h > 0 /\ f.n > 0 /\ f.len = 5 + f.n
FrameEnd(p) == Len(Jpeg(p)) - Len(p.rest)

-----------------------------------------------------------------------------

InspectInit ==
  /\ \E p \in Picture : \E n \in 0 .. Len(Written(p)) :
       picture = [of |-> p, cells |-> n] /\ file = SubSeq(Written(p), 1, n)
  /\ at = 0 /\ inspected = "stream" /\ facts = <<>>

\* read_image_stream: a length that is announced is believed if it is too much;
\* the bytes are counted as they arrive all the same.
ReadImage(announced) ==
  /\ inspected = "stream"
  /\ IF (announced # NoLength /\ announced > MaxImageCells) \/ Size > MaxImageCells
     THEN Refuses("InvalidInput")
     ELSE inspected' = "bytes" /\ UNCHANGED <<at, facts>>
  /\ UNCHANGED <<picture, file>>

TransferFails ==
  /\ inspected = "stream" /\ Refuses("TransferFailed")
  /\ UNCHANGED <<picture, file>>

\* Bug: extents of no pixels pass.
MeasuresAny(w, h) == inspected' = "Ok" /\ facts' = [w |-> w, h |-> h] /\ UNCHANGED at

Measures(w, h) ==
  IF w = 0 \/ h = 0 THEN Refuses("InvalidInput")
  ELSE inspected' = "Ok" /\ facts' = [w |-> w, h |-> h] /\ UNCHANGED at

\* sniff, and png_dimensions.
Sniff ==
  /\ inspected = "bytes"
  /\ IF IsPrefix(<<Fill, Soi, Fill>>, file)
     THEN inspected' = "markers" /\ at' = 2 /\ UNCHANGED facts
     ELSE IF IsPrefix(<<Png, PngChunk, Ihdr>>, file) /\ Size >= PngCells
     THEN Measures(Cell(3), Cell(4))
     ELSE Refuses("InvalidInput")
  /\ UNCHANGED <<picture, file>>

\* The first position from i on that is no fill byte.
PastFill(i) == CHOOSE j \in i .. Size : (\A g \in i .. j - 1 : Cell(g) = Fill) /\ (j = Size \/ Cell(j) # Fill)

\* A frame header: `from` is where its length stands.
MeasureFrame(from) ==
  LET n == Cell(from + 4) IN
  IF Cell(from) < 5 \/ n = 0 \/ Cell(from) # 5 + n
  THEN Refuses("InvalidInput")
  ELSE Measures(Cell(from + 3), Cell(from + 2))

\* Bug: the length is taken not to count itself.
PastSegmentAndLength(from) == from + Cell(from) + 1

PastSegment(from) == from + Cell(from)

\* One round of jpeg_dimensions.
Marker ==
  /\ inspected = "markers"
  /\ IF at >= Size \/ Cell(at) # Fill \/ PastFill(at) = Size
     THEN Refuses("InvalidInput")
     ELSE LET marker == Cell(PastFill(at))
              from == PastFill(at) + 1
          IN IF marker \in {Stop, 0} THEN Refuses("InvalidInput")
             ELSE IF marker \in {Soi, Restart} THEN at' = from /\ UNCHANGED <<inspected, facts>>
             ELSE IF from >= Size \/ Cell(from) < 1 \/ from + Cell(from) > Size
             THEN Refuses("InvalidInput")
             ELSE IF marker = Sof THEN MeasureFrame(from)
             ELSE at' = PastSegment(from) /\ UNCHANGED <<inspected, facts>>
  /\ UNCHANGED <<picture, file>>

InspectNext == (\E announced \in Announced : ReadImage(announced)) \/ TransferFails \/ Sniff \/ Marker

InspectSpec == InspectInit /\ [][InspectNext]_inspectVars

-----------------------------------------------------------------------------
(* Properties.                                                             *)

\* The size of a JPEG is that of its frame header.  It is found behind fill
\* bytes and whatever segments there are, also ones that contain a picture of
\* their own; it is not taken from a segment that is cut off, from behind the
\* scan, or from a header whose lengths disagree; and the beginning of a file is
\* enough exactly when it holds the header.
FrameFound ==
  picture # <<>> /\ IsJpeg(picture.of) =>
    LET p == picture.of
        held == ~p.stopped /\ Sound(p.frame) /\ picture.cells >= FrameEnd(p)
    IN /\ inspected = "Ok" => held /\ facts = [w |-> p.frame.w, h |-> p.frame.h]
       /\ inspected = "InvalidInput" /\ at > 0 => ~held
=============================================================================
