---------------------------- MODULE StandaloneFile ----------------------------
(***************************************************************************)
(* One file that is not a PDF: process_standalone_file of                  *)
(* python/src/shared/page_worker.py with extract_text of                   *)
(* shared/extractors.py, which has images and animations described by the  *)
(* vision model.  Prompts and telemetry rows are left out.                 *)
(***************************************************************************)
EXTENDS Naturals, FiniteSets

CONSTANTS
  GifMaxFrames,    \* _GIF_MAX_FRAMES
  MaxGif           \* bound: frames of an animated GIF

ASSUME FileAssumption ==
  GifMaxFrames \in Nat /\ GifMaxFrames >= 2 /\ MaxGif \in Nat \ {0}

VARIABLES
  fileAt,       \* "new", "gif", "image", "document", "done"
  animation,    \* frames of the GIF
  sampled,      \* those that are looked at
  extract       \* FileProcessingResult: what its text is, its chunks, whether
                \* it is in the images, its errors

fileVars == <<fileAt, animation, sampled, extract>>

FileInit ==
  /\ fileAt = "new" /\ animation \in 1 .. MaxGif /\ sampled = {}
  /\ extract = [text |-> "none", chunks |-> FALSE, image |-> FALSE, errors |-> 0]

\* extract_text, by the suffix: an image, an animation, or a document in one of
\* the formats that are read at once, which may raise.
OpenFile ==
  /\ fileAt = "new"
  /\ \/ fileAt' \in {"gif", "image"} /\ UNCHANGED extract
     \/ /\ fileAt' = "document"
        /\ extract' \in {[extract EXCEPT !.text = t] : t \in {"text", "empty", "raised"}}
  /\ UNCHANGED <<sampled, animation>>

\* round(a / b) of Python: to the nearest integer, of two the even one.
Round(a, b) ==
  LET down == a \div b
      twice == 2 * (a % b)
  IN  IF twice > b \/ (twice = b /\ down % 2 = 1) THEN down + 1 ELSE down

\* Mutant: a fixed step, from the first frame on.
GifFramesByStep(n, k) == {i * (n \div k) : i \in 0 .. k - 1}

\* _extract_gif_frames: a GIF of one frame, or one that cannot be read, has none.
GifFrames(n, k) == IF n = 1 THEN {} ELSE {Round(i * (n - 1), k - 1) : i \in 0 .. k - 1}
Frames(n) == IF n < GifMaxFrames THEN n ELSE GifMaxFrames

SampleGif ==
  /\ fileAt = "gif" /\ sampled = {}
  /\ sampled' \in {{}, GifFrames(animation, Frames(animation))}
  /\ fileAt' = IF sampled' = {} THEN "image" ELSE "gif"
  /\ UNCHANGED <<animation, extract>>

\* extract_image: what the vision model says; a call that fails leaves a caption
\* with the name of the file.
Described ==
  /\ fileAt' = "document"
  /\ extract' \in {[extract EXCEPT !.text = t, !.image = TRUE] : t \in {"text", "empty", "caption"}}
  /\ UNCHANGED <<sampled, animation>>

DescribeImage == fileAt = "image" /\ Described

\* _describe_gif: the frames are shown in one call.
DescribeGif == fileAt = "gif" /\ sampled # {} /\ Described

\* The text is chunked, a text of nothing into no chunk; a failure is recorded
\* and the file is completed nevertheless.
FinishFile ==
  /\ fileAt = "document" /\ fileAt' = "done"
  /\ extract' = [extract EXCEPT !.chunks = extract.text \in {"text", "caption"},
                                !.errors = IF extract.text = "raised" THEN 1 ELSE 0]
  /\ UNCHANGED <<sampled, animation>>

FileNext == OpenFile \/ SampleGif \/ DescribeImage \/ DescribeGif \/ FinishFile

FileSpec == FileInit /\ [][FileNext]_fileVars

-------------------------------------------------------------------------------
(* Properties *)

FileTypeOK ==
  /\ fileAt \in {"new", "gif", "image", "document", "done"}
  /\ animation \in 1 .. MaxGif /\ sampled \subseteq 0 .. animation - 1
  /\ extract.text \in {"none", "text", "empty", "caption", "raised"}

\* "the first and last frames are always included and the gap between any two
\* consecutive samples is as uniform as possible": as many frames as may be
\* sent, the first and the last among them, and neighbours as far apart as an
\* even division allows.
FramesSpread ==
  sampled # {} =>
    LET k == Frames(animation)
        gap == (animation - 1) \div (k - 1)
        following(f) == CHOOSE g \in sampled : g > f /\ \A h \in sampled : h > f => g <= h
    IN  /\ Cardinality(sampled) = k /\ {0, animation - 1} \subseteq sampled
        /\ \A f \in sampled \ {animation - 1} :
             following(f) - f \in {gap, IF (animation - 1) % (k - 1) = 0 THEN gap ELSE gap + 1}

===============================================================================
