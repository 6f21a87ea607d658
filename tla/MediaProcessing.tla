--------------------------- MODULE MediaProcessing ---------------------------
(***************************************************************************)
(* What MediaProcessingService and MediaDescriptorResolver make of a file: *)
(* the identity checks, the renditions of an image with their qualities,   *)
(* and the descriptor a public page carries.  Nothing here has state.      *)
(*                                                                         *)
(* Sharp's part is external: how large an encoder's output is              *)
(* (EncodedBytes), and whether a picture decodes at all, which             *)
(* MediaLibrary leaves open.                                               *)
(***************************************************************************)
EXTENDS Integers, FiniteSets, Sequences

CONSTANTS
  Files,      \* contents of files, by SHA-256
  File,       \* what there is to know of each
  Submissions,\* a file with the two hints its sender adds
  EncodedBytes(_, _, _, _)  \* size of a file's rendition: file, width,
                            \* format, quality

(***************************************************************************)
(* Files and the hints that come with them.  Extensions and declared types *)
(* are the normalised ones.  A width or height of 0 is an unreadable       *)
(* header; "turned" is an EXIF orientation that swaps the sides; "whole"   *)
(* is %PDF- at the start and %%EOF within the last 1024 bytes.             *)
(***************************************************************************)

IMAGE_TYPE_RULES == [jpeg |-> {"jpg", "jpeg"}, png |-> {"png"}, webp |-> {"webp"}, avif |-> {"avif"}]

Types      == {"jpeg", "png", "webp", "avif", "pdf", "other"}
Extensions == {"jpg", "jpeg", "png", "webp", "avif", "pdf", "other"}
Kinds      == {"IMAGE", "PDF"}

ASSUME FileType ==
  File \in [Files -> [type : Types, width : Nat, height : Nat, turned : BOOLEAN,
                      size : Nat, whole : BOOLEAN]]

ASSUME SubmissionType == Submissions \subseteq [file : Files, extension : Extensions, mime : Types]

MAX_INPUT_PIXELS == 40000000
MAX_UPLOAD_BYTES == 10 * 1024 * 1024

(* The hints agree with the magic bytes, which are authoritative. *)
validateImageInput(s) ==
  LET type == File[s.file].type
  IN  type \in DOMAIN IMAGE_TYPE_RULES /\ s.extension \in IMAGE_TYPE_RULES[type] /\ s.mime = type

validatePdfInput(s) ==
  LET file == File[s.file]
  IN  /\ s.extension = "pdf" /\ s.mime = "pdf" /\ file.type = "pdf"
      /\ file.size <= MAX_UPLOAD_BYTES /\ file.whole

(* The declared type is the route, here and again when the file is         *)
(* processed.                                                              *)
Kind(s) == IF s.mime = "pdf" THEN "PDF" ELSE "IMAGE"

validateIdentity(s) == IF Kind(s) = "PDF" THEN validatePdfInput(s) ELSE validateImageInput(s)

WithinPixelCeiling(s) ==
  LET file == File[s.file] IN file.width * file.height \in 1 .. MAX_INPUT_PIXELS

(* processPdf, or processImage up to the point where Sharp decodes. *)
Processable(s) == validateIdentity(s) /\ (Kind(s) = "PDF" \/ WithinPixelCeiling(s))

(***************************************************************************)
(* The renditions of an image.                                             *)
(***************************************************************************)

(* The master keeps the picture's own width, the right way up. *)
MasterWidth(f) == IF File[f].turned THEN File[f].height ELSE File[f].width

RENDITION_WIDTHS  == <<640, 1280, 1920>>
DELIVERED_FORMATS == <<"webp", "avif">>

(* How many of the configured widths fit: they ascend. *)
Tiers(width) == Cardinality({i \in 1 .. 3 : RENDITION_WIDTHS[i] <= width})

(* Fault: the configured widths that fit, and no others. *)
planConfigured(width) == [i \in 1 .. Tiers(width) |-> RENDITION_WIDTHS[i]]

(* The configured widths that fit, and the picture's own one if it is      *)
(* below them all or strictly between two of them.                         *)
planRenditions(width) ==
  LET n     == Tiers(width)
      between == n = 0 \/ (n < 3 /\ width > RENDITION_WIDTHS[n])
  IN  [i \in 1 .. (IF between THEN n + 1 ELSE n) |-> IF i <= n THEN RENDITION_WIDTHS[i] ELSE width]

(* The smallest configured width that is not below this one, as its place  *)
(* in RENDITION_WIDTHS; the largest if there is none. *)
budgetTierFor(width) ==
  IF width > RENDITION_WIDTHS[3] THEN 3
  ELSE CHOOSE i \in 1 .. 3 :
         RENDITION_WIDTHS[i] >= width /\ \A j \in 1 .. (i - 1) : RENDITION_WIDTHS[j] < width

RENDITION_BUDGETS == [webp |-> <<90000, 150000, 200000>>, avif |-> <<60000, 100000, 140000>>]

QUALITY_LADDER == [webp |-> [start |-> 78, floor |-> 55], avif |-> [start |-> 55, floor |-> 40]]
QUALITY_STEP   == 8

(* The quality of the n-th attempt: max(floor, start - n * step). *)
Rung(format, n) ==
  LET ladder  == QUALITY_LADDER[format]
      stepped == ladder.start - n * QUALITY_STEP
  IN  IF stepped < ladder.floor THEN ladder.floor ELSE stepped

Fits(f, width, format, quality) ==
  EncodedBytes(f, width, format, quality) <= RENDITION_BUDGETS[format][budgetTierFor(width)]

(* encodeWithinBudget stops at the first attempt that fits or is at the    *)
(* floor; the floor is at most three steps down.                           *)
Stops(f, width, format, n) ==
  Fits(f, width, format, Rung(format, n)) \/ Rung(format, n) = QUALITY_LADDER[format].floor

Quality(f, width, format) ==
  Rung(format, CHOOSE n \in 0 .. 3 : Stops(f, width, format, n)
                 /\ \A m \in 0 .. (n - 1) : ~Stops(f, width, format, m))

(* Kept all the same, and flagged. *)
OverBudget(f, width, format) == ~Fits(f, width, format, Quality(f, width, format))

(***************************************************************************)
(* What a submission is stored as, in the order of the puts: a PDF as it   *)
(* came, an image as its master and then each width in both formats.       *)
(***************************************************************************)

PieceType ==
  [role : {"master", "rendition", "document"}, width : Nat, format : {"webp", "avif", "pdf"}]

Master(f)                == [role |-> "master", width |-> MasterWidth(f), format |-> "webp"]
Rendition(width, format) == [role |-> "rendition", width |-> width, format |-> format]
Document                 == [role |-> "document", width |-> 0, format |-> "pdf"]

Widths(s) == planRenditions(MasterWidth(s.file))

Pieces ==
  [s \in Submissions |->
     IF Kind(s) = "PDF" THEN <<Document>>
     ELSE [part \in 1 .. 1 + 2 * Len(Widths(s)) |->
             IF part = 1 THEN Master(s.file)
             ELSE Rendition(Widths(s)[part \div 2], DELIVERED_FORMATS[(part % 2) + 1])]]

(* The widest picture a page can offer: never wider than the master, and   *)
(* not beyond the delivery ceiling.                                        *)
FullDetail(f) == IF MasterWidth(f) < 1920 THEN MasterWidth(f) ELSE 1920

(* The pieces kept above their budget. *)
Flagged ==
  [s \in Submissions |->
     {Pieces[s][part] : part \in {part \in DOMAIN Pieces[s] :
        /\ Pieces[s][part].role = "rendition"
        /\ OverBudget(s.file, Pieces[s][part].width, Pieces[s][part].format)}}]
=============================================================================
