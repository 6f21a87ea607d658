--------------------------- MODULE MCMediaLibrary ---------------------------
(***************************************************************************)
(* MediaLibrary with small sets.  The picture is narrower than the first   *)
(* configured width and stored as three objects, the PDF as one; the       *)
(* picture may also be sent as what it is not.  Its AVIF does not fit its  *)
(* budget at any quality.                                                  *)
(***************************************************************************)
EXTENDS MediaLibrary

CONSTANTS picture, pdf, portrait, resume

MCFile ==
  [f \in Files |->
     IF f = picture
     THEN [type |-> "png", width |-> 300, height |-> 500, turned |-> TRUE, size |-> 9000, whole |-> FALSE]
     ELSE [type |-> "pdf", width |-> 0, height |-> 0, turned |-> FALSE, size |-> 9000, whole |-> TRUE]]

MCSubmissions ==
  {[file |-> picture, extension |-> "png", mime |-> "png"],
   [file |-> pdf, extension |-> "pdf", mime |-> "pdf"],
   [file |-> picture, extension |-> "jpg", mime |-> "jpeg"]}

MCEncodedBytes(f, width, format, quality) == IF format = "webp" THEN 1000 * quality ELSE 2000 * quality

MCSlot == [o \in Owners |-> IF o = portrait THEN "picture" ELSE "resume"]
=============================================================================
