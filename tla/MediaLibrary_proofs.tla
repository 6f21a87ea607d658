------------------------- MODULE MediaLibrary_proofs -------------------------
(***************************************************************************)
(* Proofs about MediaLibrary, for any finite set of uploads and any sets   *)
(* of removals, submissions and owners, and any encoder.                   *)
(*                                                                         *)
(* Objects are deleted in two places, by a failing upload and after a      *)
(* removal.  Neither hits the objects of a stored row because every key    *)
(* lies under its upload's prefix, an upload that may still fail has no    *)
(* row (RowsOfUploads, CompensatingHaveNone), and the row of a removal     *)
(* that cleans up is gone for good (RemovalsOfRows).  A row has all its    *)
(* objects because the puts came one by one and all of them resolved       *)
(* (PutsInOrder, PutsPresent).                                             *)
(***************************************************************************)
EXTENDS MediaLibrary, FiniteSetTheorems, TLAPS

(* An upload that has not inserted a row, and may yet. *)
NotYet == {"new", "hashed", "unknown", "processing", "storing", "creating", "raceLost", "rereading"}

RowsOfUploads ==
  \A a \in Stored :
    /\ assets[a].hash = content[a].file /\ assets[a].kind = Kind(content[a])
    /\ assets[a].keys = KeysOf(a, content[a])
    /\ pc[a] \notin NotYet

CompensatingHaveNone ==
  "lostCreate" \notin mishaps => \A u \in Uploads : pc[u] = "compensating" => u \notin Stored

(* The first n keys of an upload. *)
FirstKeys(u, n) == {Key(u, content[u], part) : part \in 1 .. n}

InOrder(u) ==
  /\ IsFiniteSet(uploaded[u]) /\ Cardinality(uploaded[u]) <= Len(Pieces[content[u]])
  /\ uploaded[u] = FirstKeys(u, Cardinality(uploaded[u]))
  /\ pc[u] \in {"new", "hashed", "unknown", "processing"} => Cardinality(uploaded[u]) = 0
  /\ pc[u] = "storing" => Cardinality(uploaded[u]) < Len(Pieces[content[u]])
  /\ pc[u] = "creating" => Cardinality(uploaded[u]) = Len(Pieces[content[u]])

PutsInOrder == \A u \in Uploads : InOrder(u)

PutsPresent ==
  \A u \in Uploads : pc[u] \in {"storing", "creating"} => uploaded[u] \subseteq objects

RemovalsOfRows ==
  \A d \in Removals : pc[d] \in {"deleting", "cleaning", "removed"} =>
    /\ target[d] \in Uploads /\ pc[target[d]] \notin NotYet
    /\ doomed[d] = KeysOf(target[d], content[target[d]])
    /\ pc[d] # "deleting" => target[d] \notin Stored

(* Every object belongs to a row, to an upload that will keep or delete    *)
(* it, or to a removal that will delete it.                                *)
Owned(k) ==
  \/ \E a \in Stored : k \in assets[a].keys
  \/ \E u \in Uploads : pc[u] \in Processing /\ k \in uploaded[u]
  \/ \E d \in Removals : pc[d] = "cleaning" /\ k \in doomed[d]

ObjectsOwned == mishaps = {} => \A k \in objects : Owned(k)

(* An upload looks for a winner only once it has deleted its own objects. *)
LosersClean ==
  mishaps = {} => \A u \in Uploads : pc[u] = "rereading" => uploaded[u] \intersect objects = {}

IInv ==
  /\ TypeOK
  /\ SlotsAccounted
  /\ RowsOfUploads
  /\ CompensatingHaveNone
  /\ PutsInOrder
  /\ PutsPresent
  /\ RemovalsOfRows
  /\ RemovedOnce
  /\ ObjectsOwned
  /\ LosersClean
  /\ RowsHaveObjects
  /\ ReferencesStored
  /\ OneAssetPerContent

(***************************************************************************)
(* What a submission is stored as, for any file and any encoder.           *)
(***************************************************************************)

(* How many of the configured widths fit a picture. *)
LEMMA TiersValues ==
  ASSUME NEW width \in Nat
  PROVE  Tiers(width) = IF width < 640 THEN 0 ELSE IF width < 1280 THEN 1
                        ELSE IF width < 1920 THEN 2 ELSE 3
<1> DEFINE n == IF width < 640 THEN 0 ELSE IF width < 1280 THEN 1 ELSE IF width < 1920 THEN 2 ELSE 3
           fits == {i \in 1 .. 3 : RENDITION_WIDTHS[i] <= width}
<1>1. fits = 1 .. n /\ n \in 0 .. 3
  BY DEF RENDITION_WIDTHS
<1>2. Tiers(width) = Cardinality(fits)
  BY DEF Tiers
<1> HIDE DEF n, fits
<1>3. \A a, b \in Int : Cardinality(a .. b) = IF a > b THEN 0 ELSE b - a + 1
  BY FS_Interval
<1>4. Cardinality(1 .. n) = IF 1 > n THEN 0 ELSE n - 1 + 1
  <2>1. 1 \in Int /\ n \in Int
    BY <1>1
  <2>2. QED
    BY <1>3, <2>1
<1>5. Cardinality(fits) = n
  BY <1>1, <1>4
<1>6. QED
  BY <1>2, <1>5 DEF n

(* The renditions of a picture: at least one, ascending, none wider than   *)
(* the picture, and the widest shows all the detail that may be delivered. *)
Truthful(plan, width) ==
  /\ plan \in Seq(Nat) /\ Len(plan) \in 1 .. 3
  /\ \A i, j \in 1 .. Len(plan) : i < j => plan[i] < plan[j]
  /\ \A i \in 1 .. Len(plan) : plan[i] <= width /\ plan[i] <= 1920
  /\ plan[Len(plan)] = IF width < 1920 THEN width ELSE 1920

(* Every picture gets such a plan, whatever its width. *)
THEOREM PlanTruthful == \A width \in Nat : Truthful(planRenditions(width), width)
<1> SUFFICES ASSUME NEW width \in Nat PROVE Truthful(planRenditions(width), width)
  OBVIOUS
<1> DEFINE n    == Tiers(width)
           plan == planRenditions(width)
<1>1. n = IF width < 640 THEN 0 ELSE IF width < 1280 THEN 1 ELSE IF width < 1920 THEN 2 ELSE 3
  BY TiersValues
<1>2. RENDITION_WIDTHS[1] = 640 /\ RENDITION_WIDTHS[2] = 1280 /\ RENDITION_WIDTHS[3] = 1920
  BY DEF RENDITION_WIDTHS
<1> DEFINE between == n = 0 \/ (n < 3 /\ width > RENDITION_WIDTHS[n])
           m == IF between THEN n + 1 ELSE n
<1>3. plan = [i \in 1 .. m |-> IF i <= n THEN RENDITION_WIDTHS[i] ELSE width]
  BY DEF planRenditions
<1> HIDE DEF n, plan
<1>4. m \in 1 .. 3
  BY <1>1, <1>2
<1>5. \A i \in 1 .. m : (IF i <= n THEN RENDITION_WIDTHS[i] ELSE width) \in Nat
  BY <1>1, <1>2, <1>4
<1>6. plan \in Seq(Nat) /\ Len(plan) = m
  BY <1>3, <1>4, <1>5
<1>7. \A i \in 1 .. m : plan[i] = IF i <= n THEN RENDITION_WIDTHS[i] ELSE width
  BY <1>3
<1>8. \A i, j \in 1 .. m : i < j => plan[i] < plan[j]
  BY <1>1, <1>2, <1>4, <1>7
<1>9. \A i \in 1 .. m : plan[i] <= width /\ plan[i] <= 1920
  BY <1>1, <1>2, <1>4, <1>7
<1>10. plan[m] = IF width < 1920 THEN width ELSE 1920
  BY <1>1, <1>2, <1>4, <1>7
<1>11. QED
  BY <1>4, <1>6, <1>8, <1>9, <1>10 DEF plan, Truthful

(* A rendition is measured against the smallest configured width that      *)
(* holds it, so never against the budget of a larger picture.              *)
THEOREM TierTruthful ==
  ASSUME NEW width \in Nat, width <= 1920
  PROVE  LET i == budgetTierFor(width)
         IN  /\ i \in 1 .. 3 /\ RENDITION_WIDTHS[i] >= width
             /\ \A j \in 1 .. (i - 1) : RENDITION_WIDTHS[j] < width
<1>1. RENDITION_WIDTHS[1] = 640 /\ RENDITION_WIDTHS[2] = 1280 /\ RENDITION_WIDTHS[3] = 1920
  BY DEF RENDITION_WIDTHS
<1> DEFINE Holds(i) == RENDITION_WIDTHS[i] >= width /\ \A j \in 1 .. (i - 1) : RENDITION_WIDTHS[j] < width
<1>2. \E i \in 1 .. 3 : Holds(i)
  <2>1. CASE width <= 640
    <3>1. Holds(1)
      BY <1>1, <2>1
    <3>2. QED
      BY <3>1
  <2>2. CASE 640 < width /\ width <= 1280
    <3>1. Holds(2)
      BY <1>1, <2>2
    <3>2. QED
      BY <3>1
  <2>3. CASE 1280 < width
    <3>1. Holds(3)
      BY <1>1, <2>3
    <3>2. QED
      BY <3>1
  <2>4. QED
    BY <2>1, <2>2, <2>3
<1>3. budgetTierFor(width) = CHOOSE i \in 1 .. 3 : Holds(i)
  BY <1>1 DEF budgetTierFor
<1>4. budgetTierFor(width) \in 1 .. 3 /\ Holds(budgetTierFor(width))
  <2> HIDE DEF Holds
  <2>1. QED
    BY <1>2, <1>3
<1>5. QED
  BY <1>4

(* The ladder of a format descends to its floor in three steps.            *)
LEMMA Rungs ==
  ASSUME NEW format \in {"webp", "avif"}
  PROVE  LET floor == QUALITY_LADDER[format].floor
         IN  /\ \A n \in 0 .. 3 : Rung(format, n) \in floor .. QUALITY_LADDER[format].start
             /\ Rung(format, 3) = floor
             /\ \A m, n \in 0 .. 3 : m <= n => Rung(format, n) <= Rung(format, m)
             /\ \A m, n \in 0 .. 3 : m <= n /\ Rung(format, m) = floor => Rung(format, n) = floor
<1>1. CASE format = "webp"
  BY <1>1 DEF Rung, QUALITY_LADDER, QUALITY_STEP
<1>2. CASE format = "avif"
  BY <1>2 DEF Rung, QUALITY_LADDER, QUALITY_STEP
<1>3. QED
  BY <1>1, <1>2

(* Whatever the encoder makes of a picture: a rendition is flagged exactly *)
(* if no rung of its ladder meets the budget, and otherwise it has the     *)
(* highest quality that does.                                              *)
THEOREM QualityTruthful ==
  ASSUME NEW f \in Files, NEW width \in Nat, NEW format \in {"webp", "avif"}
  PROVE  /\ Quality(f, width, format) \in
              QUALITY_LADDER[format].floor .. QUALITY_LADDER[format].start
         /\ OverBudget(f, width, format) <=>
              \A n \in 0 .. 3 : ~Fits(f, width, format, Rung(format, n))
         /\ \A n \in 0 .. 3 : Fits(f, width, format, Rung(format, n)) =>
              Rung(format, n) <= Quality(f, width, format)
<1> DEFINE floor   == QUALITY_LADDER[format].floor
           Fit(n)  == Fits(f, width, format, Rung(format, n))
           Stop(n) == Fit(n) \/ Rung(format, n) = floor
           Last(n) == Stop(n) /\ \A m \in 0 .. (n - 1) : ~Stop(m)
           n0      == CHOOSE n \in 0 .. 3 : Last(n)
<1>1. Stop(3)
  BY Rungs
<1>2. \E n \in 0 .. 3 : Last(n)
  <2> HIDE DEF Stop
  <2>1. CASE Stop(0)
    <3>1. Last(0)
      BY <2>1
    <3>2. QED
      BY <3>1
  <2>2. CASE ~Stop(0) /\ Stop(1)
    <3>1. Last(1)
      BY <2>2
    <3>2. QED
      BY <3>1
  <2>3. CASE ~Stop(0) /\ ~Stop(1) /\ Stop(2)
    <3>1. Last(2)
      BY <2>3
    <3>2. QED
      BY <3>1
  <2>4. CASE ~Stop(0) /\ ~Stop(1) /\ ~Stop(2)
    <3>1. Last(3)
      BY <1>1, <2>4
    <3>2. QED
      BY <3>1
  <2>5. QED
    BY <2>1, <2>2, <2>3, <2>4
<1>3. n0 \in 0 .. 3 /\ Last(n0)
  <2> HIDE DEF Last
  <2>1. QED
    BY <1>2
<1>4. Quality(f, width, format) = Rung(format, n0)
  BY DEF Quality, Stops
<1> HIDE DEF n0
<1>5. OverBudget(f, width, format) <=> ~Fit(n0)
  BY <1>4 DEF OverBudget
<1>6. \A m \in 0 .. 3 : m < n0 => ~Fit(m)
  BY <1>3
<1>7. Fit(n0) \/ Rung(format, n0) = floor
  BY <1>3
<1>8. \A m \in 0 .. 3 : ~Fit(n0) => ~Fit(m)
  <2> SUFFICES ASSUME NEW m \in 0 .. 3, ~Fit(n0) PROVE ~Fit(m)
    OBVIOUS
  <2>1. CASE m < n0
    BY <1>6, <2>1
  <2>2. CASE n0 <= m
    <3>1. Rung(format, m) = Rung(format, n0)
      BY <1>3, <1>7, <2>2, Rungs
    <3>2. QED
      BY <3>1
  <2>3. QED
    BY <1>3, <2>1, <2>2
<1>9. \A m \in 0 .. 3 : Fit(m) => Rung(format, m) <= Rung(format, n0)
  <2> SUFFICES ASSUME NEW m \in 0 .. 3, Fit(m) PROVE Rung(format, m) <= Rung(format, n0)
    OBVIOUS
  <2>1. n0 <= m
    BY <1>3, <1>6
  <2> HIDE DEF Fit
  <2>2. QED
    BY <1>3, <2>1, Rungs
<1>10. Rung(format, n0) \in floor .. QUALITY_LADDER[format].start
  BY <1>3, Rungs
<1>11. QED
  <2> HIDE DEF Fit
  <2>1. OverBudget(f, width, format) <=> \A n \in 0 .. 3 : ~Fit(n)
    BY <1>3, <1>5, <1>8
  <2>2. QED
    BY <1>4, <1>9, <1>10, <2>1 DEF Fit

LEMMA FileFacts ==
  ASSUME NEW s \in Submissions
  PROVE  /\ s.file \in Files /\ MasterWidth(s.file) \in Nat
         /\ Kind(s) \in Kinds
BY FileType, SubmissionType DEF MasterWidth, Kind, Kinds

(* The pieces of a picture with m widths W: its master, then each width as *)
(* a WebP and as an AVIF. *)
PictureOf(s, W, m) ==
  /\ m \in 1 .. 3 /\ Len(Pieces[s]) = 1 + 2 * m
  /\ Pieces[s][1] = Master(s.file)
  /\ \A part \in 2 .. 1 + 2 * m : \E i \in 1 .. m :
       \/ part = 2 * i /\ Pieces[s][part] = Rendition(W[i], "webp")
       \/ part = 2 * i + 1 /\ Pieces[s][part] = Rendition(W[i], "avif")
  /\ \A i \in 1 .. m : Pieces[s][2 * i] = Rendition(W[i], "webp")
  /\ \A i, j \in 1 .. m : i < j => W[i] < W[j]
  /\ \A i \in 1 .. m : W[i] \in Nat /\ W[i] <= FullDetail(s.file)
  /\ W[m] = FullDetail(s.file)

LEMMA PiecesOfPicture ==
  ASSUME NEW s \in Submissions, Kind(s) = "IMAGE"
  PROVE  PictureOf(s, Widths(s), Len(Widths(s)))
<1> SUFFICES ASSUME NEW W, W = Widths(s), NEW m, m = Len(W)
             PROVE  PictureOf(s, W, m)
  OBVIOUS
<1> DEFINE width == MasterWidth(s.file)
<1>1. width \in Nat
  BY FileFacts
<1>2. /\ W \in Seq(Nat) /\ m \in 1 .. 3
      /\ \A i, j \in 1 .. m : i < j => W[i] < W[j]
      /\ \A i \in 1 .. m : W[i] <= width /\ W[i] <= 1920
      /\ W[m] = IF width < 1920 THEN width ELSE 1920
  <2>1. Truthful(W, width)
    BY <1>1, PlanTruthful DEF Widths
  <2>2. QED
    BY <2>1 DEF Truthful
<1>3. \A i \in 1 .. m : W[i] \in Nat /\ W[i] <= FullDetail(s.file)
  BY <1>2 DEF FullDetail
<1>4. W[m] = FullDetail(s.file)
  BY <1>2 DEF FullDetail
<1>5. Pieces[s] = [part \in 1 .. 1 + 2 * m |->
             IF part = 1 THEN Master(s.file)
             ELSE Rendition(W[part \div 2], DELIVERED_FORMATS[(part % 2) + 1])]
  BY DEF Pieces, Kinds
<1>6. Len(Pieces[s]) = 1 + 2 * m
  BY <1>2, <1>5
<1>7. DELIVERED_FORMATS[1] = "webp" /\ DELIVERED_FORMATS[2] = "avif"
  BY DEF DELIVERED_FORMATS
<1>8. \A i \in 1 .. 3 : (2 * i) \div 2 = i /\ (2 * i) % 2 = 0 /\ (2 * i + 1) \div 2 = i /\ (2 * i + 1) % 2 = 1
  OBVIOUS
<1>9. \A i \in 1 .. m : /\ Pieces[s][2 * i] = Rendition(W[i], "webp")
                        /\ Pieces[s][2 * i + 1] = Rendition(W[i], "avif")
  <2> SUFFICES ASSUME NEW i \in 1 .. m
               PROVE  Pieces[s][2 * i] = Rendition(W[i], "webp") /\ Pieces[s][2 * i + 1] = Rendition(W[i], "avif")
    OBVIOUS
  <2>1. i \in 1 .. 3 /\ 2 * i \in 2 .. 1 + 2 * m /\ 2 * i + 1 \in 2 .. 1 + 2 * m
    BY <1>2
  <2>2. \A part \in 2 .. 1 + 2 * m :
          Pieces[s][part] = Rendition(W[part \div 2], DELIVERED_FORMATS[(part % 2) + 1])
    BY <1>2, <1>5
  <2>3. /\ Pieces[s][2 * i] = Rendition(W[(2 * i) \div 2], DELIVERED_FORMATS[((2 * i) % 2) + 1])
        /\ Pieces[s][2 * i + 1] = Rendition(W[(2 * i + 1) \div 2], DELIVERED_FORMATS[((2 * i + 1) % 2) + 1])
    BY <2>1, <2>2, Zenon
  <2>4. /\ (2 * i) \div 2 = i /\ ((2 * i) % 2) + 1 = 1
        /\ (2 * i + 1) \div 2 = i /\ ((2 * i + 1) % 2) + 1 = 2
    BY <1>8, <2>1
  <2>5. QED
    BY <1>7, <2>3, <2>4, Zenon
<1>10. \A part \in 2 .. 1 + 2 * m : \E i \in 1 .. m : part = 2 * i \/ part = 2 * i + 1
  <2> SUFFICES ASSUME NEW part \in 2 .. 1 + 2 * m
               PROVE  \E i \in 1 .. m : part = 2 * i \/ part = 2 * i + 1
    OBVIOUS
  <2>1. CASE part = 2 \/ part = 3
    <3>1. 1 \in 1 .. m /\ (part = 2 * 1 \/ part = 2 * 1 + 1)
      BY <1>2, <2>1
    <3>2. QED
      BY <3>1
  <2>2. CASE part = 4 \/ part = 5
    <3>1. 2 \in 1 .. m /\ (part = 2 * 2 \/ part = 2 * 2 + 1)
      BY <1>2, <2>2
    <3>2. QED
      BY <3>1
  <2>3. CASE part = 6 \/ part = 7
    <3>1. 3 \in 1 .. m /\ (part = 2 * 3 \/ part = 2 * 3 + 1)
      BY <1>2, <2>3
    <3>2. QED
      BY <3>1
  <2>4. QED
    BY <1>2, <2>1, <2>2, <2>3
<1>11. \A part \in 2 .. 1 + 2 * m : \E i \in 1 .. m :
         \/ part = 2 * i /\ Pieces[s][part] = Rendition(W[i], "webp")
         \/ part = 2 * i + 1 /\ Pieces[s][part] = Rendition(W[i], "avif")
  BY <1>9, <1>10
<1>12. Pieces[s][1] = Master(s.file)
  BY <1>2, <1>5
<1>13. \A i \in 1 .. m : Pieces[s][2 * i] = Rendition(W[i], "webp")
  BY <1>9
<1>14. m \in 1 .. 3 /\ \A i, j \in 1 .. m : i < j => W[i] < W[j]
  BY <1>2
<1>15. QED
  BY <1>3, <1>4, <1>6, <1>11, <1>12, <1>13, <1>14, Zenon DEF PictureOf

LEMMA PieceRoles ==
  /\ \A f \in Files : Master(f).role = "master" /\ Master(f) # Document
  /\ \A w, format : /\ Rendition(w, format).role = "rendition" /\ Rendition(w, format) # Document
                    /\ Rendition(w, format).width = w /\ Rendition(w, format).format = format
  /\ Document.role = "document"
BY DEF Master, Rendition, Document

(* What a submission is stored as: no two pieces alike, hence no two keys. *)
LEMMA PiecesFacts ==
  ASSUME NEW s \in Submissions
  PROVE  /\ Len(Pieces[s]) \in Nat \ {0}
         /\ \A p, q \in 1 .. Len(Pieces[s]) : Pieces[s][p] = Pieces[s][q] => p = q
         /\ \A p \in 1 .. Len(Pieces[s]) : Pieces[s][p] \in PieceType
         /\ DOMAIN Pieces[s] = 1 .. Len(Pieces[s])
<1>1. s.file \in Files /\ MasterWidth(s.file) \in Nat /\ Kind(s) \in {"IMAGE", "PDF"}
  BY FileFacts DEF Kinds
<1>2. CASE Kind(s) = "PDF"
  <2>1. Pieces[s] = <<Document>>
    BY <1>2 DEF Pieces
  <2>2. Document \in PieceType
    BY DEF Document, PieceType
  <2>3. QED
    BY <2>1, <2>2
<1>3. CASE Kind(s) = "IMAGE"
  <2> DEFINE m == Len(Widths(s))
             W == Widths(s)
  <2>1. PictureOf(s, W, m)
    BY <1>3, PiecesOfPicture
  <2>2. m \in 1 .. 3 /\ Len(Pieces[s]) = 1 + 2 * m /\ Pieces[s][1] = Master(s.file)
    BY <2>1, Zenon DEF PictureOf
  <2>3. \A part \in 2 .. 1 + 2 * m : \E i \in 1 .. m :
          \/ part = 2 * i /\ Pieces[s][part] = Rendition(W[i], "webp")
          \/ part = 2 * i + 1 /\ Pieces[s][part] = Rendition(W[i], "avif")
    BY <2>1, Zenon DEF PictureOf
  <2>4. /\ \A i, j \in 1 .. m : i < j => W[i] < W[j]
        /\ \A i \in 1 .. m : W[i] \in Nat
    BY <2>1 DEF PictureOf
  <2>5. Master(s.file) \in PieceType /\ \A w \in Nat : Rendition(w, "webp") \in PieceType /\ Rendition(w, "avif") \in PieceType
    BY <1>1 DEF Master, Rendition, PieceType
  <2>6. DOMAIN Pieces[s] = 1 .. Len(Pieces[s])
    BY <1>3, <2>2 DEF Pieces, Kinds
  <2> HIDE DEF m, W
  <2>7. \A p \in 1 .. 1 + 2 * m : p = 1 \/ p \in 2 .. 1 + 2 * m
    BY <2>2
  <2>8. \A p \in 1 .. 1 + 2 * m : Pieces[s][p] \in PieceType
    <3>1. ASSUME NEW p \in 2 .. 1 + 2 * m PROVE Pieces[s][p] \in PieceType
      <4>1. PICK i \in 1 .. m : \/ Pieces[s][p] = Rendition(W[i], "webp")
                                \/ Pieces[s][p] = Rendition(W[i], "avif")
        BY <2>3
      <4>2. W[i] \in Nat
        BY <2>4
      <4>3. QED
        BY <2>5, <4>1, <4>2
    <3>2. QED
      BY <2>2, <2>5, <2>7, <3>1
  <2>9. \A i, j \in 1 .. m : W[i] = W[j] => i = j
    BY <2>2, <2>4
  <2>10. ASSUME NEW p \in 2 .. 1 + 2 * m, NEW q \in 2 .. 1 + 2 * m, Pieces[s][p] = Pieces[s][q]
        PROVE  p = q
    <3>0. \A part \in 2 .. 1 + 2 * m : \E i \in 1 .. m :
             \/ part = 2 * i /\ Pieces[s][part] = Rendition(W[i], "webp")
             \/ part = 2 * i + 1 /\ Pieces[s][part] = Rendition(W[i], "avif")
      BY <2>3
    <3>1. PICK i \in 1 .. m :
            \/ p = 2 * i /\ Pieces[s][p] = Rendition(W[i], "webp")
            \/ p = 2 * i + 1 /\ Pieces[s][p] = Rendition(W[i], "avif")
      BY <3>0
    <3>2. PICK j \in 1 .. m :
            \/ q = 2 * j /\ Pieces[s][q] = Rendition(W[j], "webp")
            \/ q = 2 * j + 1 /\ Pieces[s][q] = Rendition(W[j], "avif")
      BY <3>0
    <3>3. W[i] = W[j]
      <4>1. Pieces[s][p].width = W[i] /\ Pieces[s][q].width = W[j]
        BY <3>1, <3>2 DEF Rendition
      <4>2. QED
        BY <2>10, <4>1
    <3>4. i = j
      BY <2>9, <3>3
    <3>5. "webp" # "avif"
      OBVIOUS
    <3>6. QED
      <4>1. Pieces[s][p].format = Pieces[s][q].format
        BY <2>10
      <4>2. p = 2 * i <=> q = 2 * i
        BY <2>2, <3>1, <3>2, <3>4, <3>5, <4>1 DEF Rendition
      <4>3. QED
        BY <2>2, <3>1, <3>2, <3>4, <4>2
  <2>11. \A p \in 2 .. 1 + 2 * m : Pieces[s][p] # Master(s.file)
    <3> SUFFICES ASSUME NEW p \in 2 .. 1 + 2 * m PROVE Pieces[s][p] # Master(s.file)
      OBVIOUS
    <3>1. PICK i \in 1 .. m : \/ Pieces[s][p] = Rendition(W[i], "webp")
                              \/ Pieces[s][p] = Rendition(W[i], "avif")
      BY <2>3
    <3>2. QED
      BY <3>1 DEF Rendition, Master
  <2>12. \A p, q \in 1 .. 1 + 2 * m : Pieces[s][p] = Pieces[s][q] => p = q
    BY <2>2, <2>7, <2>10, <2>11
  <2>13. QED
    BY <2>2, <2>6, <2>8, <2>12
<1>4. QED
  BY <1>1, <1>2, <1>3

(* The widest WebP of a picture shows its full detail, none is wider, and  *)
(* no piece of a picture is a document. *)
LEMMA WidestPiece ==
  ASSUME NEW s \in Submissions, Kind(s) = "IMAGE"
  PROVE  /\ FullDetail(s.file) \in Nat
         /\ \E p \in 1 .. Len(Pieces[s]) : Pieces[s][p] = Rendition(FullDetail(s.file), "webp")
         /\ \A p \in 1 .. Len(Pieces[s]) : Pieces[s][p].role = "rendition" =>
              \E w \in Nat : /\ w <= FullDetail(s.file)
                             /\ \/ Pieces[s][p] = Rendition(w, "webp")
                                \/ Pieces[s][p] = Rendition(w, "avif")
<1> DEFINE m == Len(Widths(s))
           W == Widths(s)
           full == FullDetail(s.file)
<1>1. PictureOf(s, W, m)
  BY PiecesOfPicture
<1> HIDE DEF m, W, full
<1>2. m \in 1 .. 3 /\ Len(Pieces[s]) = 1 + 2 * m /\ Pieces[s][1] = Master(s.file) /\ W[m] = full
  BY <1>1, Zenon DEF PictureOf, full
<1>3. \A part \in 2 .. 1 + 2 * m : \E i \in 1 .. m :
        Pieces[s][part] = Rendition(W[i], "webp") \/ Pieces[s][part] = Rendition(W[i], "avif")
  BY <1>1, Zenon DEF PictureOf
<1>4. \A i \in 1 .. m : W[i] \in Nat /\ W[i] <= full /\ Pieces[s][2 * i] = Rendition(W[i], "webp")
  BY <1>1, Zenon DEF PictureOf, full
<1>5. full \in Nat
  BY <1>2, <1>4
<1>6. \E p \in 1 .. Len(Pieces[s]) : Pieces[s][p] = Rendition(full, "webp")
  <2>1. m \in 1 .. m /\ 2 * m \in 1 .. Len(Pieces[s])
    BY <1>2
  <2>2. Pieces[s][2 * m] = Rendition(full, "webp")
    BY <1>2, <1>4, <2>1
  <2>3. QED
    BY <2>1, <2>2
<1>7. ASSUME NEW p \in 1 .. Len(Pieces[s]), Pieces[s][p].role = "rendition"
      PROVE  \E w \in Nat : /\ w <= full
                            /\ \/ Pieces[s][p] = Rendition(w, "webp")
                               \/ Pieces[s][p] = Rendition(w, "avif")
  <2>1. p # 1
    BY <1>2, <1>7 DEF Master
  <2>2. p \in 2 .. 1 + 2 * m
    BY <1>2, <2>1
  <2>3. PICK i \in 1 .. m :
          Pieces[s][p] = Rendition(W[i], "webp") \/ Pieces[s][p] = Rendition(W[i], "avif")
    BY <1>3, <2>2
  <2>4. QED
    BY <1>4, <2>3
<1>8. QED
  BY <1>5, <1>6, <1>7, Zenon DEF full
LEMMA FlaggedFacts ==
  ASSUME NEW s \in Submissions
  PROVE  Flagged[s] \subseteq PieceType
BY PiecesFacts DEF Flagged

(***************************************************************************)
(* Keys and slots.                                                         *)
(***************************************************************************)

(* The keys of an upload lie under its prefix. *)
LEMMA KeyFacts ==
  ASSUME NEW u \in Uploads, content \in [Uploads -> Submissions]
  PROVE  /\ KeysOf(u, content[u]) \subseteq AllKeys
         /\ \A k \in KeysOf(u, content[u]) : k.prefix = u
         /\ FirstKeys(u, Len(Pieces[content[u]])) = KeysOf(u, content[u])
         /\ \A n \in Nat : n <= Len(Pieces[content[u]]) => FirstKeys(u, n) \subseteq KeysOf(u, content[u])
         /\ Len(Pieces[content[u]]) \in Nat \ {0}
         /\ \A n \in Nat : n < Len(Pieces[content[u]]) => Key(u, content[u], n + 1) \notin FirstKeys(u, n)
<1>1. content[u] \in Submissions /\ Len(Pieces[content[u]]) \in Nat \ {0}
  BY PiecesFacts
<1>2. KeysOf(u, content[u]) \subseteq AllKeys
  BY <1>1 DEF AllKeys
<1>3. \A k \in KeysOf(u, content[u]) : k.prefix = u
  BY DEF KeysOf, Key
<1>4. FirstKeys(u, Len(Pieces[content[u]])) = KeysOf(u, content[u])
  BY DEF FirstKeys, KeysOf
<1>5. \A n \in Nat : n <= Len(Pieces[content[u]]) => FirstKeys(u, n) \subseteq KeysOf(u, content[u])
  BY <1>1 DEF FirstKeys, KeysOf
<1>6. \A n \in Nat : n < Len(Pieces[content[u]]) => Key(u, content[u], n + 1) \notin FirstKeys(u, n)
  <2> SUFFICES ASSUME NEW n \in Nat, n < Len(Pieces[content[u]]), NEW part \in 1 .. n,
                      Key(u, content[u], n + 1) = Key(u, content[u], part)
               PROVE  FALSE
    BY DEF FirstKeys
  <2>1. Pieces[content[u]][n + 1] = Pieces[content[u]][part]
    BY DEF Key
  <2>2. n + 1 \in 1 .. Len(Pieces[content[u]]) /\ part \in 1 .. Len(Pieces[content[u]])
    BY <1>1
  <2>3. n + 1 = part
    BY <1>1, <2>1, <2>2, PiecesFacts
  <2>4. QED
    BY <2>3
<1>7. QED
  BY <1>1, <1>2, <1>3, <1>4, <1>5, <1>6

(* Whose keys are whose, in every state of the invariant. *)
LEMMA Prefixes ==
  ASSUME IInv
  PROVE  /\ \A u \in Uploads : \A k \in uploaded[u] : k.prefix = u /\ k \in KeysOf(u, content[u])
         /\ \A a \in Stored : \A k \in assets[a].keys : k.prefix = a
         /\ \A d \in Removals : pc[d] \in {"deleting", "cleaning", "removed"} =>
              \A k \in doomed[d] : k.prefix = target[d]
         /\ \A u \in Uploads : pc[u] = "creating" => uploaded[u] = KeysOf(u, content[u])
<1>1. content \in [Uploads -> Submissions]
  BY DEF IInv, TypeOK
<1>2. ASSUME NEW u \in Uploads
      PROVE  /\ uploaded[u] \subseteq KeysOf(u, content[u])
             /\ pc[u] = "creating" => uploaded[u] = KeysOf(u, content[u])
  <2>1. /\ IsFiniteSet(uploaded[u]) /\ Cardinality(uploaded[u]) <= Len(Pieces[content[u]])
        /\ uploaded[u] = FirstKeys(u, Cardinality(uploaded[u]))
        /\ pc[u] = "creating" => Cardinality(uploaded[u]) = Len(Pieces[content[u]])
    BY DEF IInv, PutsInOrder, InOrder
  <2>2. Cardinality(uploaded[u]) \in Nat
    BY <2>1, FS_CardinalityType
  <2>3. QED
    BY <1>1, <2>1, <2>2, KeyFacts
<1>3. \A u \in Uploads : \A k \in uploaded[u] : k.prefix = u /\ k \in KeysOf(u, content[u])
  BY <1>1, <1>2, KeyFacts
<1>4. \A a \in Stored : \A k \in assets[a].keys : k.prefix = a
  BY <1>1, KeyFacts DEF IInv, RowsOfUploads, Stored
<1>5. \A d \in Removals : pc[d] \in {"deleting", "cleaning", "removed"} =>
        \A k \in doomed[d] : k.prefix = target[d]
  BY <1>1, KeyFacts DEF IInv, RemovalsOfRows
<1>6. QED
  BY <1>2, <1>3, <1>4, <1>5

Inside == {u \in Uploads : pc[u] \in Processing}

(* One upload enters, leaves, or moves within the limiter. *)
LEMMA Slots ==
  ASSUME IInv, NEW u \in Uploads, NEW label, Goto(u, label)
  PROVE  /\ active \in 0 .. MaxConcurrent /\ MaxConcurrent \in Nat
         /\ (pc[u] \in Processing <=> label \in Processing) /\ active' = active =>
              active' \in 0 .. MaxConcurrent /\ SlotsAccounted'
         /\ pc[u] \notin Processing /\ label \in Processing /\ active < MaxConcurrent
              /\ active' = active + 1 =>
              active' \in 0 .. MaxConcurrent /\ SlotsAccounted'
         /\ pc[u] \in Processing /\ label \notin Processing /\ active' = active - 1 =>
              active' \in 0 .. MaxConcurrent /\ SlotsAccounted'
<1>1. IsFiniteSet(Inside) /\ Cardinality(Inside) \in Nat
  BY UploadsFinite, FS_Subset, FS_CardinalityType DEF Inside
<1>2. active = Cardinality(Inside) /\ active \in 0 .. MaxConcurrent /\ MaxConcurrent \in Nat
  BY CapType DEF IInv, TypeOK, SlotsAccounted, Inside
<1>3. SlotsAccounted' <=> active' = Cardinality(Inside')
  BY DEF SlotsAccounted, Inside
<1>4. pc' = [pc EXCEPT ![u] = label] /\ u \in DOMAIN pc
  BY DEF Goto, IInv, TypeOK, Requests
<1>5. CASE pc[u] \in Processing <=> label \in Processing
  <2>1. Inside' = Inside
    BY <1>4, <1>5 DEF Inside
  <2>2. QED
    BY <1>2, <1>3, <1>5, <2>1
<1>6. CASE pc[u] \notin Processing /\ label \in Processing
  <2>1. Inside' = Inside \union {u} /\ u \notin Inside
    BY <1>4, <1>6 DEF Inside
  <2>2. Cardinality(Inside') = Cardinality(Inside) + 1
    BY <1>1, <2>1, FS_AddElement
  <2>3. QED
    BY <1>1, <1>2, <1>3, <1>6, <2>2
<1>7. CASE pc[u] \in Processing /\ label \notin Processing
  <2>1. Inside' = Inside \ {u} /\ u \in Inside
    BY <1>4, <1>7 DEF Inside
  <2>2. Cardinality(Inside') = Cardinality(Inside) - 1 /\ Cardinality(Inside') \in Nat
    BY <1>1, <2>1, FS_RemoveElement, FS_CardinalityType
  <2>3. QED
    BY <1>1, <1>2, <1>3, <1>7, <2>2
<1>8. QED
  BY <1>5, <1>6, <1>7

(* A removal's label is no slot. *)
LEMMA SlotsKept ==
  ASSUME IInv, NEW d \in Removals, NEW label, Goto(d, label), UNCHANGED active
  PROVE  active' \in 0 .. MaxConcurrent /\ SlotsAccounted'
<1>1. \A u \in Uploads : pc'[u] = pc[u]
  BY DistinctRequests DEF Goto, IInv, TypeOK, Requests
<1>2. QED
  BY <1>1 DEF IInv, TypeOK, SlotsAccounted

(***************************************************************************)
(* Steps that touch no object and no row.                                  *)
(***************************************************************************)

(* An upload that has no row moves on, or ends without one. *)
LEMMA UploadMoves ==
  ASSUME IInv, NEW u \in Uploads, NEW label, Goto(u, label),
         UNCHANGED <<assets, objects, refs, content, uploaded, target, doomed, mishaps>>,
         active' \in 0 .. MaxConcurrent, SlotsAccounted',
         pc[u] \in NotYet,
         label \in {"hashed", "unknown", "processing", "storing", "compensating", "raceLost"} \union Ended,
         label \in {"hashed", "unknown", "processing"} => pc[u] \in {"new", "hashed", "unknown"},
         label = "storing" => pc[u] = "processing",
         mishaps = {} /\ pc[u] \in Processing /\ label \notin Processing =>
           uploaded[u] \intersect objects = {}
  PROVE  IInv'
<1>1. /\ pc' \in [Requests -> {"new", "hashed", "unknown", "deleting", "cleaning"} \union Processing \union Ended]
      /\ pc'[u] = label /\ \A r \in Requests : r # u => pc'[r] = pc[r]
      /\ u \in Requests
  BY DEF Goto, IInv, TypeOK, Requests, Processing
<1>2. Uploads \subseteq Requests /\ Removals \subseteq Requests /\ u \notin Removals
  BY DistinctRequests DEF Requests
<1>3. TypeOK'
  BY <1>1 DEF IInv, TypeOK
<1>4. RowsOfUploads' /\ CompensatingHaveNone'
  BY <1>1, <1>2 DEF IInv, RowsOfUploads, CompensatingHaveNone, Stored, KeysOf, Kind
<1>5. PutsInOrder'
  <2> SUFFICES ASSUME NEW v \in Uploads, NEW n, n = Cardinality(uploaded[v])
               PROVE  /\ IsFiniteSet(uploaded[v]) /\ n <= Len(Pieces[content[v]])
                      /\ uploaded[v] = FirstKeys(v, n)
                      /\ pc'[v] \in {"new", "hashed", "unknown", "processing"} => n = 0
                      /\ pc'[v] = "storing" => n < Len(Pieces[content[v]])
                      /\ pc'[v] = "creating" => n = Len(Pieces[content[v]])
    BY DEF PutsInOrder, InOrder, FirstKeys
  <2>1. /\ IsFiniteSet(uploaded[v]) /\ n <= Len(Pieces[content[v]])
        /\ uploaded[v] = FirstKeys(v, n)
        /\ pc[v] \in {"new", "hashed", "unknown", "processing"} => n = 0
        /\ pc[v] = "storing" => n < Len(Pieces[content[v]])
        /\ pc[v] = "creating" => n = Len(Pieces[content[v]])
    BY DEF IInv, PutsInOrder, InOrder
  <2>2. Len(Pieces[content[v]]) \in Nat \ {0}
    BY KeyFacts DEF IInv, TypeOK
  <2>3. CASE v = u
    BY <1>1, <2>1, <2>2, <2>3 DEF Ended
  <2>4. CASE v # u
    BY <1>1, <1>2, <2>1, <2>4
  <2>5. QED
    BY <2>3, <2>4
<1>6. PutsPresent'
  <2>1. label = "storing" => uploaded[u] \subseteq objects
    <3>1. ASSUME label = "storing" PROVE uploaded[u] = {}
      BY <3>1, FS_EmptySet DEF IInv, PutsInOrder, InOrder
    <3>2. QED
      BY <3>1
  <2>2. QED
    BY <1>1, <1>2, <2>1 DEF IInv, PutsPresent, Ended
<1>7. RemovalsOfRows' /\ RemovedOnce'
  BY <1>1, <1>2 DEF IInv, RemovalsOfRows, RemovedOnce, Stored, KeysOf
<1>8. ObjectsOwned'
  <2> SUFFICES ASSUME mishaps = {}, NEW k \in objects
               PROVE  Owned(k)'
    BY DEF ObjectsOwned
  <2>1. Owned(k)
    BY DEF IInv, ObjectsOwned
  <2>2. CASE pc[u] \in Processing /\ k \in uploaded[u]
    BY <1>1, <2>2 DEF Owned
  <2>3. CASE ~(pc[u] \in Processing /\ k \in uploaded[u])
    BY <1>1, <1>2, <2>1, <2>3 DEF Owned, Stored
  <2>4. QED
    BY <2>2, <2>3
<1>9. LosersClean'
  BY <1>1, <1>2 DEF IInv, LosersClean, Ended
<1>10. RowsHaveObjects' /\ ReferencesStored' /\ OneAssetPerContent'
  BY DEF IInv, RowsHaveObjects, ReferencesStored, OneAssetPerContent, Stored
<1>11. QED
  BY <1>3, <1>4, <1>5, <1>6, <1>7, <1>8, <1>9, <1>10 DEF IInv

LEMMA QuietUploadStep ==
  ASSUME IInv, NEW u \in Uploads,
         Validate(u) \/ Lookup(u) \/ Admit(u) \/ Process(u) \/ CreateDuplicate(u) \/ Reread(u)
  PROVE  IInv'
<1> USE DEF NotYet, Ended, Processing
<1>1. CASE Validate(u)
  <2>1. PICK label \in {"hashed", "tooLarge", "unprocessable"} : Goto(u, label)
    BY <1>1 DEF Validate
  <2>2. active' \in 0 .. MaxConcurrent /\ SlotsAccounted'
    BY <1>1, <2>1, Slots DEF Validate
  <2>3. QED
    BY <1>1, <2>1, <2>2, UploadMoves DEF Validate
<1>2. CASE Admit(u)
  <2>1. PICK label \in {"busy", "processing"} :
          Goto(u, label) /\ IF label = "processing" THEN active < MaxConcurrent /\ active' = active + 1
                                                    ELSE UNCHANGED active
    BY <1>2 DEF Admit
  <2>2. active' \in 0 .. MaxConcurrent /\ SlotsAccounted'
    BY <1>2, <2>1, Slots DEF Admit
  <2>3. QED
    BY <1>2, <2>1, <2>2, UploadMoves DEF Admit
<1>3. CASE Process(u)
  <2>1. PICK label \in {"storing", "failed", "unprocessable"} :
          Goto(u, label) /\ active' = IF label = "storing" THEN active ELSE active - 1
    BY <1>3 DEF Process, Leave
  <2>2. active' \in 0 .. MaxConcurrent /\ SlotsAccounted'
    BY <1>3, <2>1, Slots DEF Process
  <2>3. uploaded[u] = {}
    BY <1>3, FS_EmptySet DEF Process, IInv, PutsInOrder, InOrder
  <2>4. QED
    BY <1>3, <2>1, <2>2, <2>3, UploadMoves DEF Process
<1>4. CASE CreateDuplicate(u)
  <2>1. PICK label \in {"raceLost", "compensating"} : Goto(u, label)
    BY <1>4 DEF CreateDuplicate
  <2>2. active' \in 0 .. MaxConcurrent /\ SlotsAccounted'
    BY <1>4, <2>1, Slots DEF CreateDuplicate
  <2>3. QED
    BY <1>4, <2>1, <2>2, UploadMoves DEF CreateDuplicate
<1>5. CASE Reread(u)
  <2>1. PICK label \in {"deduplicated", "failed"} : Goto(u, label) /\ active' = active - 1
    BY <1>5 DEF Reread, Leave
  <2>2. active' \in 0 .. MaxConcurrent /\ SlotsAccounted'
    BY <1>5, <2>1, Slots DEF Reread
  <2>3. QED
    BY <1>5, <2>1, <2>2, UploadMoves DEF Reread, IInv, LosersClean
<1>6. CASE Lookup(u)
  <2>1. PICK label \in {"deduplicated", "unknown"} : Goto(u, label)
    BY <1>6 DEF Lookup
  <2>2. active' \in 0 .. MaxConcurrent /\ SlotsAccounted'
    BY <1>6, <2>1, Slots DEF Lookup
  <2>3. QED
    BY <1>6, <2>1, <2>2, UploadMoves DEF Lookup
<1>7. QED
  BY <1>1, <1>2, <1>3, <1>4, <1>5, <1>6

(***************************************************************************)
(* Puts.                                                                   *)
(***************************************************************************)

(* Objects that appear under an upload's prefix, when it has no row, leave *)
(* everyone else's as they were. *)
LEMMA PutStep ==
  ASSUME IInv, NEW u \in Uploads, Put(u)
  PROVE  IInv'
<1> DEFINE n   == Cardinality(uploaded[u])
           key == NextKey(u)
           label == IF n + 1 = Len(Pieces[content[u]]) THEN "creating" ELSE "storing"
<1>1. /\ pc[u] = "storing" /\ Goto(u, label)
      /\ objects' = objects \union {key}
      /\ uploaded' = [uploaded EXCEPT ![u] = @ \union {key}]
      /\ UNCHANGED <<assets, refs, active, content, target, doomed, mishaps>>
  BY DEF Put
<1>2. /\ n \in Nat /\ n < Len(Pieces[content[u]]) /\ Len(Pieces[content[u]]) \in Nat \ {0}
      /\ IsFiniteSet(uploaded[u]) /\ uploaded[u] = FirstKeys(u, n)
  BY <1>1, KeyFacts, FS_CardinalityType DEF IInv, PutsInOrder, InOrder, TypeOK
<1>3. /\ key = Key(u, content[u], n + 1) /\ key.prefix = u /\ key \notin uploaded[u]
      /\ key \in KeysOf(u, content[u])
  <2>1. key = Key(u, content[u], n + 1) /\ key.prefix = u
    BY DEF NextKey, Key
  <2>2. key \notin uploaded[u]
    BY <1>2, <2>1, KeyFacts DEF IInv, TypeOK
  <2>3. n + 1 \in 1 .. Len(Pieces[content[u]])
    BY <1>2
  <2>4. key \in KeysOf(u, content[u])
    BY <2>1, <2>3 DEF KeysOf
  <2>5. QED
    BY <2>1, <2>2, <2>4
<1> HIDE DEF key, n
<1>4. /\ Cardinality(uploaded[u] \union {key}) = n + 1 /\ IsFiniteSet(uploaded[u] \union {key})
      /\ uploaded[u] \union {key} = FirstKeys(u, n + 1)
  <2>1. Cardinality(uploaded[u] \union {key}) = n + 1 /\ IsFiniteSet(uploaded[u] \union {key})
    BY <1>2, <1>3, FS_AddElement DEF n
  <2>2. 1 .. (n + 1) = (1 .. n) \union {n + 1}
    BY <1>2
  <2>3. FirstKeys(u, n + 1) = FirstKeys(u, n) \union {Key(u, content[u], n + 1)}
    BY <2>2 DEF FirstKeys
  <2>4. QED
    BY <1>2, <1>3, <2>1, <2>3
<1>5. /\ pc' \in [Requests -> {"new", "hashed", "unknown", "deleting", "cleaning"} \union Processing \union Ended]
      /\ pc'[u] = label /\ \A r \in Requests : r # u => pc'[r] = pc[r]
      /\ uploaded' \in [Uploads -> SUBSET AllKeys] /\ uploaded'[u] = uploaded[u] \union {key}
      /\ \A v \in Uploads : v # u => uploaded'[v] = uploaded[v]
      /\ objects' \subseteq AllKeys
      /\ u \in Requests /\ u \notin Stored
  <2>1. key \in AllKeys
    BY <1>3, KeyFacts DEF IInv, TypeOK
  <2>2. u \notin Stored
    BY <1>1 DEF IInv, RowsOfUploads, NotYet
  <2>3. QED
    BY <1>1, <2>1, <2>2 DEF Goto, IInv, TypeOK, Requests, Processing
<1>6. Uploads \subseteq Requests /\ Removals \subseteq Requests /\ u \notin Removals
  BY DistinctRequests DEF Requests
<1>7. active' \in 0 .. MaxConcurrent /\ SlotsAccounted'
  BY <1>1, Slots DEF Processing
<1>8. TypeOK'
  BY <1>1, <1>5, <1>7 DEF IInv, TypeOK
<1>9. RowsOfUploads' /\ CompensatingHaveNone'
  BY <1>1, <1>5, <1>6 DEF IInv, RowsOfUploads, CompensatingHaveNone, Stored, KeysOf, Kind
<1>10. PutsInOrder'
  <2>1. InOrder(u)'
    <3>1. uploaded'[u] = {Key(u, content'[u], part) : part \in 1 .. (n + 1)}
      BY <1>1, <1>4, <1>5 DEF FirstKeys
    <3>2. Cardinality(uploaded'[u]) = n + 1 /\ IsFiniteSet(uploaded'[u])
      BY <1>4, <1>5
    <3>3. QED
      <4>1. uploaded'[u] = {Key(u, content'[u], part) : part \in 1 .. Cardinality(uploaded'[u])}
        BY <3>1, <3>2
      <4>2. pc'[u] = label /\ content' = content
        BY <1>1, <1>5
      <4>3. QED
        BY <1>2, <3>2, <4>1, <4>2 DEF InOrder, FirstKeys
  <2>2. ASSUME NEW v \in Uploads, v # u PROVE InOrder(v)'
    <3>1. uploaded'[v] = uploaded[v] /\ pc'[v] = pc[v] /\ content' = content
      BY <1>1, <1>5, <1>6, <2>2
    <3>2. InOrder(v)
      BY DEF IInv, PutsInOrder
    <3>3. QED
      BY <3>1, <3>2 DEF InOrder, FirstKeys
  <2>3. QED
    BY <2>1, <2>2 DEF PutsInOrder
<1>11. PutsPresent'
  BY <1>1, <1>5, <1>6 DEF IInv, PutsPresent
<1>12. RemovalsOfRows' /\ RemovedOnce'
  BY <1>1, <1>5, <1>6 DEF IInv, RemovalsOfRows, RemovedOnce, Stored, KeysOf, NotYet
<1>13. ObjectsOwned'
  <2> SUFFICES ASSUME mishaps = {}, NEW k \in objects'
               PROVE  Owned(k)'
    BY <1>1 DEF ObjectsOwned
  <2>1. pc'[u] \in Processing
    BY <1>5 DEF Processing
  <2>2. CASE k = key
    BY <1>5, <2>1, <2>2 DEF Owned
  <2>3. CASE k # key
    <3>1. Owned(k)
      BY <1>1, <2>3 DEF IInv, ObjectsOwned
    <3>2. QED
      BY <1>1, <1>5, <1>6, <2>1, <3>1 DEF Owned, Stored
  <2>4. QED
    BY <2>2, <2>3
<1>14. LosersClean'
  BY <1>1, <1>3, <1>5, <1>6, Prefixes DEF IInv, LosersClean
<1>15. RowsHaveObjects' /\ ReferencesStored' /\ OneAssetPerContent'
  BY <1>1 DEF IInv, RowsHaveObjects, ReferencesStored, OneAssetPerContent, Stored
<1>16. QED
  BY <1>7, <1>8, <1>9, <1>10, <1>11, <1>12, <1>13, <1>14, <1>15 DEF IInv

LEMMA PutRejectedStep ==
  ASSUME IInv, NEW u \in Uploads, PutRejected(u)
  PROVE  IInv'
<1>1. /\ pc[u] = "storing" /\ Goto(u, "compensating")
      /\ UNCHANGED <<assets, refs, active, content, uploaded, target, doomed>>
      /\ \/ UNCHANGED <<objects, mishaps>>
         \/ objects' = objects \union {NextKey(u)} /\ mishaps' = mishaps \union {"lostPut"}
  BY DEF PutRejected, Note
<1>2. CASE UNCHANGED <<objects, mishaps>>
  <2>1. active' \in 0 .. MaxConcurrent /\ SlotsAccounted'
    BY <1>1, Slots DEF Processing
  <2>2. QED
    BY <1>1, <1>2, <2>1, UploadMoves DEF NotYet, Ended, Processing
<1>3. CASE objects' = objects \union {NextKey(u)} /\ mishaps' = mishaps \union {"lostPut"}
  <2>1. /\ pc' \in [Requests -> {"new", "hashed", "unknown", "deleting", "cleaning"} \union Processing \union Ended]
        /\ pc'[u] = "compensating" /\ \A r \in Requests : r # u => pc'[r] = pc[r]
        /\ u \in Requests /\ u \notin Stored
    BY <1>1 DEF Goto, IInv, TypeOK, Requests, Processing, RowsOfUploads, NotYet
  <2>2. Uploads \subseteq Requests /\ Removals \subseteq Requests /\ u \notin Removals
    BY DistinctRequests DEF Requests
  <2>3. active' \in 0 .. MaxConcurrent /\ SlotsAccounted'
    BY <1>1, Slots DEF Processing
  <2>4. NextKey(u) \in AllKeys
    <3>1. Cardinality(uploaded[u]) \in Nat /\ Cardinality(uploaded[u]) < Len(Pieces[content[u]])
      BY <1>1, FS_CardinalityType DEF IInv, PutsInOrder, InOrder
    <3>2. NextKey(u) \in KeysOf(u, content[u])
      BY <3>1, KeyFacts DEF NextKey, KeysOf, IInv, TypeOK
    <3>3. QED
      BY <3>2, KeyFacts DEF IInv, TypeOK
  <2>5. TypeOK'
    BY <1>1, <1>3, <2>1, <2>3, <2>4 DEF IInv, TypeOK, Mishaps
  <2>6. RowsOfUploads' /\ CompensatingHaveNone'
    BY <1>1, <1>3, <2>1, <2>2 DEF IInv, RowsOfUploads, CompensatingHaveNone, Stored, KeysOf, Kind
  <2>7. PutsInOrder' /\ PutsPresent' /\ RemovalsOfRows' /\ RemovedOnce'
    <3>1. ASSUME NEW v \in Uploads PROVE InOrder(v)'
      <4>1. InOrder(v) /\ uploaded'[v] = uploaded[v] /\ content' = content
        BY <1>1 DEF IInv, PutsInOrder
      <4>2. pc'[v] = pc[v] \/ pc'[v] = "compensating"
        BY <2>1, <2>2
      <4>3. QED
        BY <4>1, <4>2 DEF InOrder, FirstKeys
    <3>2. PutsPresent'
      BY <1>1, <1>3, <2>1, <2>2 DEF IInv, PutsPresent
    <3>3. RemovalsOfRows' /\ RemovedOnce'
      BY <1>1, <1>3, <2>1, <2>2 DEF IInv, RemovalsOfRows, RemovedOnce, Stored, KeysOf, NotYet
    <3>4. QED
      BY <3>1, <3>2, <3>3 DEF PutsInOrder
  <2>8. mishaps' # {}
    BY <1>3
  <2>9. ObjectsOwned' /\ LosersClean' /\ RowsHaveObjects' /\ ReferencesStored' /\ OneAssetPerContent'
    BY <1>1, <1>3, <2>8 DEF IInv, ObjectsOwned, LosersClean, RowsHaveObjects, ReferencesStored,
       OneAssetPerContent, Stored
  <2>10. QED
    BY <2>3, <2>5, <2>6, <2>7, <2>9 DEF IInv
<1>4. QED
  BY <1>1, <1>2, <1>3

(***************************************************************************)
(* Rows come and go.                                                       *)
(***************************************************************************)

(* Nobody puts, and uploads only end. *)
LEMMA PutsKept ==
  ASSUME IInv, UNCHANGED <<uploaded, content>>,
         \A v \in Uploads : pc'[v] = pc[v] \/ pc'[v] \in Ended \union {"compensating", "rereading"}
  PROVE  PutsInOrder' /\ (objects \subseteq objects' => PutsPresent')
<1>1. ASSUME NEW v \in Uploads PROVE InOrder(v)'
  <2>1. InOrder(v)
    BY DEF IInv, PutsInOrder
  <2>2. pc'[v] = pc[v] \/ pc'[v] \notin {"new", "hashed", "unknown", "processing", "storing", "creating"}
    BY DEF Ended
  <2>3. QED
    BY <2>1, <2>2 DEF InOrder, FirstKeys
<1>2. objects \subseteq objects' => PutsPresent'
  BY DEF IInv, PutsPresent, Ended
<1>3. QED
  BY <1>1, <1>2 DEF PutsInOrder

(* The commit point of an upload, whether its answer arrives or not. *)
LEMMA InsertStep ==
  ASSUME IInv, NEW u \in Uploads, NEW label \in {"created", "compensating"}, Goto(u, label),
         pc[u] = "creating", WithContent(content[u]) = {}, Insert(u),
         UNCHANGED <<objects, refs, content, uploaded, target, doomed>>,
         active' \in 0 .. MaxConcurrent, SlotsAccounted',
         mishaps' = IF label = "created" THEN mishaps ELSE mishaps \union {"lostCreate"}
  PROVE  IInv'
<1> DEFINE keys == KeysOf(u, content[u])
<1>1. /\ pc' \in [Requests -> {"new", "hashed", "unknown", "deleting", "cleaning"} \union Processing \union Ended]
      /\ pc'[u] = label /\ \A r \in Requests : r # u => pc'[r] = pc[r]
      /\ u \in Requests
  BY DEF Goto, IInv, TypeOK, Requests, Processing, Ended
<1>2. Uploads \subseteq Requests /\ Removals \subseteq Requests /\ u \notin Removals
  BY DistinctRequests DEF Requests
<1>3. /\ keys \subseteq AllKeys /\ content[u] \in Submissions
      /\ uploaded[u] = keys /\ keys \subseteq objects
  BY KeyFacts, Prefixes DEF IInv, TypeOK, PutsPresent
<1>4. /\ assets' \in [Uploads -> Asset \union {NoAsset}]
      /\ assets'[u].hash = content[u].file /\ assets'[u].kind = Kind(content[u])
      /\ assets'[u].keys = keys /\ assets'[u] \in Asset
      /\ \A v \in Uploads : v # u => assets'[v] = assets[v]
  <2>1. Row(u, content[u]) \in Asset
    BY <1>3, FileFacts, FlaggedFacts DEF Row, Asset
  <2>2. assets' = [assets EXCEPT ![u] = Row(u, content[u])] /\ assets \in [Uploads -> Asset \union {NoAsset}]
    BY DEF Insert, IInv, TypeOK
  <2>3. assets'[u] = Row(u, content[u])
    BY <2>2
  <2>4. QED
    BY <2>1, <2>2, <2>3 DEF Row
<1> HIDE DEF keys
<1>5. Stored' = Stored \union {u} /\ u \notin Stored
  <2>1. u \notin Stored
    BY DEF IInv, RowsOfUploads, NotYet
  <2>2. assets'[u] # NoAsset
    BY <1>4, NoAssetIsNone
  <2>3. QED
    BY <1>4, <2>1, <2>2 DEF Stored
<1>6. TypeOK'
  BY <1>1, <1>4 DEF IInv, TypeOK, Mishaps
<1>7. RowsOfUploads'
  <2>1. ASSUME NEW a \in Stored, a # u
        PROVE  /\ assets'[a].hash = content'[a].file /\ assets'[a].kind = Kind(content[a])'
               /\ assets'[a].keys = KeysOf(a, content[a])'
               /\ pc'[a] \notin NotYet
    BY <1>1, <1>2, <1>4, <2>1 DEF IInv, RowsOfUploads, Stored, KeysOf, Kind
  <2>2. /\ assets'[u].hash = content'[u].file /\ assets'[u].kind = Kind(content[u])'
        /\ assets'[u].keys = KeysOf(u, content[u])' /\ pc'[u] \notin NotYet
    BY <1>1, <1>4 DEF keys, KeysOf, Kind, NotYet
  <2>3. QED
    BY <1>5, <2>1, <2>2 DEF RowsOfUploads
<1>8. CompensatingHaveNone'
  <2> SUFFICES ASSUME "lostCreate" \notin mishaps', NEW v \in Uploads, pc'[v] = "compensating"
               PROVE  v \notin Stored'
    BY DEF CompensatingHaveNone
  <2>1. label = "created" /\ mishaps' = mishaps
    OBVIOUS
  <2>2. v # u /\ pc[v] = "compensating"
    BY <1>1, <1>2, <2>1
  <2>3. QED
    BY <1>5, <2>1, <2>2 DEF IInv, CompensatingHaveNone
<1>9. PutsInOrder' /\ PutsPresent'
  BY <1>1, <1>2, PutsKept DEF Ended
<1>10. RemovalsOfRows' /\ RemovedOnce'
  BY <1>1, <1>2, <1>5 DEF IInv, RemovalsOfRows, RemovedOnce, KeysOf, NotYet
<1>11. ObjectsOwned'
  <2> SUFFICES ASSUME mishaps' = {}, NEW k \in objects
               PROVE  Owned(k)'
    BY DEF ObjectsOwned
  <2>1. mishaps = {} /\ Owned(k)
    BY DEF IInv, ObjectsOwned
  <2>2. CASE k \in keys
    BY <1>4, <1>5, <2>2 DEF Owned
  <2>3. CASE k \notin keys
    <3>1. CASE \E a \in Stored : k \in assets[a].keys
      <4>1. \A a \in Stored : a \in Stored' /\ assets'[a] = assets[a]
        BY <1>4, <1>5 DEF Stored
      <4>2. QED
        BY <3>1, <4>1 DEF Owned
    <3>2. CASE \E v \in Uploads : pc[v] \in Processing /\ k \in uploaded[v]
      BY <1>1, <1>2, <1>3, <2>3, <3>2 DEF Owned
    <3>3. CASE \E d \in Removals : pc[d] = "cleaning" /\ k \in doomed[d]
      BY <1>1, <1>2, <3>3 DEF Owned
    <3>4. QED
      BY <2>1, <3>1, <3>2, <3>3 DEF Owned
  <2>4. QED
    BY <2>2, <2>3
<1>12. LosersClean'
  BY <1>1, <1>2 DEF IInv, LosersClean
<1>13. RowsHaveObjects'
  <2> SUFFICES ASSUME "lostCreate" \notin mishaps', NEW a \in Stored'
               PROVE  assets'[a].keys \subseteq objects
    BY DEF RowsHaveObjects
  <2>1. "lostCreate" \notin mishaps
    OBVIOUS
  <2>2. QED
    BY <1>3, <1>4, <1>5, <2>1 DEF IInv, RowsHaveObjects, Stored
<1>14. ReferencesStored'
  BY <1>5 DEF IInv, ReferencesStored
<1>15. OneAssetPerContent'
  <2>1. \A a \in Stored : assets[a].hash # content[u].file
    BY DEF WithContent
  <2>2. QED
    BY <1>4, <1>5, <2>1 DEF IInv, OneAssetPerContent, Stored
<1>16. QED
  BY <1>6, <1>7, <1>8, <1>9, <1>10, <1>11, <1>12, <1>13, <1>14, <1>15 DEF IInv

LEMMA CreateStep ==
  ASSUME IInv, NEW u \in Uploads, CreateRow(u) \/ CreateRejected(u)
  PROVE  IInv'
<1>1. CASE CreateRow(u)
  <2>1. active' \in 0 .. MaxConcurrent /\ SlotsAccounted'
    BY <1>1, Slots DEF CreateRow, Leave, Processing
  <2>2. QED
    BY <1>1, <2>1, InsertStep DEF CreateRow, Leave
<1>2. CASE CreateRejected(u)
  <2>1. pc[u] = "creating" /\ Goto(u, "compensating") /\ active' \in 0 .. MaxConcurrent /\ SlotsAccounted'
    BY <1>2, Slots DEF CreateRejected, Processing
  <2>2. CASE UNCHANGED <<assets, mishaps>>
    BY <1>2, <2>1, <2>2, UploadMoves DEF CreateRejected, NotYet, Processing
  <2>3. CASE WithContent(content[u]) = {} /\ Insert(u) /\ Note("lostCreate")
    BY <1>2, <2>1, <2>3, InsertStep DEF CreateRejected, Note
  <2>4. QED
    BY <1>2, <2>2, <2>3 DEF CreateRejected
<1>3. QED
  BY <1>1, <1>2

(***************************************************************************)
(* Objects are deleted.                                                    *)
(***************************************************************************)

(* What deletion needs to respect: keys under the prefix of an upload that *)
(* has no row and puts no more. *)
LEMMA DeletionIsSafe ==
  ASSUME IInv, NEW owner \in Uploads, NEW keys, \A k \in keys : k.prefix = owner,
         pc[owner] \notin {"storing", "creating"},
         "lostCreate" \notin mishaps => owner \notin Stored,
         NEW left \in SUBSET keys, Delete(keys, left),
         UNCHANGED <<assets, uploaded>>,
         \A v \in Uploads : pc'[v] \in {"storing", "creating"} => pc'[v] = pc[v]
  PROVE  /\ objects' \subseteq AllKeys /\ mishaps' \subseteq Mishaps
         /\ PutsPresent' /\ RowsHaveObjects'
         /\ mishaps \subseteq mishaps'
         /\ mishaps' = {} => objects' = objects \ keys
<1>1. /\ objects' = objects \ (keys \ left)
      /\ mishaps' \in {mishaps, mishaps \union {"delete"}}
  BY DEF Delete, Note
<1>2. objects' \subseteq AllKeys /\ mishaps' \subseteq Mishaps /\ mishaps \subseteq mishaps'
  BY <1>1 DEF IInv, TypeOK, Mishaps
<1>3. mishaps' = {} => objects' = objects \ keys
  <2>1. mishaps' = {} => left = {}
    BY DEF Delete, Note
  <2>2. QED
    BY <1>1, <2>1
<1>4. PutsPresent'
  <2> SUFFICES ASSUME NEW v \in Uploads, pc'[v] \in {"storing", "creating"}, NEW k \in uploaded[v]
               PROVE  k \in objects'
    BY DEF PutsPresent
  <2>1. pc[v] \in {"storing", "creating"} /\ v # owner
    OBVIOUS
  <2>2. k \in objects /\ k.prefix = v
    BY <2>1, Prefixes DEF IInv, PutsPresent
  <2>3. QED
    BY <1>1, <2>1, <2>2
<1>5. RowsHaveObjects'
  <2> SUFFICES ASSUME "lostCreate" \notin mishaps', NEW a \in Stored, NEW k \in assets[a].keys
               PROVE  k \in objects'
    BY DEF RowsHaveObjects, Stored
  <2>1. "lostCreate" \notin mishaps /\ a # owner
    BY <1>2
  <2>2. k \in objects /\ k.prefix = a
    BY <2>1, Prefixes DEF IInv, RowsHaveObjects
  <2>3. QED
    BY <1>1, <2>1, <2>2
<1>6. QED
  BY <1>2, <1>3, <1>4, <1>5

LEMMA CompensateStep ==
  ASSUME IInv, NEW u \in Uploads, Compensate(u)
  PROVE  IInv'
<1> DEFINE label == IF pc[u] = "raceLost" THEN "rereading" ELSE "failed"
<1>1. /\ pc[u] \in {"compensating", "raceLost"} /\ Goto(u, label)
      /\ UNCHANGED <<assets, refs, content, uploaded, target, doomed>>
      /\ active' = IF label = "failed" THEN active - 1 ELSE active
  BY DEF Compensate, Leave
<1>2. PICK left \in SUBSET uploaded[u] : Delete(uploaded[u], left)
  BY DEF Compensate
<1>3. /\ pc' \in [Requests -> {"new", "hashed", "unknown", "deleting", "cleaning"} \union Processing \union Ended]
      /\ pc'[u] = label /\ \A r \in Requests : r # u => pc'[r] = pc[r]
      /\ u \in Requests
  BY <1>1 DEF Goto, IInv, TypeOK, Requests, Processing, Ended
<1>4. Uploads \subseteq Requests /\ Removals \subseteq Requests /\ u \notin Removals
  BY DistinctRequests DEF Requests
<1>5. label \in {"rereading", "failed"} /\ (label = "rereading" <=> pc[u] = "raceLost")
  OBVIOUS
<1> HIDE DEF label
<1>6. active' \in 0 .. MaxConcurrent /\ SlotsAccounted'
  BY <1>1, <1>5, Slots DEF Processing
<1>7. "lostCreate" \notin mishaps => u \notin Stored
  BY <1>1 DEF IInv, RowsOfUploads, CompensatingHaveNone, NotYet
<1>8. /\ objects' \subseteq AllKeys /\ mishaps' \subseteq Mishaps
      /\ PutsPresent' /\ RowsHaveObjects' /\ mishaps \subseteq mishaps'
      /\ mishaps' = {} => objects' = objects \ uploaded[u]
  <2>1. \A k \in uploaded[u] : k.prefix = u
    BY Prefixes
  <2>2. \A v \in Uploads : pc'[v] \in {"storing", "creating"} => pc'[v] = pc[v]
    BY <1>3, <1>4, <1>5
  <2>3. QED
    BY <1>1, <1>2, <1>7, <2>1, <2>2, DeletionIsSafe
<1>9. TypeOK'
  BY <1>1, <1>3, <1>6, <1>8 DEF IInv, TypeOK
<1>10. RowsOfUploads'
  BY <1>1, <1>3, <1>4, <1>5 DEF IInv, RowsOfUploads, Stored, KeysOf, Kind, NotYet
<1>11. CompensatingHaveNone'
  BY <1>1, <1>3, <1>4, <1>5, <1>8 DEF IInv, CompensatingHaveNone, Stored
<1>12. PutsInOrder'
  BY <1>1, <1>3, <1>4, <1>5, PutsKept DEF Ended
<1>13. RemovalsOfRows' /\ RemovedOnce'
  <2>1. pc[u] = "raceLost" => pc[u] \in NotYet
    BY DEF NotYet
  <2>2. pc'[u] \in NotYet => pc[u] \in NotYet
    BY <1>3, <1>5, <2>1 DEF NotYet
  <2>3. QED
    BY <1>1, <1>3, <1>4, <2>2 DEF IInv, RemovalsOfRows, RemovedOnce, Stored, KeysOf
<1>14. ObjectsOwned'
  <2> SUFFICES ASSUME mishaps' = {}, NEW k \in objects'
               PROVE  Owned(k)'
    BY DEF ObjectsOwned
  <2>1. k \in objects /\ k \notin uploaded[u] /\ mishaps = {}
    BY <1>8
  <2>2. Owned(k)
    BY <2>1 DEF IInv, ObjectsOwned
  <2>3. QED
    BY <1>1, <1>3, <1>4, <2>1, <2>2 DEF Owned, Stored
<1>15. LosersClean'
  <2> SUFFICES ASSUME mishaps' = {}, NEW v \in Uploads, pc'[v] = "rereading"
               PROVE  uploaded[v] \intersect objects' = {}
    BY <1>1 DEF LosersClean
  <2>1. objects' = objects \ uploaded[u] /\ mishaps = {}
    BY <1>8
  <2>2. CASE v = u
    BY <2>1, <2>2
  <2>3. CASE v # u
    BY <1>3, <1>4, <2>1, <2>3 DEF IInv, LosersClean
  <2>4. QED
    BY <2>2, <2>3
<1>16. ReferencesStored' /\ OneAssetPerContent'
  BY <1>1 DEF IInv, ReferencesStored, OneAssetPerContent, Stored
<1>17. QED
  BY <1>6, <1>8, <1>9, <1>10, <1>11, <1>12, <1>13, <1>14, <1>15, <1>16 DEF IInv

LEMMA CleanupStep ==
  ASSUME IInv, NEW d \in Removals, CleanupAfterDelete(d)
  PROVE  IInv'
<1>1. /\ pc[d] = "cleaning" /\ Goto(d, "removed")
      /\ UNCHANGED <<assets, refs, active, content, uploaded, target, doomed>>
  BY DEF CleanupAfterDelete
<1>2. PICK left \in SUBSET doomed[d] : Delete(doomed[d], left)
  BY DEF CleanupAfterDelete
<1>3. /\ pc' \in [Requests -> {"new", "hashed", "unknown", "deleting", "cleaning"} \union Processing \union Ended]
      /\ pc'[d] = "removed" /\ \A r \in Requests : r # d => pc'[r] = pc[r]
      /\ d \in Requests
  BY <1>1 DEF Goto, IInv, TypeOK, Requests, Ended
<1>4. Uploads \subseteq Requests /\ Removals \subseteq Requests /\ d \notin Uploads
  BY DistinctRequests DEF Requests
<1>5. active' \in 0 .. MaxConcurrent /\ SlotsAccounted'
  BY <1>1, SlotsKept
<1>6. /\ target[d] \in Uploads /\ target[d] \notin Stored /\ pc[target[d]] \notin NotYet
      /\ \A k \in doomed[d] : k.prefix = target[d]
  BY <1>1, Prefixes DEF IInv, RemovalsOfRows
<1>7. /\ objects' \subseteq AllKeys /\ mishaps' \subseteq Mishaps
      /\ PutsPresent' /\ RowsHaveObjects' /\ mishaps \subseteq mishaps'
      /\ mishaps' = {} => objects' = objects \ doomed[d]
  <2>1. pc[target[d]] \notin {"storing", "creating"}
    BY <1>6 DEF NotYet
  <2>2. \A v \in Uploads : pc'[v] \in {"storing", "creating"} => pc'[v] = pc[v]
    BY <1>3, <1>4
  <2>3. QED
    BY <1>1, <1>2, <1>6, <2>1, <2>2, DeletionIsSafe
<1>8. TypeOK'
  BY <1>1, <1>3, <1>5, <1>7 DEF IInv, TypeOK
<1>9. RowsOfUploads' /\ CompensatingHaveNone'
  BY <1>1, <1>3, <1>4, <1>7 DEF IInv, RowsOfUploads, CompensatingHaveNone, Stored, KeysOf, Kind
<1>10. PutsInOrder'
  BY <1>1, <1>3, <1>4, PutsKept
<1>11. RemovalsOfRows' /\ RemovedOnce'
  <2>1. \A v \in Uploads : pc'[v] = pc[v]
    BY <1>3, <1>4
  <2>2. \A e \in Removals : pc'[e] = pc[e] \/ (pc[e] = "cleaning" /\ pc'[e] = "removed")
    BY <1>1, <1>3, <1>4
  <2>3. QED
    BY <1>1, <2>1, <2>2 DEF IInv, RemovalsOfRows, RemovedOnce, Stored, KeysOf
<1>12. ObjectsOwned'
  <2> SUFFICES ASSUME mishaps' = {}, NEW k \in objects'
               PROVE  Owned(k)'
    BY DEF ObjectsOwned
  <2>1. k \in objects /\ k \notin doomed[d] /\ mishaps = {}
    BY <1>7
  <2>2. Owned(k)
    BY <2>1 DEF IInv, ObjectsOwned
  <2>3. QED
    BY <1>1, <1>3, <1>4, <2>1, <2>2 DEF Owned, Stored
<1>13. LosersClean'
  BY <1>1, <1>3, <1>4, <1>7 DEF IInv, LosersClean
<1>14. ReferencesStored' /\ OneAssetPerContent'
  BY <1>1 DEF IInv, ReferencesStored, OneAssetPerContent, Stored
<1>15. QED
  BY <1>5, <1>7, <1>8, <1>9, <1>10, <1>11, <1>12, <1>13, <1>14 DEF IInv

(***************************************************************************)
(* Removals, references, crashes.                                          *)
(***************************************************************************)

LEMMA ReadForRemovalStep ==
  ASSUME IInv, NEW d \in Removals, ReadForRemoval(d)
  PROVE  IInv'
<1>1. /\ pc[d] = "new"
      /\ UNCHANGED <<assets, objects, refs, active, content, uploaded, mishaps>>
  BY DEF ReadForRemoval
<1>2. PICK a \in Uploads, label \in {"notFound", "inUse", "deleting"} :
        /\ target' = [target EXCEPT ![d] = a] /\ Goto(d, label)
        /\ IF label = "deleting"
           THEN a \in Stored /\ doomed' = [doomed EXCEPT ![d] = assets[a].keys]
           ELSE UNCHANGED doomed
  BY DEF ReadForRemoval
<1>3. /\ pc' \in [Requests -> {"new", "hashed", "unknown", "deleting", "cleaning"} \union Processing \union Ended]
      /\ pc'[d] = label /\ \A r \in Requests : r # d => pc'[r] = pc[r]
      /\ d \in Requests
  BY <1>2 DEF Goto, IInv, TypeOK, Requests, Ended
<1>4. Uploads \subseteq Requests /\ Removals \subseteq Requests /\ d \notin Uploads
  BY DistinctRequests DEF Requests
<1>5. active' \in 0 .. MaxConcurrent /\ SlotsAccounted'
  BY <1>1, <1>2, SlotsKept
<1>6. /\ \A v \in Uploads : pc'[v] = pc[v]
      /\ \A e \in Removals : e # d => pc'[e] = pc[e] /\ target'[e] = target[e] /\ doomed'[e] = doomed[e]
      /\ target'[d] = a /\ (label = "deleting" => a \in Stored /\ doomed'[d] = assets[a].keys)
  BY <1>2, <1>3, <1>4 DEF IInv, TypeOK
<1>7. TypeOK'
  <2>1. target' \in [Removals -> Uploads \union {NoAsset}]
    BY <1>2 DEF IInv, TypeOK
  <2>2. a \in Stored => assets[a].keys \subseteq AllKeys
    BY KeyFacts DEF IInv, TypeOK, RowsOfUploads
  <2>3. doomed' \in [Removals -> SUBSET AllKeys]
    BY <1>2, <2>2 DEF IInv, TypeOK
  <2>4. QED
    BY <1>1, <1>3, <1>5, <2>1, <2>3 DEF IInv, TypeOK
<1>8. RowsOfUploads' /\ CompensatingHaveNone' /\ PutsPresent' /\ LosersClean'
  BY <1>1, <1>6 DEF IInv, RowsOfUploads, CompensatingHaveNone, PutsPresent, LosersClean, Stored, KeysOf, Kind
<1>9. PutsInOrder'
  BY <1>1, <1>6, PutsKept
<1>10. RemovalsOfRows'
  <2> SUFFICES ASSUME NEW e \in Removals, pc'[e] \in {"deleting", "cleaning", "removed"}
               PROVE  /\ target'[e] \in Uploads /\ pc'[target'[e]] \notin NotYet
                      /\ doomed'[e] = KeysOf(target'[e], content[target'[e]])
                      /\ pc'[e] # "deleting" => target'[e] \notin Stored
    BY <1>1 DEF RemovalsOfRows, Stored, KeysOf
  <2>1. CASE e = d
    <3>1. label = "deleting"
      BY <1>3, <2>1
    <3>2. QED
      BY <1>3, <1>6, <2>1, <3>1 DEF IInv, RowsOfUploads
  <2>2. CASE e # d
    BY <1>6, <2>2 DEF IInv, RemovalsOfRows
  <2>3. QED
    BY <2>1, <2>2
<1>11. RemovedOnce'
  BY <1>3, <1>6 DEF IInv, RemovedOnce
<1>12. ObjectsOwned'
  <2> SUFFICES ASSUME mishaps = {}, NEW k \in objects
               PROVE  Owned(k)'
    BY <1>1 DEF ObjectsOwned
  <2>1. Owned(k)
    BY DEF IInv, ObjectsOwned
  <2>2. QED
    BY <1>1, <1>6, <2>1 DEF Owned, Stored
<1>13. RowsHaveObjects' /\ ReferencesStored' /\ OneAssetPerContent'
  BY <1>1 DEF IInv, RowsHaveObjects, ReferencesStored, OneAssetPerContent, Stored
<1>14. QED
  BY <1>5, <1>7, <1>8, <1>9, <1>10, <1>11, <1>12, <1>13 DEF IInv

(* The commit point of a removal, also where it rejects. *)
LEMMA DeleteRowStep ==
  ASSUME IInv, NEW d \in Removals, DeleteRow(d) \/ DeleteRejected(d)
  PROVE  IInv'
<1> DEFINE a == target[d]
<1>1. /\ pc[d] = "deleting"
      /\ UNCHANGED <<objects, refs, active, content, uploaded, target, doomed>>
      /\ mishaps' \in {mishaps, mishaps \union {"delete"}}
  BY DEF DeleteRow, DeleteRejected, Note
<1>2. a \in Uploads /\ pc[a] \notin NotYet /\ doomed[d] = KeysOf(a, content[a])
  BY <1>1 DEF IInv, RemovalsOfRows
<1>3. PICK label \in {"notFound", "inUse", "cleaning", "failed"} :
        /\ Goto(d, label)
        /\ \/ UNCHANGED assets /\ label # "cleaning"
           \/ /\ a \in Stored /\ Usages(a) = {} /\ assets' = [assets EXCEPT ![a] = NoAsset]
              /\ label = "cleaning" \/ mishaps' # {}
  BY DEF DeleteRow, DeleteRejected, MayDelete, Note
<1> HIDE DEF a
<1>4. /\ pc' \in [Requests -> {"new", "hashed", "unknown", "deleting", "cleaning"} \union Processing \union Ended]
      /\ pc'[d] = label /\ \A r \in Requests : r # d => pc'[r] = pc[r]
      /\ d \in Requests
  BY <1>3 DEF Goto, IInv, TypeOK, Requests, Ended
<1>5. Uploads \subseteq Requests /\ Removals \subseteq Requests /\ d \notin Uploads
  BY DistinctRequests DEF Requests
<1>6. active' \in 0 .. MaxConcurrent /\ SlotsAccounted'
  BY <1>1, <1>3, SlotsKept
<1>7. /\ \A v \in Uploads : pc'[v] = pc[v]
      /\ \A e \in Removals : e # d => pc'[e] = pc[e]
  BY <1>4, <1>5
<1>8. /\ assets' \in [Uploads -> Asset \union {NoAsset}]
      /\ Stored' = Stored \/ (Usages(a) = {} /\ Stored' = Stored \ {a})
      /\ label = "cleaning" => a \in Stored /\ a \notin Stored'
      /\ mishaps' = {} /\ Stored' # Stored => label = "cleaning"
      /\ \A v \in Stored' : assets'[v] = assets[v]
  BY <1>2, <1>3 DEF IInv, TypeOK, Stored
<1>9. TypeOK'
  BY <1>1, <1>4, <1>6, <1>8 DEF IInv, TypeOK, Mishaps
<1>10. Stored' \subseteq Stored
  BY <1>8
<1>11. RowsOfUploads' /\ CompensatingHaveNone' /\ PutsPresent' /\ LosersClean'
  <2>1. RowsOfUploads'
    <3>1. \A v \in Stored' : v \in Uploads
      BY DEF Stored
    <3>2. QED
      BY <1>1, <1>7, <1>8, <1>10, <3>1 DEF IInv, RowsOfUploads, KeysOf, Kind
  <2>2. QED
    BY <1>1, <1>7, <1>10, <2>1 DEF IInv, CompensatingHaveNone, PutsPresent, LosersClean
<1>12. PutsInOrder'
  BY <1>1, <1>7, PutsKept
<1>13. RemovalsOfRows'
  <2> SUFFICES ASSUME NEW e \in Removals, pc'[e] \in {"deleting", "cleaning", "removed"}
               PROVE  /\ target[e] \in Uploads /\ pc'[target[e]] \notin NotYet
                      /\ doomed[e] = KeysOf(target[e], content[target[e]])
                      /\ pc'[e] # "deleting" => target[e] \notin Stored'
    BY <1>1 DEF RemovalsOfRows, KeysOf
  <2>1. CASE e = d
    BY <1>2, <1>4, <1>7, <1>8, <2>1 DEF a
  <2>2. CASE e # d
    BY <1>7, <1>10, <2>2 DEF IInv, RemovalsOfRows
  <2>3. QED
    BY <2>1, <2>2
<1>14. RemovedOnce'
  <2> SUFFICES ASSUME NEW e \in Removals, e # d, label = "cleaning",
                      pc[e] \in {"cleaning", "removed"}, target[e] = a
               PROVE  FALSE
    BY <1>1, <1>4, <1>7 DEF IInv, RemovedOnce, a
  <2>1. a \notin Stored
    BY DEF IInv, RemovalsOfRows
  <2>2. QED
    BY <1>3, <2>1
<1>15. ObjectsOwned'
  <2> SUFFICES ASSUME mishaps' = {}, mishaps = {}, NEW k \in objects
               PROVE  Owned(k)'
    BY <1>1 DEF ObjectsOwned
  <2>1. Owned(k)
    BY DEF IInv, ObjectsOwned
  <2>2. CASE \E v \in Stored : k \in assets[v].keys
    <3>1. PICK v \in Stored : k \in assets[v].keys
      BY <2>2
    <3>2. CASE v \in Stored'
      BY <1>8, <3>1, <3>2 DEF Owned
    <3>3. CASE v \notin Stored'
      <4>1. v = a /\ label = "cleaning"
        BY <1>8, <3>3
      <4>2. k \in doomed'[d] /\ pc'[d] = "cleaning"
        BY <1>1, <1>2, <1>4, <3>1, <4>1 DEF IInv, RowsOfUploads
      <4>3. QED
        BY <4>2 DEF Owned
    <3>4. QED
      BY <3>2, <3>3
  <2>3. CASE \E v \in Uploads : pc[v] \in Processing /\ k \in uploaded[v]
    BY <1>1, <1>7, <2>3 DEF Owned
  <2>4. CASE \E e \in Removals : pc[e] = "cleaning" /\ k \in doomed[e]
    BY <1>1, <1>7, <2>4 DEF Owned
  <2>5. QED
    BY <2>1, <2>2, <2>3, <2>4 DEF Owned
<1>16. RowsHaveObjects' /\ OneAssetPerContent'
  BY <1>1, <1>8, <1>10 DEF IInv, RowsHaveObjects, OneAssetPerContent
<1>17. ReferencesStored'
  <2> SUFFICES ASSUME NEW o \in Owners, refs[o] # NoAsset PROVE refs[o] \in Stored'
    BY <1>1 DEF ReferencesStored
  <2>1. refs[o] \in Stored
    BY DEF IInv, ReferencesStored
  <2>2. Usages(a) = {} => refs[o] # a
    BY DEF Usages
  <2>3. QED
    BY <1>8, <2>1, <2>2
<1>18. QED
  BY <1>6, <1>9, <1>11, <1>12, <1>13, <1>14, <1>15, <1>16, <1>17 DEF IInv

LEMMA ReferenceStep ==
  ASSUME IInv, NEW o \in Owners, Reference(o)
  PROVE  IInv'
<1>1. /\ UNCHANGED <<assets, objects, active, pc, content, uploaded, target, doomed, mishaps>>
      /\ refs' \in [Owners -> Stored \union {NoAsset}]
  BY DEF Reference, IInv, TypeOK, ReferencesStored
<1>2. TypeOK' /\ SlotsAccounted'
  BY <1>1 DEF IInv, TypeOK, SlotsAccounted, Stored
<1>3. ReferencesStored'
  BY <1>1 DEF ReferencesStored, Stored
<1>4. RowsOfUploads' /\ CompensatingHaveNone' /\ PutsPresent' /\ RemovalsOfRows' /\ RemovedOnce'
  BY <1>1 DEF IInv, RowsOfUploads, CompensatingHaveNone, PutsPresent, RemovalsOfRows, RemovedOnce,
     Stored, KeysOf, Kind
<1>5. PutsInOrder'
  BY <1>1, PutsKept
<1>6. ObjectsOwned' /\ LosersClean' /\ RowsHaveObjects' /\ OneAssetPerContent'
  BY <1>1 DEF IInv, ObjectsOwned, Owned, LosersClean, RowsHaveObjects, OneAssetPerContent, Stored
<1>7. QED
  BY <1>2, <1>3, <1>4, <1>5, <1>6 DEF IInv

(* Nobody is inside a limiter that has just started. *)
LEMMA CrashStep ==
  ASSUME IInv, Crash
  PROVE  IInv'
<1>1. /\ pc' = [r \in Requests |-> IF InFlight(r) THEN "gone" ELSE pc[r]] /\ active' = 0
      /\ mishaps' = mishaps \union {"crash"}
      /\ UNCHANGED <<assets, objects, refs, content, uploaded, target, doomed>>
  BY DEF Crash, Note
<1>2. Uploads \subseteq Requests /\ Removals \subseteq Requests
  BY DEF Requests
<1>3. \A r \in Requests : pc'[r] = pc[r] \/ pc'[r] = "gone"
  BY <1>1
<1>4. \A u \in Uploads : pc'[u] \notin Processing
  BY <1>1, <1>2 DEF InFlight, Processing
<1>5. TypeOK' /\ SlotsAccounted'
  <2>1. pc' \in [Requests -> {"new", "hashed", "unknown", "deleting", "cleaning"} \union Processing \union Ended]
    BY <1>1 DEF IInv, TypeOK, Ended
  <2>2. {u \in Uploads : pc'[u] \in Processing} = {}
    BY <1>4
  <2>3. SlotsAccounted'
    BY <1>1, <2>2, FS_EmptySet DEF SlotsAccounted
  <2>4. QED
    BY <1>1, <2>1, <2>3, CapType DEF IInv, TypeOK, Mishaps
<1>6. RowsOfUploads' /\ CompensatingHaveNone' /\ PutsPresent'
  BY <1>1, <1>2, <1>3 DEF IInv, RowsOfUploads, CompensatingHaveNone, PutsPresent, Stored, KeysOf, Kind, NotYet
<1>7. PutsInOrder'
  BY <1>1, <1>2, <1>3, PutsKept DEF Ended
<1>8. RemovalsOfRows' /\ RemovedOnce'
  BY <1>1, <1>2, <1>3 DEF IInv, RemovalsOfRows, RemovedOnce, Stored, KeysOf, NotYet
<1>9. mishaps' # {}
  BY <1>1
<1>10. ObjectsOwned' /\ LosersClean' /\ RowsHaveObjects' /\ ReferencesStored' /\ OneAssetPerContent'
  BY <1>1, <1>9 DEF IInv, ObjectsOwned, LosersClean, RowsHaveObjects, ReferencesStored,
     OneAssetPerContent, Stored
<1>11. QED
  BY <1>5, <1>6, <1>7, <1>8, <1>10 DEF IInv

(***************************************************************************)
(* The invariant.                                                          *)
(***************************************************************************)

LEMMA InitInvariant == Init => IInv
<1> SUFFICES ASSUME Init PROVE IInv
  OBVIOUS
<1>1. /\ Stored = {} /\ pc = [r \in Requests |-> "new"] /\ mishaps = {} /\ objects = {}
      /\ Uploads \subseteq Requests /\ Removals \subseteq Requests
  BY DEF Init, Stored, Requests
<1>2. TypeOK /\ SlotsAccounted
  <2>1. TypeOK
    BY CapType DEF Init, TypeOK
  <2>2. {u \in Uploads : pc[u] \in Processing} = {}
    BY <1>1 DEF Processing
  <2>3. SlotsAccounted
    BY <2>2, FS_EmptySet DEF Init, SlotsAccounted
  <2>4. QED
    BY <2>1, <2>3
<1>3. PutsInOrder
  <2> SUFFICES ASSUME NEW u \in Uploads PROVE InOrder(u)
    BY DEF PutsInOrder
  <2>1. uploaded[u] = {} /\ pc[u] = "new" /\ content \in [Uploads -> Submissions]
    BY <1>1 DEF Init
  <2>2. Len(Pieces[content[u]]) \in Nat
    BY <2>1, KeyFacts
  <2>3. Cardinality({}) = 0 /\ IsFiniteSet({})
    BY FS_EmptySet
  <2>4. FirstKeys(u, 0) = {}
    BY DEF FirstKeys
  <2>5. QED
    BY <2>1, <2>2, <2>3, <2>4 DEF InOrder
<1>4. RowsOfUploads /\ CompensatingHaveNone /\ RowsHaveObjects /\ OneAssetPerContent
  BY <1>1 DEF RowsOfUploads, CompensatingHaveNone, RowsHaveObjects, OneAssetPerContent
<1>5. PutsPresent /\ RemovalsOfRows /\ RemovedOnce /\ LosersClean
  BY <1>1 DEF PutsPresent, RemovalsOfRows, RemovedOnce, LosersClean
<1>6. ObjectsOwned /\ ReferencesStored
  BY <1>1 DEF ObjectsOwned, ReferencesStored, Init
<1>7. QED
  BY <1>2, <1>3, <1>4, <1>5, <1>6 DEF IInv

LEMMA StutterStep ==
  ASSUME IInv, UNCHANGED vars
  PROVE  IInv'
<1>1. TypeOK' /\ SlotsAccounted'
  BY DEF IInv, TypeOK, SlotsAccounted, vars
<1>2. RowsOfUploads' /\ CompensatingHaveNone' /\ PutsPresent' /\ RemovalsOfRows' /\ RemovedOnce'
  BY DEF IInv, RowsOfUploads, CompensatingHaveNone, PutsPresent, RemovalsOfRows, RemovedOnce,
     Stored, KeysOf, Kind, vars
<1>3. PutsInOrder'
  BY PutsKept DEF vars
<1>4. /\ ObjectsOwned' /\ LosersClean' /\ RowsHaveObjects' /\ ReferencesStored'
      /\ OneAssetPerContent'
  BY DEF IInv, ObjectsOwned, Owned, LosersClean, RowsHaveObjects, ReferencesStored,
     OneAssetPerContent, Stored, vars
<1>5. QED
  BY <1>1, <1>2, <1>3, <1>4 DEF IInv

LEMMA StepInvariant == IInv /\ [Next]_vars => IInv'
<1> SUFFICES ASSUME IInv, [Next]_vars PROVE IInv'
  OBVIOUS
<1>1. CASE \E u \in Uploads : Validate(u) \/ Upload(u)
  <2>1. PICK u \in Uploads : Validate(u) \/ Upload(u)
    BY <1>1
  <2>2. QED
    BY <2>1, QuietUploadStep, PutStep, PutRejectedStep, CreateStep, CompensateStep DEF Upload
<1>2. CASE \E d \in Removals : ReadForRemoval(d) \/ Remove(d)
  BY <1>2, ReadForRemovalStep, DeleteRowStep, CleanupStep DEF Remove
<1>3. CASE \E o \in Owners : Reference(o)
  BY <1>3, ReferenceStep
<1>4. CASE Crash
  BY <1>4, CrashStep
<1>5. CASE UNCHANGED vars
  BY <1>5, StutterStep
<1>6. QED
  BY <1>1, <1>2, <1>3, <1>4, <1>5 DEF Next

LEMMA InvariantHolds == Spec => []IInv
<1>1. Init => IInv
  BY InitInvariant
<1>2. IInv /\ [Next]_vars => IInv'
  BY StepInvariant
<1>3. QED
  BY <1>1, <1>2, PTL DEF Spec

(***************************************************************************)
(* Theorems.                                                               *)
(***************************************************************************)

(* Every variable keeps its type; in particular the limiter never admits   *)
(* more than MaxConcurrent uploads and its counter never goes below zero.  *)
THEOREM TypeCorrect == Spec => []TypeOK
<1>1. IInv => TypeOK
  BY DEF IInv
<1>2. QED
  BY <1>1, InvariantHolds, PTL

(* The objects of a stored asset exist: no compensation of an upload and   *)
(* no cleanup after a removal deletes an object of another's row, whatever *)
(* the store does, unless a create committed and still rejected.           *)
THEOREM RowsComplete == Spec => []RowsHaveObjects
<1>1. IInv => RowsHaveObjects
  BY DEF IInv
<1>2. QED
  BY <1>1, InvariantHolds, PTL

(* No reference dangles, although a removal checks the usages long before  *)
(* it deletes the row.                                                     *)
THEOREM ReferencesKept == Spec => []ReferencesStored
<1>1. IInv => ReferencesStored
  BY DEF IInv
<1>2. QED
  BY <1>1, InvariantHolds, PTL

(* However many uploads of the same bytes race, one of them has the row. *)
THEOREM DuplicatesNeverStored == Spec => []OneAssetPerContent
<1>1. IInv => OneAssetPerContent
  BY DEF IInv
<1>2. QED
  BY <1>1, InvariantHolds, PTL

(* The limiter's counter is the number of uploads inside it, on every path *)
(* out of an upload and through restarts. *)
THEOREM SlotsNeverLeak == Spec => []SlotsAccounted
<1>1. IInv => SlotsAccounted
  BY DEF IInv
<1>2. QED
  BY <1>1, InvariantHolds, PTL

(* Of the removals of one asset a single one reports success. *)
THEOREM RemovalsExclusive == Spec => []RemovedOnce
<1>1. IInv => RemovedOnce
  BY DEF IInv
<1>2. QED
  BY <1>1, InvariantHolds, PTL

(* As long as rejections mean what they say and the process lives, the     *)
(* store holds exactly the objects of the rows once nobody is at work.     *)
THEOREM StoreMatchesRows == Spec => []NoOrphans
<1>1. IInv => NoOrphans
  <2> SUFFICES ASSUME IInv, mishaps = {}, \A r \in Requests : ~InFlight(r)
               PROVE  objects = UNION {assets[a].keys : a \in Stored}
    BY DEF NoOrphans
  <2>1. /\ \A u \in Uploads : pc[u] \notin Processing
        /\ \A d \in Removals : pc[d] # "cleaning"
    BY DEF InFlight, Requests
  <2>2. \A k \in objects : \E a \in Stored : k \in assets[a].keys
    BY <2>1 DEF IInv, ObjectsOwned, Owned
  <2>3. \A a \in Stored : assets[a].keys \subseteq objects
    BY DEF IInv, RowsHaveObjects
  <2>4. QED
    BY <2>2, <2>3
<1>2. QED
  BY <1>1, InvariantHolds, PTL

(***************************************************************************)
(* What is served.                                                         *)
(***************************************************************************)

(* An upload that has come past the first check was what it claimed to be. *)
Validated ==
  \A u \in Uploads :
    pc[u] \notin {"new", "tooLarge", "unprocessable", "gone"} => validateIdentity(content[u])

(* A column references an asset of the kind it was checked for, for as     *)
(* long as it does.                                                        *)
ReferencesSuit == \A o \in Owners : refs[o] # NoAsset => Suits(o, refs[o])

(* How a step may move an upload, and what it does to the other uploads. *)
UploadLabels(u) ==
  \/ pc'[u] = pc[u]
  \/ pc'[u] \in {"tooLarge", "unprocessable", "gone"}
  \/ pc[u] = "new" /\ validateIdentity(content[u])
  \/ pc[u] \notin {"new", "tooLarge", "unprocessable", "gone"}

LEMMA StepLabels ==
  ASSUME TypeOK, [Next]_vars, NEW u \in Uploads
  PROVE  UploadLabels(u) /\ content' = content
<1>1. u \in Requests /\ pc \in [Requests -> {"new", "hashed", "unknown", "deleting", "cleaning"} \union Processing \union Ended]
  BY DEF TypeOK, Requests
<1>2. CASE \E v \in Uploads : Validate(v) \/ Upload(v)
  <2>1. PICK v \in Uploads : Validate(v) \/ Upload(v)
    BY <1>2
  <2>2. CASE Validate(v)
    BY <1>1, <2>2 DEF Validate, Goto, UploadLabels
  <2>3. CASE Upload(v)
    <3>1. pc[v] \notin {"new", "tooLarge", "unprocessable", "gone"} /\ content' = content
      BY <2>3 DEF Upload, Lookup, Admit, Process, Put, PutRejected, CreateRow, CreateDuplicate,
         CreateRejected, Compensate, Reread
    <3>2. \E label : pc' = [pc EXCEPT ![v] = label]
      BY <2>3 DEF Upload, Lookup, Admit, Process, Put, PutRejected, CreateRow, CreateDuplicate,
         CreateRejected, Compensate, Reread, Goto, Leave
    <3>3. QED
      BY <1>1, <3>1, <3>2 DEF UploadLabels
  <2>4. QED
    BY <2>1, <2>2, <2>3
<1>3. CASE \E d \in Removals : ReadForRemoval(d) \/ Remove(d)
  <2>1. PICK d \in Removals : ReadForRemoval(d) \/ Remove(d)
    BY <1>3
  <2>2. content' = content /\ \E label : pc' = [pc EXCEPT ![d] = label]
    BY <2>1 DEF ReadForRemoval, Remove, DeleteRow, DeleteRejected, CleanupAfterDelete, Goto
  <2>3. QED
    BY <1>1, <2>2, DistinctRequests DEF UploadLabels
<1>4. CASE \E o \in Owners : Reference(o)
  BY <1>4 DEF Reference, UploadLabels
<1>5. CASE Crash
  BY <1>1, <1>5 DEF Crash, UploadLabels
<1>6. CASE UNCHANGED vars
  BY <1>6 DEF vars, UploadLabels
<1>7. QED
  BY <1>2, <1>3, <1>4, <1>5, <1>6 DEF Next

LEMMA ValidatedHolds == Spec => []Validated
<1>1. Init => Validated
  BY DEF Init, Validated, Requests
<1>2. TypeOK /\ Validated /\ [Next]_vars => Validated'
  <2> SUFFICES ASSUME TypeOK, Validated, [Next]_vars, NEW u \in Uploads,
                      pc'[u] \notin {"new", "tooLarge", "unprocessable", "gone"}
               PROVE  validateIdentity(content'[u])
    BY DEF Validated, validateIdentity, validatePdfInput, validateImageInput, Kind
  <2>1. validateIdentity(content[u])
    BY StepLabels DEF UploadLabels, Validated
  <2>2. QED
    BY <2>1, StepLabels
<1>3. IInv => TypeOK
  BY DEF IInv
<1>4. QED
  BY <1>1, <1>2, <1>3, InvariantHolds, PTL DEF Spec

(* A referenced row stays as it is: an upload inserts only its own row,    *)
(* and a removal deletes no row that is referenced at that moment. *)
LEMMA ReferencedRowsStay ==
  ASSUME IInv, [Next]_vars, NEW o \in Owners, refs'[o] = refs[o], refs[o] # NoAsset
  PROVE  assets'[refs[o]] = assets[refs[o]]
<1> DEFINE a == refs[o]
<1>1. a \in Uploads /\ a \in Stored /\ assets \in [Uploads -> Asset \union {NoAsset}]
  BY DEF IInv, TypeOK, ReferencesStored
<1>2. ASSUME NEW u \in Uploads, Insert(u), pc[u] = "creating" PROVE assets'[a] = assets[a]
  <2>1. u # a
    BY <1>1, <1>2 DEF IInv, RowsOfUploads, NotYet
  <2>2. QED
    BY <1>1, <1>2, <2>1 DEF Insert
<1>3. CASE \E u \in Uploads : Validate(u) \/ Upload(u)
  <2>1. PICK u \in Uploads : Validate(u) \/ Upload(u)
    BY <1>3
  <2>2. UNCHANGED assets \/ (Insert(u) /\ pc[u] = "creating")
    BY <2>1 DEF Validate, Upload, Lookup, Admit, Process, Put, PutRejected, CreateRow, CreateDuplicate,
       CreateRejected, Compensate, Reread
  <2>3. QED
    BY <1>2, <2>2
<1>4. CASE \E d \in Removals : ReadForRemoval(d) \/ Remove(d)
  <2>1. PICK d \in Removals : ReadForRemoval(d) \/ Remove(d)
    BY <1>4
  <2>2. CASE ReadForRemoval(d) \/ CleanupAfterDelete(d)
    BY <2>2 DEF ReadForRemoval, CleanupAfterDelete
  <2>3. CASE DeleteRow(d) \/ DeleteRejected(d)
    <3>1. UNCHANGED assets \/ (assets' = [assets EXCEPT ![target[d]] = NoAsset] /\ Usages(target[d]) = {})
      BY <2>3 DEF DeleteRow, DeleteRejected, MayDelete
    <3>2. Usages(target[d]) = {} => target[d] # a
      BY DEF Usages
    <3>3. QED
      BY <1>1, <3>1, <3>2
  <2>4. QED
    BY <2>1, <2>2, <2>3 DEF Remove
<1>5. CASE (\E p \in Owners : Reference(p)) \/ Crash \/ UNCHANGED vars
  BY <1>5 DEF Reference, Crash, vars
<1>6. QED
  BY <1>3, <1>4, <1>5 DEF Next

LEMMA ReferencesSuitHolds == Spec => []ReferencesSuit
<1>1. Init => ReferencesSuit
  BY DEF Init, ReferencesSuit
<1>2. IInv /\ ReferencesSuit /\ [Next]_vars => ReferencesSuit'
  <2> SUFFICES ASSUME IInv, ReferencesSuit, [Next]_vars, NEW o \in Owners, refs'[o] # NoAsset
               PROVE  Suits(o, refs[o])'
    BY DEF ReferencesSuit
  <2>1. CASE refs'[o] = refs[o]
    <3>1. Suits(o, refs[o]) /\ assets'[refs'[o]] = assets[refs[o]]
      BY <2>1, ReferencedRowsStay DEF ReferencesSuit
    <3>2. QED
      BY <3>1 DEF Suits
  <2>2. CASE refs'[o] # refs[o]
    <3>1. \E p \in Owners : Reference(p)
      BY <2>2 DEF Next, vars, Crash, Upload, Remove, Validate, Lookup, Admit, Process, Put, PutRejected, CreateRow,
         CreateDuplicate, CreateRejected, Compensate, Reread, ReadForRemoval, DeleteRow, DeleteRejected, CleanupAfterDelete
    <3>2. PICK p \in Owners : Reference(p)
      BY <3>1
    <3>3. PICK a \in Stored \union {NoAsset} :
            (a # NoAsset => Suits(p, a)) /\ refs' = [refs EXCEPT ![p] = a]
      BY <3>2 DEF Reference
    <3>4. p = o /\ refs'[o] = a /\ UNCHANGED assets
      BY <2>2, <3>2, <3>3 DEF Reference, IInv, TypeOK
    <3>5. QED
      BY <3>3, <3>4 DEF Suits
  <2>3. QED
    BY <2>1, <2>2
<1>3. QED
  BY <1>1, <1>2, InvariantHolds, PTL DEF Spec

(* A sender whose hints contradict the bytes gets no asset: not by a race, *)
(* and not through what others have stored of the same bytes.              *)
THEOREM ForgeriesNeverStored == Spec => []ForgeriesRefused
<1>1. Validated => ForgeriesRefused
  BY DEF Validated, ForgeriesRefused
<1>2. QED
  BY <1>1, ValidatedHolds, PTL

(* The descriptor of a picture: its widest WebP, at full detail. *)
LEMMA PictureServed ==
  ASSUME IInv, NEW a \in Stored, assets[a].kind = "IMAGE"
  PROVE  /\ widestWebp(a) # {} /\ widestWebp(a) \subseteq assets[a].keys
         /\ \A k \in widestWebp(a) : k.piece = Rendition(FullDetail(assets[a].hash), "webp")
<1> DEFINE s == content[a]
           full == FullDetail(s.file)
<1>1. /\ s \in Submissions /\ Kind(s) = "IMAGE" /\ assets[a].hash = s.file
      /\ assets[a].keys = KeysOf(a, s)
  BY DEF IInv, TypeOK, RowsOfUploads, Stored
<1>2. full \in Nat /\ \E p \in 1 .. Len(Pieces[s]) : Pieces[s][p] = Rendition(full, "webp")
  BY <1>1, WidestPiece
<1>3. ASSUME NEW k \in Renditions(a), k.piece.format = "webp"
      PROVE  \E w \in Nat : w <= full /\ k.piece = Rendition(w, "webp")
  <2>1. PICK p \in 1 .. Len(Pieces[s]) : k.piece = Pieces[s][p] /\ Pieces[s][p].role = "rendition"
    BY <1>1 DEF Renditions, KeysOf, Key
  <2>2. PICK w \in Nat : /\ w <= full
                         /\ \/ Pieces[s][p] = Rendition(w, "webp")
                            \/ Pieces[s][p] = Rendition(w, "avif")
    BY <1>1, <2>1, WidestPiece
  <2>3. Rendition(w, "avif").format # "webp"
    BY DEF Rendition
  <2>4. QED
    BY <1>3, <2>1, <2>2, <2>3
<1>4. PICK best \in Renditions(a) : best.piece = Rendition(full, "webp")
  <2>1. PICK p \in 1 .. Len(Pieces[s]) : Pieces[s][p] = Rendition(full, "webp")
    BY <1>2
  <2>2. Key(a, s, p) \in assets[a].keys /\ Key(a, s, p).piece = Rendition(full, "webp")
    BY <1>1, <2>1 DEF KeysOf, Key
  <2>3. QED
    BY <2>2 DEF Renditions, Rendition
<1>5. \A w : Rendition(w, "webp").width = w /\ Rendition(w, "webp").format = "webp"
  BY DEF Rendition
<1>6. best \in widestWebp(a)
  <2>1. ASSUME NEW j \in Renditions(a), j.piece.format = "webp" PROVE j.piece.width <= best.piece.width
    BY <1>3, <1>4, <1>5, <2>1
  <2>2. QED
    BY <1>4, <1>5, <2>1 DEF widestWebp
<1>7. ASSUME NEW k \in widestWebp(a) PROVE k.piece = Rendition(full, "webp")
  <2>1. k \in Renditions(a) /\ k.piece.format = "webp" /\ best.piece.width <= k.piece.width
    BY <1>4, <1>5 DEF widestWebp
  <2>2. PICK w \in Nat : w <= full /\ k.piece = Rendition(w, "webp")
    BY <1>3, <2>1
  <2>3. w = full
    BY <1>2, <1>4, <1>5, <2>1, <2>2
  <2>4. QED
    BY <2>2, <2>3
<1>8. widestWebp(a) \subseteq assets[a].keys
  BY DEF widestWebp, Renditions
<1>9. QED
  BY <1>1, <1>6, <1>7, <1>8

(* Whatever is deleted, raced or lost, a reference is served with objects  *)
(* that exist, a picture in the full width its original has or may have. *)
THEOREM DescriptorsTruthful == Spec => []DescriptorsServed
<1>1. IInv /\ ReferencesSuit => DescriptorsServed
  <2> SUFFICES ASSUME IInv, ReferencesSuit, "lostCreate" \notin mishaps, NEW o \in Owners,
                      refs[o] # NoAsset, NEW a, a = refs[o],
                      ~(Slot[o] = "any" /\ assets[a].kind = "PDF")
               PROVE  /\ Url(o) # {} /\ Url(o) \union Renditions(a) \subseteq objects
                      /\ \A k \in Url(o) :
                           k.piece = IF Slot[o] = "resume" THEN Document
                                     ELSE Rendition(FullDetail(assets[a].hash), "webp")
    BY DEF DescriptorsServed, IInv
  <2>1. /\ a \in Stored /\ a \in Uploads /\ content[a] \in Submissions
        /\ assets[a].kind = Kind(content[a]) /\ assets[a].kind \in Kinds
        /\ assets[a].keys = KeysOf(a, content[a]) /\ assets[a].keys \subseteq objects
    <3>1. a \in Stored /\ a \in Uploads
      BY DEF IInv, ReferencesStored, Stored
    <3>2. QED
      BY <3>1, FileFacts DEF IInv, TypeOK, RowsOfUploads, RowsHaveObjects
  <2>2. Renditions(a) \subseteq objects
    BY <2>1 DEF Renditions
  <2>3. Suits(o, a) /\ Slot[o] \in {"resume", "picture", "any"}
    BY SlotType DEF ReferencesSuit
  <2>4. CASE Slot[o] = "resume"
    <3>1. assets[a].kind = "PDF" /\ Pieces[content[a]] = <<Document>>
      BY <2>1, <2>3, <2>4 DEF Suits, Pieces
    <3>2. assets[a].keys = {Key(a, content[a], 1)} /\ Key(a, content[a], 1).piece = Document
      BY <2>1, <3>1 DEF KeysOf, Key
    <3>3. Url(o) = assets[a].keys
      BY <2>4, <3>2 DEF Url
    <3>4. QED
      BY <2>1, <2>2, <2>4, <3>2, <3>3
  <2>5. CASE Slot[o] # "resume"
    <3>1. assets[a].kind = "IMAGE"
      BY <2>1, <2>3, <2>5 DEF Suits, Kinds
    <3>2. Url(o) = widestWebp(a)
      BY <2>5 DEF Url
    <3>3. QED
      BY <2>1, <2>2, <2>5, <3>1, <3>2, PictureServed
  <2>6. QED
    BY <2>4, <2>5
<1>2. QED
  BY <1>1, InvariantHolds, ReferencesSuitHolds, PTL
=============================================================================
