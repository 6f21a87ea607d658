SPECIFICATION Spec
CONSTANTS
  picture = picture
  pdf = pdf
  portrait = portrait
  resume = resume
  Uploads = {u1, u2}
  Removals = {d1, d2}
  Files = {picture, pdf}
  File <- MCFile
  Submissions <- MCSubmissions
  EncodedBytes <- MCEncodedBytes
  Owners = {portrait, resume}
  Slot <- MCSlot
  NoAsset = NoAsset
  MaxConcurrent = 2
  MaxLeft = 1
  MetaTarget = {TRUE, FALSE}
INVARIANTS
  RowsHaveObjects
  OneAssetPerContent
  SlotsAccounted
  NoOrphans
  DescriptorsServed
  ForgeriesRefused
PROPERTIES
  RequestsEnd
CHECK_DEADLOCK FALSE
