SPECIFICATION Spec
CONSTANTS
  picture = picture
  pdf = pdf
  portrait = portrait
  resume = resume
  Uploads = {u1, u2}
  Removals = {d1}
  Files = {picture, pdf}
  File <- MCFile
  Submissions <- MCSubmissions
  EncodedBytes <- MCEncodedBytes
  Owners = {portrait}
  Slot <- MCSlot
  NoAsset = NoAsset
  MaxConcurrent = 2
  MaxLeft = 1
  MetaTarget = {FALSE}
PROPERTIES
  RaceResolvesToWinner
CHECK_DEADLOCK FALSE
