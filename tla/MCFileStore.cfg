CONSTANTS
  Session = {s1, s2}
  Loan = {l1}
  Item = {i1, i2}
  ReceiptName = {"scan", "screenshot"}
  ImageName = {"picture", "screenshot", "oldPicture"}
  NoName = NoName
  Legacy <- MCLegacy
  MaxRequests = 6
SYMMETRY Symmetry
SPECIFICATION Spec
CHECK_DEADLOCK FALSE
INVARIANTS
  TypeOK
  ReceiptsServed
  ImagesServed
  NoOrphanImage
  NoOrphanReceipt
