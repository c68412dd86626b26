SPECIFICATION Spec
CONSTANTS
    Uploads = {u1, u2}
    Downloads = {x1, x2}
    Documents = {d1, d2}
    Requests = {r1, r2}
    None = None
SYMMETRY MCSymmetry
INVARIANTS
    TransfersInv
    OneDocumentPerUpload
    DocumentsHaveTheirBytes
    ConsumedUploadsAreStored
    ConsumedOnce
PROPERTIES
    CompletesAsAllowed
CHECK_DEADLOCK FALSE
