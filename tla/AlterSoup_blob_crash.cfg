SPECIFICATION Spec
CONSTANTS
    Apps = {}
    Values = {v1}
    NoValue = NoValue
    MaxId = 2
    Ops <- BlobCrash
PROPERTY ContentChangesOnlyByCalls
