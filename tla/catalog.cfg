CONSTANTS
    Person = {ann, ben}
    Sku = {red, blue}
    MaxVariants = 2
    MaxProducts = 2
    MaxPhotoJobs = 2
    MaxMishaps = 1
SPECIFICATION Spec
SYMMETRY Symmetry
INVARIANTS SkusDistinct CreatedIsWhole RemovedPhotosStayOff
CHECK_DEADLOCK FALSE
