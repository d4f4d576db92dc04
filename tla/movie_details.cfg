\* Two requests, two movies, an instance of each service.
CONSTANTS
    Handlers = {h1, h2}
    Movies = {m1, m2}
    Values <- OneValue
    MetadataInstances = {meta}
    RatingInstances = {rate}
    Shared = {rate}
    None = None
SPECIFICATION Spec
INVARIANTS OnlyHungHoldsUp
PROPERTIES DetailsAreOfTheMovie UndisturbedIsAnswered
SYMMETRY Symmetry
