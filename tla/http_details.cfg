\* Two requests, a Put and an event that meet at the rating repository.
CONSTANTS
    p1 = p1
    e1 = e1
    m1 = m1
    m2 = m2
    Requests = {r1, r2}
    Puts = {p1}
    Events = {e1}
    Movies = {m1, m2}
    Catalog <- MCCatalog
    Decoded <- MCDecoded
    About <- MCAbout
    None = None
SPECIFICATION FairSpec
INVARIANTS OKIsInCatalog AbsentNeedsAbsence AckedIsStored AnsweredIsKept
PROPERTIES RequestsEnd
