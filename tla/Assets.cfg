CONSTANTS
    Items = {a1, a2}
    Offers = {o1, o2}
    Users = {u1, u2}
    Files = {f1}
    Refs = {x, y}
    Contents = {good, bad}
    Declared = {good}
    Requests = {p1, p2}
    None = None
SPECIFICATION Spec
INVARIANTS OffersAreInStock HoldersAgreed LinksMatch StoredWasDeclared
PROPERTIES AnswersAreFinal
SYMMETRY Symmetry
CHECK_DEADLOCK FALSE
