SPECIFICATION Spec
CONSTANTS
    a = a
    b = b
    d1 = d1
    d2 = d2
    t1 = t1
    t2 = t2
    None = None
    Live = Live
    Prop = {a, b}
    Dated = {d1}
    Weekend = {}
    Length = {2}
    NightsOf <- SomeNights
    Past = {}
    Party = {2}
    Omitted = {}
    Offer = {80, 90}
    request = request
    special = special
    Draft = {request, special}
    Approved = {request}
    Table <- SomeTable
    Text <- SomeTexts
    BaseOf <- SomePrices
    Cap = 8
    Loyal = {FALSE}
    Known = "new"
    Tool = {t1, t2}
    MaxTalk = 3
    MaxEdits = 1
INVARIANTS
    TypeOK
    QuoteMatchesDecision
    NeverStacked
PROPERTIES
    NeverTakenBack
SYMMETRY Turns
CHECK_DEADLOCK FALSE
