\* Two devices, two tabs of one browser, a page that is reloaded, or two reset links.
SPECIFICATION ScopedSpec
CONSTANTS
    Token = {k1, k2, k3}
    Browser = {"desktop", "phone"}
    Tab = {"tab", "second tab", "phone"}
    BrowserOf <- Browsers
    Request = {q1, q2}
    Link = {r1, r2}
    None = None
    MaxIncidents = 2
INVARIANTS
    SessionsTypeOK EndedUnlessUnderWay TokensPerSession KeepsItsSession LinkWorksOncePerOverlap
SYMMETRY Symmetry
