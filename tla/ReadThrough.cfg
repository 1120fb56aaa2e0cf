SPECIFICATION Spec
CONSTANTS
    Readers = {r1, r2, r3}
    TTL = 2
    MaxLag = 1
    MaxVer = 3
    MaxTime = 4
SYMMETRY ReadersSymmetry
INVARIANT IInv
PROPERTIES
    EntryNeverGoesBack
    ResultsNeverGoBack
    HitsAreFresh
