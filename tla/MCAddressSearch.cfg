SPECIFICATION Spec
CONSTANTS
    ikeja = ikeja
    lekki = lekki
    t1 = t1
    t2 = t2
    Places = {ikeja, lekki}
    Taps = {t1, t2}
    MaxSearches = 1
SYMMETRY Symmetric
INVARIANTS FormAgrees SourceIsWhole NoTwoForms
