CONSTANTS
    NaN = NaN
    Null = Null
    Undefined = Undefined
    Now = "1731110400000"
    IsoTexts <- MCIsoTexts

SPECIFICATION Spec




INVARIANT NormalizationNeverThrows
