SPECIFICATION Spec
CONSTANTS
    Names <- MCNames
    EditTexts <- MCEditTexts
    MaxChanges = 1
    MaxSaves = 2
    MaxMishaps = 1
PROPERTIES LoadsBack TornInventsNothing ExtraKept
