SPECIFICATION Spec
CONSTANTS
    short = short
    long = long
    typed = typed
    None = None
    Texts <- MCTexts
    Within <- MCWithin
    Candidates <- MCCandidates
    Stops <- MCStops
    Anchors <- MCAnchors
    Typed = typed
    MaxParagraphs = 2
    MaxEdits = 2
INVARIANTS
    TypeOverwritesShown
    NeverSlips
    BoldFollowsSelect
