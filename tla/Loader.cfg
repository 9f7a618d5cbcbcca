CONSTANTS
    WordBits = 4
    Width = 4
    Height = 5
    LineHeight = 2
    TabStop = 3
    GlyphWidth <- MCGlyphWidth
    SpaceWidth = 1
    kernel_start = 1
    KERNEL_BUFFER = 3
    InitrdStart = 4
    Top = 11
    Setups <- MCSetups
    Messages <- MCMessages
    Notice <- MCNotice
    Conversions <- MCConversions
    MaxPrints = 3
SPECIFICATION LoaderSpec
INVARIANTS ScreenShowsTail NumbersReadBack HandsOver
CHECK_DEADLOCK FALSE
