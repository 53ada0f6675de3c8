\* Twelve bytes hold every item and let a sequence overflow once; four bytes of
\* noise can break each kind of sequence at each place.
CONSTANTS
    Capacity = 12
    Items <- MCItems
    Noise <- MCNoise
    MaxNoise = 4
SPECIFICATION LineSpec
INVARIANTS
    KeepsWhatItReads
    DecodesEachItem
