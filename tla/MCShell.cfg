CONSTANTS
    Words <- MCWords
    Letters <- MCLetters
    Leftovers <- MCLeftovers
    BufferSize = 5
    SPSize = 2
    NameWidth = 3
    Width = 7
    OutputEnds = {2}
SPECIFICATION Spec
VIEW MCView
INVARIANTS TypeOK ShownIsRun LostHasACause
PROPERTIES OptionIsTheLines
CHECK_DEADLOCK FALSE
