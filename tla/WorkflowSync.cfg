SPECIFICATION Spec
CONSTANTS
    FileCount = 2
    MaxChanges = 1
    MaxMishaps = 1
    Stem <- MCStem
    Spelling <- MCSpelling
    Ids <- MCIds
    Rank <- MCRank
    Contents = {a, copy, canvas}
    Format <- MCFormat
    Meaning <- MCMeaning
    Clear <- MCClear
    FieldsOf <- MCFieldsOf
    None = None
    Curator = Curator
    Garbled = Garbled
    a = a
    copy = copy
    b = b
    canvas = canvas
INVARIANTS
    IdsAreUnique
    DefinitionsHaveTheirGraphs
    QuietRunWritesNothing
PROPERTIES
    NothingForgotten
    IdFollowsContent
    WordsReadAreKept
