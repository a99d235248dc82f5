SPECIFICATION SubmissionSpec
CONSTANTS
  None = None
  portrait = portrait
  clip = clip
  picture = picture
  movie = movie
  plain = plain
  animated = animated
  Clients = {ann, ben}
  ann = ann
  ben = ben
  Paths = {plain, animated}
  WellFormedIds = {portrait, clip}
  Sources <- MCSources
  Preserve = TRUE
  Documents <- MCDocuments
  FirstFiles <- MCFiles
  LeftAlone <- MCLeftAlone
  Inputs <- MCInputs
  MediaKind <- MCMediaKind
  Translation = TRUE
  MaxEdits = 2
  MaxSubmissions = 2

SYMMETRY ClientSymmetry
INVARIANTS SentIsWhatWasAsked LiteralsSurvive
PROPERTY FixingTakesNothingAway
CHECK_DEADLOCK FALSE
