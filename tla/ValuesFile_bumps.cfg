CONSTANTS
    Files <- MCFiles
    Images <- MCImages
    Modes = {"off", "if-present", "on"}
    Texts <- MCTexts
    MaxLines = 5
SPECIFICATION FileSpec
INVARIANTS
    FileTypeOK
    HelmReadsTheImage
    RestIsUntouched
    RerunsChangeNothing
CHECK_DEADLOCK FALSE
