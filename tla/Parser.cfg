SPECIFICATION Spec
CONSTANTS
    MaxText = 18
    MaxToken = 3
    MaxTokens = 5
    PartsOfMinute = 2
    MaxField = 3
    MaxInstruction = 3
    StringWindow = 2
    WindowBefore = 2
    WindowAfter = 3
    Decode <- MCDecode
    Texts <- ShortTexts
    ArgumentLists <- SmallArgumentLists
    ConfigInputs <- SmallConfigs
    WeatherInputs <- SmallWeather
    PlayerLists <- SmallLists
    CatalogueInputs <- SmallCatalogues
    ImageInputs <- SmallImages
INVARIANTS
    RoundTrip
    ExecIsClean
    ConfigReadBack
    WeatherIsTrue
    RowsReadBack
    XrefsExact
    DumpsAreTrue
CHECK_DEADLOCK FALSE
