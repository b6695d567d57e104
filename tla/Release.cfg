SPECIFICATION FairReleaseSpec
CONSTANTS
    Natives = 1
    Runs = {push, dispatch}
    Pushed = {push}
    Tags = {"latest"}
    Retries = 2
    Tries = 1
    MayBeFlawed = TRUE
INVARIANTS
    RootLast
    AnnouncedIsComplete
    ErrorsDecideNothing
PROPERTIES
    RerunsFinish
