SPECIFICATION Spec
CONSTANTS
    Sizes = {0, 1, 2}
    States = {"Maximized", "tiled"}
    Constraints = {"flip"}
    Positioners <- MCPositioners
    MaxConfigures = 2
    MaxDrafts = 1
    MaxWindows = 2
    Addresses = {"x", "y"}
    MaxSurfaces = 3
    MaxShellSurfaces = 3
    Desktops = {"a", "b"}
    MaxDesktops = 3
    MaxDesktopEvents = 3
    Windows = {"v", "w"}
    MaxChanges = 3
    Flags = {"keep_above", "on_all_desktops"}
    Fields = {"title", "pid"}
    Titles = {"s", "t"}
    MaxIcons = 1
    MaxWindowEvents = 2
    AttributeValues = {"u", "v"}
    MaxBatches = 3
    TouchIds = {1, 2}
    MaxPoints = 4
    MaxTouchEvents = 3
    MaxInputSurfaces = 2
    MaxInputSerial = 3
    MaxInputEvents = 2
    Types = {"text", "odd"}
    KnownTypes = {"text"}
    MaxOffers = 2
    MaxDataEvents = 4
    Lengths = {1}
    Characters = {"ascii", "latin", "emoji"}
    Modulus = 256
    MaxText = 2
    MaxTextEvents = 1
    Families <- MCFamilies
    MaxConnections = 2
    Cells = {1, 2}
INVARIANTS
    TypeOK
    WireIsLegal
    InvalidHoldsNothing
    CompositorIsTold
    ConfigureIsFollowed
    RequestsSayWhatIsMeant
    ListsFollow
    ViewIsFresh
    BatchesAreFollowed
    InputFollows
    OffersFollow
\* Compositors stop sending at their bounds.
CHECK_DEADLOCK FALSE
