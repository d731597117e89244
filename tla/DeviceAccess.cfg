\* Two requests at once, of any number; one device, one administrator, one model.
CONSTANTS
    Slots = {q1, q2}
    Devices = {phone}
    Names = {admin}
    Ids = {i, j}
    Models = {m}
    None = None
SPECIFICATION Spec
SYMMETRY Symmetry
INVARIANTS
    TypeOK
    ReferencesHold
    UpdatesStay
PROPERTY
    DeactivatedGetNoToken
