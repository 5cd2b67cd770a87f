SPECIFICATION Spec
CONSTANTS
    Commands = {L, R}
    Control = Control
    V = V
    Tab = Tab
    MenuKeys = {C}
    PlainKeys = {}
INVARIANTS
    RemoteCommandsMatch
    NothingStaysDown
PROPERTIES
    ShortcutsArrive
SYMMETRY CommandsAlike
