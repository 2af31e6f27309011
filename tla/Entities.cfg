SPECIFICATION Spec
CONSTANTS
    MaxClients = 2
    Edicts = {e1, e2}
    Free = Free
    Native = Native
    MaxMaps = 2
    MaxDepth = 3
SYMMETRY Symmetry
INVARIANTS TypeOK OneCameraEach CamerasHaveRows RowsAreCameras TameScriptsKeepMapsClean
PROPERTIES NativesAreSafe ImplementsPresence
