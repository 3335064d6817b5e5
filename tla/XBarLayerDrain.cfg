SPECIFICATION Spec
CONSTANTS
    Layers = {l1}
    Ports = {p1, p2}
    NoPort = NoPort
INVARIANT DrainedLayerIsQuiet
