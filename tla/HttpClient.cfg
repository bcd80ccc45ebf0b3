\* Every fetch may come to wait for a silent host: then nothing happens.
CHECK_DEADLOCK FALSE

SPECIFICATION Spec

CONSTANTS
    Fetches = {f1, f2}
    Hosts = {h1}
    Documents = {d1}

INVARIANT BodiesClosed

PROPERTY Implements
