\* DDL on a captured table (column changes, unsupported alterations that
\* fail the worker, drops) with a channel large enough never to fill, so the
\* worker never blocks while it holds the tables lock; StreamToFence checked
\* to return under fair scheduling of both goroutines.  Storage-engine
\* changes are left to the engine-change run, where the fence never comes.
CONSTANTS
    t1 = t1
    t2 = t2
    NoTable = NoTable
    Tables <- MCOneTable
    InitEngine <- MCOneEngine
    Capacity = 11
    MaxLog = 5
    MaxRows = 1
    AlterKinds = {"column", "unsupported"}

SPECIFICATION Spec

INVARIANT FenceCoversServerPosition
INVARIANT NoSanityCheckFailure
PROPERTY FenceCompletes
