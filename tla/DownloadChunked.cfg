CONSTANTS
    Platforms = {"linux", "windows"}
    Hosts = {"registry", "cdn"}
    MaxRedirects = 3
    ChunkSize = 16
    Home <- MCHome
    Documents <- MCDocuments
    Text <- MCText
    Bodies <- MCBodies
    Streams <- MCStreams
    Contents <- MCContents
SPECIFICATION Spec
INVARIANT ChunkedHandled
\* The pull ends.
CHECK_DEADLOCK FALSE
