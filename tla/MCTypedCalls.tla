--------------------------- MODULE MCTypedCalls ---------------------------
\* Two releases, one before canvases and one with them.
EXTENDS TypedCalls

MCReleases == {6, 7}

MCRawRequests == {"GetCanvasList", "GetNothing"}

MCBatches == {<<"GetStats", "GetCanvasList">>, <<"GetStats", "Sleep">>}

=============================================================================
