SPECIFICATION ClashSpec

INVARIANT ClashesAreRefused

\* Each behaviour is one call.
CHECK_DEADLOCK FALSE
