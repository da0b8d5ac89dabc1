---------------------------- MODULE MCRemoteShoot ----------------------------
\* Instances of RemoteShoot for TLC.
EXTENDS RemoteShoot

MCModes == {"full", "quick", "cont", "hook", "single", "intcont"}
MCWants == {{"jpg"}, {"dng_hdr", "raw"}, {"jpg", "craw"}}
MCChunks == [t \in {"jpg", "raw", "dng_hdr", "craw"} |-> IF t \in {"raw", "dng_hdr"} THEN 1 ELSE 2]
=============================================================================
