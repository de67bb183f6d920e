--------------------------- MODULE MCSyncTriggers ---------------------------
(* A WebDAV provider with the realtime channel and, in some runs, Dropbox.    *)
EXTENDS SyncTriggers
=============================================================================
