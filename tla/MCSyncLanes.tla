---------------------------- MODULE MCSyncLanes ----------------------------
EXTENDS SyncLanes
=============================================================================
