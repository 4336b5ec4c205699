---------------------------- MODULE MCUploadPath ----------------------------
EXTENDS UploadPath

AllFaults == {"upload", "limit", "db", "thumb", "remove"}
AllPlaces == {"main", "muxed", "pending"}
BothOrphans == {"scan", "watcher"}
ScanOnly == {"scan"}
MainOnly == {"main"}
PendingOnly == {"pending"}
OneSlot == {"p1"}
TwoSlots == {"p1", "p2"}
=============================================================================
