--------------------------- MODULE MCScanPipeline ---------------------------
(* A small instance of ScanPipeline: one title of each kind, and a match   *)
(* of severity INFO, which validation skips.                               *)
EXTENDS ScanPipeline
CONSTANTS page, docs, note

MCSurface == {page}
MCDisclosures == {docs}
MCMatches == {note}
MCVerdicts == {"likely"}
=============================================================================
