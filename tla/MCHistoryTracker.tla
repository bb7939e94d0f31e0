-------------------------- MODULE MCHistoryTracker --------------------------
(* Values of HistoryTracker's constants that a cfg cannot write.           *)
EXTENDS HistoryTrackerProperties

CONSTANTS t1, t2

ListKinds == {"getHistory"}
\* what the popup sends when it opens (popup.js:40,43)
PopupKinds == {"getStats", "getHistory"}
ClearKinds == {"getHistory", "clearHistory"}
AllKinds == {"getHistory", "getStats", "exportJSON", "clearHistory"}
AllOnly == {"all"}
AllFilters == {"all", "incognito", "normal"}
=============================================================================
