-------------------------- MODULE MCSessionTracker --------------------------
(* Values of SessionTracker's constants that a cfg cannot write.           *)
EXTENDS SessionTrackerProperties

CONSTANTS u1, u2

OneDomain  == [u \in Urls |-> 1]
AllTypes == Types
=============================================================================
