--------------------------- MODULE SharedHistory ---------------------------
(***************************************************************************)
(* What a history tracker still promises when savers overlap, with no      *)
(* worker, storage calls or popup: entries are accepted into a volatile    *)
(* buffer; a saver takes the whole buffer and a copy of the log, and later *)
(* the log becomes that copy with the batch at its end.  So a batch is     *)
(* written at once, in one piece and at most once, but a saver undoes what *)
(* happened to the log since it copied it.                                 *)
(***************************************************************************)
EXTENDS Integers, Sequences

CONSTANT Cap    \* the most the log holds

VARIABLES
    accepted,   \* entries accepted so far
    buffer,     \* accepted, in nobody's hands
    saving,     \* savers: each has a batch and the copy of the log it will extend
    returning,  \* batches that could not be saved
    log,        \* saved
    losses      \* how often all that is volatile was lost

vars == <<accepted, buffer, saving, returning, log, losses>>

Newest(s) == IF Len(s) > Cap THEN SubSeq(s, Len(s) - Cap + 1, Len(s)) ELSE s

Init ==
    /\ accepted = 0 /\ losses = 0
    /\ buffer = <<>> /\ log = <<>>
    /\ saving = {} /\ returning = {}

\* A saver takes all of b, which the buffer holds.
HandOver(b) ==
    /\ saving' = saving \cup {[batch |-> b, base |-> log]}
    /\ buffer' = <<>>

\* An entry is accepted, at the end of the buffer, and may be handed over with it.
Accept ==
    /\ accepted' = accepted + 1
    /\ LET b == Append(buffer, accepted + 1)
       IN HandOver(b) \/ (buffer' = b /\ UNCHANGED saving)
    /\ UNCHANGED <<returning, log, losses>>

Begin ==
    /\ buffer # <<>>
    /\ HandOver(buffer)
    /\ UNCHANGED <<accepted, returning, log, losses>>

\* A saver writes: what others did since it copied the log is undone.
Write(s) ==
    /\ log' = Newest(s.base \o s.batch)
    /\ saving' = saving \ {s}
    /\ UNCHANGED <<accepted, buffer, returning, losses>>

\* A saver fails, and its batch is on its way back ...
Fail(s) ==
    /\ saving' = saving \ {s}
    /\ returning' = returning \cup {s.batch}
    /\ UNCHANGED <<accepted, buffer, log, losses>>

\* ... or is back at once, in front of what was accepted since.
Retry(s) ==
    /\ buffer' = s.batch \o buffer
    /\ saving' = saving \ {s}
    /\ UNCHANGED <<accepted, returning, log, losses>>

Return(b) ==
    /\ buffer' = b \o buffer
    /\ returning' = returning \ {b}
    /\ UNCHANGED <<accepted, saving, log, losses>>

\* The user clears the log.
Clear == log' = <<>> /\ UNCHANGED <<accepted, buffer, saving, returning, losses>>

\* All that is volatile is lost, and that is counted.
Lose ==
    /\ losses' = losses + 1
    /\ buffer' = <<>> /\ saving' = {} /\ returning' = {}
    /\ UNCHANGED <<accepted, log>>

Next ==
    \/ Accept \/ Begin \/ Clear \/ Lose
    \/ \E s \in saving : Write(s) \/ Fail(s) \/ Retry(s)
    \/ \E b \in returning : Return(b)

Spec == Init /\ [][Next]_vars
=============================================================================
