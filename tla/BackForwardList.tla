-------------------------- MODULE BackForwardList --------------------------
(***************************************************************************)
(* What a browser tab promises its user: a page, the pages one can go back *)
(* to and the pages one can go forward to.  At most Cap pages are kept,    *)
(* and the oldest goes first.  A tab that cannot get memory for a new page *)
(* stays where it is, but what it kept may shrink.                         *)
(***************************************************************************)
EXTENDS Integers, Sequences, SequencesExt

CONSTANTS
    Pages,
    Nowhere,        \* the page of a tab that has none yet
    Cap,            \* the most pages kept
    MayForget       \* can a visit fail for want of memory?

VARIABLES past, page, future

vars == <<past, page, future>>

Init == past = <<>> /\ page = Nowhere /\ future = <<>>

\* What is kept of the pages before the current one.
Kept(pages) == IF Len(pages) >= Cap THEN Tail(pages) ELSE pages

Visit(p) ==
    /\ past' = IF page = Nowhere THEN <<>> ELSE Kept(Append(past, page))
    /\ page' = p
    /\ future' = <<>>

Back ==
    /\ past # <<>>
    /\ page' = Last(past)
    /\ past' = Front(past)
    /\ future' = <<page>> \o future

Forward ==
    /\ future # <<>>
    /\ page' = Head(future)
    /\ past' = Append(past, page)
    /\ future' = Tail(future)

Forget ==
    /\ MayForget
    /\ page # Nowhere
    /\ future' = <<>>
    /\ past' \in {past} \cup {Tail(q) : q \in {past} \ {<<>>}}
    /\ UNCHANGED page

Next == Back \/ Forward \/ Forget \/ \E p \in Pages : Visit(p)

Spec == Init /\ [][Next]_vars
=============================================================================
