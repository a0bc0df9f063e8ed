------------------------------ MODULE Snapshots ------------------------------
(***************************************************************************)
(* What PageDatabase (src/snooty/page_database.py) promises the rest of    *)
(* the program, without threads, locks, cancellations or copying: pages    *)
(* are written one at a time; somebody may look at all of them at once,    *)
(* at one moment, and later publish what was made of that look; whoever    *)
(* asks gets what they have published or, if no page was written since,    *)
(* what was published last.                                                *)
(*                                                                         *)
(* The view of some pages is those pages.  A look that is not published    *)
(* yet is kept in a set with at most one member.  "crowded" is the one     *)
(* fact about the launcher that can be noticed from here: two may look at  *)
(* the same time only after two flushes have raced in it.                  *)
(***************************************************************************)
EXTENDS Naturals

CONSTANTS Readers, Pages, Texts, Absent

VARIABLES pages,    \* the text of each page
          stale,    \* the pages that count as written since the last look was published
          view,     \* what was published last
          look,     \* what each reader has looked at and may publish
          answer,   \* what each reader was told
          crowded   \* two flushes have raced

vars == <<pages, stale, view, look, answer, crowded>>

Blank == [p \in Pages |-> Absent]

Init ==
    /\ pages = Blank
    /\ stale = {}
    /\ view = Blank
    /\ look = [r \in Readers |-> {}]
    /\ answer = [r \in Readers |-> Blank]
    /\ crowded = FALSE

Write(p, text) ==
    /\ pages' = [pages EXCEPT ![p] = text]
    /\ stale' = stale \cup {p}
    /\ UNCHANGED <<view, look, answer, crowded>>

\* All pages at once; only when there is something new, and one at a time.
Look(r) ==
    /\ stale # {}
    /\ ~crowded => \A q \in Readers : look[q] = {}
    /\ look' = [look EXCEPT ![r] = {pages}]
    /\ UNCHANGED <<pages, stale, view, answer, crowded>>

\* What was written since the look counts as seen all the same.
Publish(r) ==
    /\ look[r] # {}
    /\ view' \in look[r]
    /\ answer' = [answer EXCEPT ![r] = view']
    /\ look' = [look EXCEPT ![r] = {}]
    /\ stale' = {}
    /\ UNCHANGED <<pages, crowded>>

GiveUp(r) ==
    /\ look' = [look EXCEPT ![r] = {}]
    /\ UNCHANGED <<pages, stale, view, answer, crowded>>

\* Nothing was written: the last view is good.
Reuse(r) ==
    /\ stale = {}
    /\ answer' = [answer EXCEPT ![r] = view]
    /\ UNCHANGED <<pages, stale, view, look, crowded>>

Crowd ==
    /\ crowded' = TRUE
    /\ UNCHANGED <<pages, stale, view, look, answer>>

Next ==
    \/ \E p \in Pages, text \in Texts : Write(p, text)
    \/ \E r \in Readers : Look(r) \/ Publish(r) \/ GiveUp(r) \/ Reuse(r)
    \/ Crowd

Spec == Init /\ [][Next]_vars
=============================================================================
