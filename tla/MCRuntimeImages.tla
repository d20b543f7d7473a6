---------------------------- MODULE MCRuntimeImages ----------------------------
(* Two series, the second of them legacy, with a second image; the first legacy *)
(* image lacks the fixes.  Once a deletion or a core update has raced only the  *)
(* .env and the job are spoken of, which further deletions and core updates can *)
(* bring nothing new: those are not followed, and the images of the history,    *)
(* which only a deletion looks at, are not told apart.  Nor is a core update    *)
(* followed that is under way while a deletion has chosen a tag.  Why a legacy  *)
(* image may be selected, by consent or by a floating tag, is remembered        *)
(* together.                                                                    *)
EXTENDS RuntimeImages, TLC

CONSTANTS php8, php7, i1, l1, l2

BuiltFor == (i1 :> php8) @@ (l1 :> php7) @@ (l2 :> php7)
AtFirst == (php8 :> i1) @@ (php7 :> l1)

Updating == \E s \in Site : staged[s] # NoStage
Followed == (Updating => gc = None) /\ (raced => gc = None /\ ~Updating)

Allowed(s) == {i \in accepted[s] \cup adopted[s] : SeriesOf[i] \in Legacy}
View == <<images, env, container, record, IF raced THEN {} ELSE kept, job, staged, gc,
          [s \in Site |-> Allowed(s)], raced>>
================================================================================
