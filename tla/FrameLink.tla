------------------------------ MODULE FrameLink ------------------------------
(***************************************************************************)
(* What the frame assembly of main/bridge_service.c promises of one serial *)
(* line: a frame that the line does not harm is taken exactly once, as it  *)
(* was sent, before the next one begins.  Of a harmed frame it promises    *)
(* nothing.                                                                *)
(***************************************************************************)
CONSTANTS Frames,   \* the frames a device may send
          NoFrame   \* nothing taken yet

VARIABLES offered,  \* the frame on the line
          harmed,   \* whether the line has harmed it
          taken     \* what was taken since it began

link == <<offered, harmed, taken>>

Init ==
    /\ offered \in Frames
    /\ harmed \in BOOLEAN
    /\ taken = NoFrame

Offer ==
    /\ ~harmed => taken = offered
    /\ offered' \in Frames
    /\ harmed' \in BOOLEAN
    /\ taken' = NoFrame

Take ==
    /\ taken = NoFrame
    /\ taken' = offered
    /\ UNCHANGED <<offered, harmed>>

\* A frame may be harmed, or the silence behind it spoiled; a harmed frame may
\* be missed, taken wrongly, or joined with noise.  What was taken before stays
\* as it was taken.
Mistake ==
    /\ ~harmed /\ taken # NoFrame => taken' = taken
    /\ harmed'
    /\ UNCHANGED offered

Next == Offer \/ Take \/ Mistake

Spec == Init /\ [][Next]_link
=============================================================================
