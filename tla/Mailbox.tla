------------------------------- MODULE Mailbox -------------------------------
(***************************************************************************)
(* What the two threads that share img_buf in the first version of the     *)
(* vision program (Vision/) owe each other: a slot for one image.  A new    *)
(* image takes the place of one that was not taken yet, an image is taken   *)
(* once, and none is taken when there is none.                              *)
(*                                                                         *)
(* Images are numbered as they are put.                                     *)
(***************************************************************************)
EXTENDS Naturals

VARIABLES
  put,    \* how many images have been put
  slot,   \* the number of the image that waits, or 0
  taken,  \* the number of the image taken last, or 0
  takes,  \* how many times an image has been taken
  open    \* FALSE once the program has ended

vars == <<put, slot, taken, takes, open>>

Init == put = 0 /\ slot = 0 /\ taken = 0 /\ takes = 0 /\ open = TRUE

Put ==
  /\ open
  /\ put' = put + 1
  /\ slot' = put'
  /\ UNCHANGED <<taken, takes, open>>

Take ==
  /\ open
  /\ slot # 0
  /\ taken' = slot
  /\ takes' = takes + 1
  /\ slot' = 0
  /\ UNCHANGED <<put, open>>

Close ==
  /\ open' = FALSE
  /\ UNCHANGED <<put, slot, taken, takes>>

Next == Put \/ Take \/ Close

Spec == Init /\ [][Next]_vars

FairSpec == Spec /\ WF_vars(Take)

\* Nothing is taken twice or out of order, and the newest image is never lost:
\* it waits in the slot or is the one taken last.
NewestKept ==
  /\ put \in Nat /\ taken \in Nat
  /\ takes \in 0..taken
  /\ \/ slot = put /\ taken < put
     \/ slot = 0 /\ taken = put

=============================================================================
