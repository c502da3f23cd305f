-------------------------------- MODULE Board --------------------------------
(***************************************************************************)
(* What the threads of the Pi's vision program (Vision/picam) get from     *)
(* sharing write_img and data: a board with room for one image and one     *)
(* result.  An image is put up at once and replaces the one before, its    *)
(* result follows once, whatever the others put up meanwhile, and who      *)
(* looks, looks at one instant.                                            *)
(*                                                                         *)
(* An image is the pair of the frames that its two halves come from, and a *)
(* result the pair of the frames of its counts and its flags.              *)
(***************************************************************************)
CONSTANTS
  Producers,  \* who put images and results up
  Readers,    \* who look at the image
  Frames,     \* what they are made of
  Nothing     \* no frame

VARIABLES
  image,      \* the image on the board
  result,     \* the result on the board
  picture,    \* picture[r]: the image that r has looked at last
  sent,       \* the result that was sent last
  owed        \* owed[p]: the frame whose result p still owes, or Nothing

vars == <<image, result, picture, sent, owed>>

Both(f) == <<f, f>>

Init ==
  /\ image = Both(Nothing) /\ result = Both(Nothing) /\ sent = Both(Nothing)
  /\ picture = [r \in Readers |-> Both(Nothing)]
  /\ owed = [p \in Producers |-> Nothing]

PutImage(p) ==
  /\ owed[p] = Nothing
  /\ \E f \in Frames :
       /\ image' = Both(f)
       /\ owed' = [owed EXCEPT ![p] = f]
  /\ UNCHANGED <<result, picture, sent>>

PutResult(p) ==
  /\ owed[p] # Nothing
  /\ result' = Both(owed[p])
  /\ owed' = [owed EXCEPT ![p] = Nothing]
  /\ UNCHANGED <<image, picture, sent>>

Look(r) ==
  /\ picture' = [picture EXCEPT ![r] = image]
  /\ UNCHANGED <<image, result, sent, owed>>

Send ==
  /\ sent' = result
  /\ UNCHANGED <<image, result, picture, owed>>

Next ==
  \/ \E p \in Producers : PutImage(p) \/ PutResult(p)
  \/ \E r \in Readers : Look(r)
  \/ Send

Spec == Init /\ [][Next]_vars

=============================================================================
