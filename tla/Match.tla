-------------------------------- MODULE Match --------------------------------
(***************************************************************************)
(* What a robot that sends its commands in turn gets from the Pi's vision  *)
(* program (Vision/picam) in one match, from power-up to the end: the      *)
(* camera sees; a teleop command stops it, and then it records, or it has  *)
(* no recorder to record with and can see again; a second autonomous       *)
(* command tells the recorder to end and lets the camera see again, once.  *)
(* Each user opens the camera when nobody has it but users that have been  *)
(* told to leave. The match may be over at any stage: the Pi is halted or  *)
(* switched off, or the program has died.                                  *)
(***************************************************************************)
CONSTANTS
  Cameras,    \* the PiCam objects
  Recorders   \* the raspivid programs

VARIABLES
  stage,      \* how far the match is
  users,      \* who has the camera open
  told        \* the users that have been told to leave it

vars == <<stage, users, told>>

Init == stage = "over" /\ users = {} /\ told = {}

PowerUp == stage = "over" /\ stage' = "dark" /\ UNCHANGED <<users, told>>

\* One of them takes the camera, which nobody else wants.
Opens(them, from, to) ==
  /\ stage \in from /\ stage' = to
  /\ users = told
  /\ \E u \in them : users' = users \cup {u}
  /\ UNCHANGED told

\* Whoever has the camera gives it up.
Closes(from, to) ==
  /\ stage = from /\ stage' = to
  /\ users' = {}
  /\ UNCHANGED told

See == Opens(Cameras, {"dark", "stopped"}, "seeing")
Stop == Closes("seeing", "stopped")
Record == Opens(Recorders, {"stopped"}, "recording")
RecordEnds == Closes("recording", "recorded")
RecordFails == Closes("stopped", "recorded")
SeeAgain == Opens(Cameras, {"recorded"}, "again")

\* The recorder is told to leave, and leaves when it will.
Tell == stage = "recording" /\ stage' = "recorded" /\ told' = users /\ UNCHANGED users

Leave ==
  /\ told # {} /\ told' = {}
  /\ users' = users \ told
  /\ UNCHANGED stage

End == stage' = "over" /\ users' = {} /\ told' = {}

Next ==
  \/ PowerUp \/ See \/ Stop \/ Record \/ RecordEnds \/ RecordFails
  \/ Tell \/ Leave \/ SeeAgain \/ End

Spec == Init /\ [][Next]_vars

=============================================================================
