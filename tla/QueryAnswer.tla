----------------------------- MODULE QueryAnswer -----------------------------
(***************************************************************************)
(* What a caller of SecurityService::executeQuery may rely on: a call      *)
(* returns what XSB said of that very query, or the process is gone.       *)
(***************************************************************************)
CONSTANT Outputs   \* what XSB can print; "yes" grants, "none" is no output

VARIABLES
  status,   \* the caller: no call under way, waiting in one, or gone
  said,     \* what XSB said of the current or last query
  result    \* what the last call returned

vars == <<status, said, result>>

Init == status = "idle" /\ said = "none" /\ result = FALSE

Call ==
  /\ status = "idle"
  /\ status' = "waiting"
  /\ said' = "none"
  /\ UNCHANGED result

XsbSays(o) ==
  /\ status = "waiting" /\ said = "none"
  /\ said' = o
  /\ UNCHANGED <<status, result>>

Return ==
  /\ status = "waiting"
  /\ status' = "idle"
  /\ result' = (said = "yes")
  /\ UNCHANGED said

Die ==
  /\ status = "waiting"
  /\ status' = "gone"
  /\ UNCHANGED <<said, result>>

Next == Call \/ (\E o \in Outputs : XsbSays(o)) \/ Return \/ Die

Spec == Init /\ [][Next]_vars
=============================================================================
