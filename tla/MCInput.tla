------------------------------ MODULE MCInput -------------------------------
(* The console's keys and stick, and a gamepad's hat; MENU+A toggles fast  *)
(* forward, B holds it.                                                    *)
EXTENDS Input
MCKeys == {[dev |-> "con", btn |-> b] : b \in {"MENU", "POWER", "PLUS", "A", "B"}}
MCAxes == {[dev |-> "con", kind |-> "stick"], [dev |-> "pad", kind |-> "hat"]}
MCToggle == [btn |-> "A", mod |-> TRUE]
MCHold == [btn |-> "B", mod |-> FALSE]
MCStarts == {[plugged |-> TRUE, charger |-> FALSE, hdmi |-> FALSE], [plugged |-> FALSE, charger |-> TRUE, hdmi |-> TRUE]}
MCOthers == {[btn |-> "DPAD_UP", mod |-> TRUE]}
MCControls == {[btns |-> {"DPAD_UP", "ANALOG_UP"}, mod |-> FALSE, retro |-> "up"], [btns |-> {"A"}, mod |-> TRUE, retro |-> "x"]}
=============================================================================
