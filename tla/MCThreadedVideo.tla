--------------------------- MODULE MCThreadedVideo ---------------------------
(* Threaded video with the buttons of the question each run asks. *)
EXTENDS ThreadedVideo

AllButtons == {"power", "toggle_ff", "hold_ff", "save_quit", "menu", "option"}
ToggleButton == {"toggle_ff"}
MenuButton == {"menu"}
ToggleAndMenu == {"toggle_ff", "menu", "option"}
=============================================================================
