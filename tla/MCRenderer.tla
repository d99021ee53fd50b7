----------------------------- MODULE MCRenderer -----------------------------
(***************************************************************************)
(* Renderer on the screens of the two handhelds, one of them also on HDMI, *)
(* with the sizes and aspect ratios of cores they ship.                    *)
(***************************************************************************)
EXTENDS Renderer

F(w, h, p) == [w |-> w, h |-> h, p |-> p]

MCDevices == {[plus |-> FALSE, w |-> 640, h |-> 480], [plus |-> TRUE, w |-> 640, h |-> 480],
              [plus |-> TRUE, w |-> 1280, h |-> 720]}

\* Game Boy; GBA; NES; PlayStation with its modes, one larger than the screen;
\* WonderSwan held upright; Virtual Boy.
MCCores == {[num |-> 10, den |-> 9,  frames |-> {F(160, 144, 256)}],
            [num |-> 3,  den |-> 2,  frames |-> {F(240, 160, 240)}],
            [num |-> 64, den |-> 49, frames |-> {F(256, 240, 256), F(256, 224, 256)}],
            [num |-> 4,  den |-> 3,  frames |-> {F(320, 239, 320), F(640, 480, 640), F(640, 512, 640)}],
            [num |-> 9,  den |-> 14, frames |-> {F(144, 224, 224)}],
            [num |-> 12, den |-> 7,  frames |-> {F(384, 224, 384)}]}

=============================================================================
