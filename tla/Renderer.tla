------------------------------ MODULE Renderer ------------------------------
(***************************************************************************)
(* How minarch puts a core's frames on the screen: selectScaler's          *)
(* geometry, the two video backends (rg35xx: two pages of a framebuffer    *)
(* and the scalers of Scaler; rg35xxplus: textures and the GPU), the screen*)
(* effects, and the in-game menu, which takes the screen over, draws scaled*)
(* copies of the frame (Menu_scale), changes the options and gives the     *)
(* screen back.                                                            *)
(*                                                                         *)
(* Sizes are in pixels, pitches too.  The core's aspect ratio, a double in *)
(* the code, is the fraction num/den and arithmetic on it is exact.        *)
(* Neither platform supports overscan, so Cropped is never offered.        *)
(***************************************************************************)
EXTENDS Integers, FiniteSets

CONSTANTS
  Devices,     \* screens: [plus |-> BOOLEAN, w, h]
  Cores,       \* cores: [num, den, frames], a frame being [w, h, p]
  PagePixels   \* pixels of one page of the rg35xx's framebuffer

\* Screens, frames and aspect ratios are not empty, and a core's pitch goes with
\* the size of its frame (a change of the pitch alone is not looked for).
ASSUME RendererAssumption ==
  /\ Devices \subseteq [plus : BOOLEAN, w : Nat \ {0}, h : Nat \ {0}]
  /\ \A c \in Cores :
       /\ c.num \in Nat \ {0} /\ c.den \in Nat \ {0}
       /\ c.frames \subseteq [w : Nat \ {0}, h : Nat \ {0}, p : Nat \ {0}]
       /\ \A f, g \in c.frames : f.w = g.w /\ f.h = g.h => f.p = g.p

VARIABLES
  dev, core,   \* the screen and the core (neither changes)
  opt,         \* screen_scaling, screen_effect, screen_sharpness
  rd,          \* renderer: the geometry in force; blit: the scaler chosen
  vid,         \* the surface (rg35xx) or texture (rg35xxplus) and what goes with it
  fx,          \* the effect in force, the one asked for, the texture loaded
  pg,          \* rg35xx: the pages, the one drawn to, and a clear that is due
  setting,     \* a brightness or volume overlay is up; overlay_clear
  at,          \* "game", "menu" or "options"
  menu,        \* Menu_loop's restore_w, restore_h, restore_p and old_scaling
  drawn        \* the picture on the screen

vars == <<dev, core, opt, rd, vid, fx, pg, setting, at, menu, drawn>>

Native == 0
Aspect == 1
Fullscreen == 2
Scalings == {Native, Aspect, Fullscreen}
None == 0
Line == 1
Grid == 2
Sharp == 0
Crisp == 1
Soft == 2

MinOf(a, b) == IF a < b THEN a ELSE b
MaxOf(a, b) == IF a > b THEN a ELSE b
CeilDiv(a, b) == (a + b - 1) \div b

---------------------------------------------------------------------------
(* selectScaler                                                            *)

\* The whole geometry but for the offsets, which most cases leave 0.
Geometry(f, scale, w, h, p) ==
  [true_w |-> f.w, true_h |-> f.h, src_x |-> 0, src_y |-> 0, src_p |-> f.p, scale |-> scale,
   dst_x |-> 0, dst_y |-> 0, dst_w |-> w, dst_h |-> h, dst_p |-> p]

\* A frame larger than the screen: drawn from, or to, an offset.
ForcedCrop(f) ==
  [Geometry(f, 0, dev.w, dev.h, dev.w) EXCEPT
     !.src_x = IF f.w > dev.w THEN (f.w - dev.w) \div 2 ELSE 0,
     !.dst_x = IF f.w > dev.w THEN 0 ELSE (dev.w - f.w) \div 2,
     !.src_y = IF f.h > dev.h THEN (f.h - dev.h) \div 2 ELSE 0,
     !.dst_y = IF f.h > dev.h THEN 0 ELSE (dev.h - f.h) \div 2]

NativeFit(f) ==
  LET scale == MinOf(dev.w \div f.w, dev.h \div f.h)
  IN  IF scale = 0 THEN ForcedCrop(f)
      ELSE [Geometry(f, scale, dev.w, dev.h, dev.w) EXCEPT
              !.dst_x = (dev.w - f.w * scale) \div 2,
              !.dst_y = (dev.h - f.h * scale) \div 2]

\* The smallest scale that covers the screen, the height's snapped to eights.
Oversize(f) == MaxOf(CeilDiv(dev.w, f.w),
                     CeilDiv(dev.h, f.h) - IF (dev.h - f.h) % 8 = 0 THEN 0 ELSE 1)

Ratio(num, den) == (1000 * num) \div den
CoreWider == Ratio(core.num, core.den) > Ratio(dev.w, dev.h)
CoreTaller == Ratio(core.num, core.den) < Ratio(dev.w, dev.h)

\* Mutant: the picture is put in the middle before the width is rounded down.
FitCentredFirst(f, scaling) ==
  LET scale == Oversize(f)
      w == f.w * scale
      h == f.h * scale
      tall == (h * dev.h) \div ((dev.w * core.den) \div core.num)
      wide == (w * dev.w) \div ((dev.h * core.num) \div core.den)
      round == 64 * (wide \div 64)
  IN  IF scaling = Fullscreen \/ ~(CoreWider \/ CoreTaller) THEN Geometry(f, scale, w, h, w)
      ELSE IF CoreWider THEN [Geometry(f, scale, w, tall, w) EXCEPT !.dst_y = (tall - h) \div 2]
      ELSE [Geometry(f, scale, round, h, round) EXCEPT !.dst_x = (wide - w) \div 2]

\* Fullscreen, and aspect with bars above and below, at the sides, or none.
Fit(f, scaling) ==
  LET scale == Oversize(f)
      w == f.w * scale
      h == f.h * scale
      tall == (h * dev.h) \div ((dev.w * core.den) \div core.num)
      wide == 8 * (((w * dev.w) \div ((dev.h * core.num) \div core.den)) \div 8)
  IN  IF scaling = Fullscreen \/ ~(CoreWider \/ CoreTaller) THEN Geometry(f, scale, w, h, w)
      ELSE IF CoreWider THEN [Geometry(f, scale, w, tall, w) EXCEPT !.dst_y = (tall - h) \div 2]
      ELSE [Geometry(f, scale, wide, h, wide) EXCEPT !.dst_x = (wide - w) \div 2]

Layout(f, scaling) == IF scaling = Native THEN NativeFit(f) ELSE Fit(f, scaling)

---------------------------------------------------------------------------
(* The platforms' video                                                    *)

\* The rg35xx's choice of scaler: [effect, k].
PLAT_getScaler(effect, scale) ==
  IF effect = Line THEN [effect |-> Line, k |-> IF scale \in 2 .. 4 THEN scale ELSE 1]
  ELSE IF effect = Grid /\ scale \in {2, 3} THEN [effect |-> Grid, k |-> scale]
  ELSE [effect |-> None, k |-> IF scale \in 2 .. 6 THEN scale ELSE 1]

\* rg35xxplus: scale1x1_c16 whatever the scale, which the effect will follow.
GetScaler(e, scale) == IF dev.plus THEN [effect |-> None, k |-> 1] ELSE PLAT_getScaler(e.type, scale)

HardScale(w, h) == IF w >= dev.w /\ h >= dev.h THEN 1 ELSE IF h >= 160 THEN 2 ELSE 4

\* rg35xxplus: textures of the new size, and a target when Crisp.
resizeVideo(v, w, h, p) ==
  IF w = v.w /\ h = v.h /\ p = v.p THEN v
  ELSE [v EXCEPT !.w = w, !.h = h, !.p = p, !.hard = HardScale(w, h),
                 !.target = IF v.sharp = Crisp THEN <<w * HardScale(w, h), h * HardScale(w, h)>> ELSE << >>]

\* On the rg35xx only the surface changes (the part of the back page it blanks is
\* blanked again, whole, before a picture is drawn).
PLAT_resizeVideo(v, w, h, p) ==
  IF dev.plus THEN resizeVideo(v, w, h, p) ELSE [v EXCEPT !.w = w, !.h = h, !.p = p]

\* PLAT_setSharpness: new textures on the rg35xxplus...
Sharpen(v, s) ==
  IF ~dev.plus \/ v.sharp = s THEN v
  ELSE resizeVideo([v EXCEPT !.p = 0, !.sharp = s], v.w, v.h, v.p)

\* ...and the effect to be loaded again on the rg35xx.
Unload(e) == IF dev.plus THEN e
             ELSE [e EXCEPT !.next = IF e.type >= None THEN e.type ELSE @, !.type = -1]

PLAT_setEffect(e, effect) == [e EXCEPT !.next = effect]

\* The sharpness the options ask for: Native is always Sharp.
Wanted(o) == IF o.scaling = Native THEN Sharp ELSE o.sharpness

\* Which of the pictures of an effect suits a scale.
EffectPicture(effect, scale) ==
  IF scale < 3 THEN 2 ELSE IF scale < 6 THEN scale ELSE IF scale < 8 THEN 6
  ELSE IF effect = Line \/ scale < 11 THEN 8 ELSE 11

\* rg35xxplus: the effect asked for, its picture loaded unless it is the last.
updateEffect(e) ==
  IF e.nscale = e.scale /\ e.next = e.type THEN e
  ELSE LET now == [e EXCEPT !.type = e.next, !.scale = e.nscale]
       IN  IF e.next = None \/ (e.next = e.live /\ e.nscale = e.scale) THEN now
           ELSE [now EXCEPT !.live = e.next, !.texture = <<e.next, EffectPicture(e.next, e.nscale)>>]

---------------------------------------------------------------------------
(* The rg35xx's pages: each holds the layouts drawn since it was cleared    *)

\* Mutant: the page on the screen is forgotten.
ClearBackOnly(q) == [q EXCEPT !.page[q.back] = {}]

PLAT_clearAll(q) == IF dev.plus THEN q ELSE [q EXCEPT !.page[q.back] = {}, !.cleared = TRUE]

Paint(q, what) == [q EXCEPT !.page[q.back] = @ \cup {what}]

\* Shown, the other page is next to be drawn to, cleared if that is due.
PLAT_flip(q) == [q EXCEPT !.shown = q.back, !.back = 1 - q.back, !.cleared = FALSE,
                          !.page[1 - q.back] = IF q.cleared THEN {} ELSE @]

---------------------------------------------------------------------------
(* A frame                                                                 *)

\* selectScaler, from the surface v and the effect e: the geometry, the scaler,
\* the surface.
selectScaler(f, v, e) ==
  LET g == Layout(f, opt.scaling)
      x == IF dev.plus THEN [e EXCEPT !.nscale = g.scale] ELSE e
  IN  [fx  |-> x,
       rd  |-> [g |-> g, blit |-> GetScaler(x, g.scale), aspect |-> opt.scaling],
       vid |-> PLAT_resizeVideo(v, g.dst_w, g.dst_h, g.dst_p)]

Changed(f) == rd.g.dst_p = 0 \/ f.w # rd.g.true_w \/ f.h # rd.g.true_h

Chosen(f, v, e) == IF Changed(f) THEN selectScaler(f, v, e) ELSE [fx |-> e, rd |-> rd, vid |-> v]

\* Mutant: the scaler chosen before stays.
TakenKeepsBlit(c) == [c EXCEPT !.fx.type = c.fx.next]

\* rg35xx: the effect asked for is taken, and its scaler with it.
Taken(c) == IF c.fx.type = c.fx.next THEN c
            ELSE [c EXCEPT !.fx.type = c.fx.next, !.rd.blit = PLAT_getScaler(c.fx.next, c.rd.g.scale)]

\* What the rg35xx's scaler draws at dst_x, dst_y: the 1x line effect goes one
\* row (two when the height is odd) below the frame (Scaler's OneLineDraws).
SoftPicture(c, f) ==
  LET k == c.rd.blit.k
      spill == IF c.rd.blit.effect = Line /\ k = 1 THEN 1 + (f.h % 2) ELSE 0
  IN  [frame |-> f, g |-> c.rd.g, surface |-> <<c.vid.w, c.vid.h, c.vid.p>>, fn |-> c.rd.blit,
       x |-> c.rd.g.dst_x, y |-> c.rd.g.dst_y,
       w |-> f.w * k, h |-> f.h * k, rows |-> f.h * k + spill]

\* Where rg35xxplus's PLAT_flip puts the texture.
AspectRect == LET w == (dev.h * core.num) \div core.den
              IN  IF w > dev.w THEN <<dev.w, (dev.w * core.den) \div core.num>> ELSE <<w, dev.h>>

GpuPicture(c, f) ==
  LET z == CASE c.rd.aspect = Native -> <<f.w * c.rd.g.scale, f.h * c.rd.g.scale>>
             [] c.rd.aspect = Aspect -> AspectRect
             [] OTHER -> <<dev.w, dev.h>>
  IN  [frame |-> f, g |-> c.rd.g, surface |-> <<c.vid.w, c.vid.h, c.vid.p>>, fn |-> c.rd.blit,
       x |-> (dev.w - z[1]) \div 2, y |-> (dev.h - z[2]) \div 2, w |-> z[1], h |-> z[2], rows |-> z[2]]

\* The overlay: while it is up, and for two frames after it, the page is wiped.
Wiped(q, up, due) == IF ~up /\ due > 0 THEN PLAT_clearAll(q) ELSE q

\* The frame f drawn with the choice c already made and the pages q.
Refresh(f, c0, q0, up) ==
  LET c == IF dev.plus THEN [c0 EXCEPT !.vid = resizeVideo(@, f.w, f.h, c0.rd.g.src_p)] ELSE Taken(c0)
      q == Paint(Wiped(q0, up, setting.due), c.rd.g)
  IN  /\ rd' = c.rd
      /\ vid' = c.vid
      /\ fx' = IF dev.plus THEN updateEffect(c.fx) ELSE c.fx
      /\ pg' = IF dev.plus THEN q0 ELSE PLAT_flip(IF up THEN Paint(q, [Overlay |-> TRUE]) ELSE q)
      /\ setting' = [up |-> up, due |-> IF up THEN 2 ELSE IF setting.due > 0 THEN setting.due - 1 ELSE 0]
      /\ drawn' = IF dev.plus THEN GpuPicture(c, f) ELSE SoftPicture(c, f)

\* The core's frame, which may be of another size than the last; the player
\* may be changing the brightness or the volume (the plus draws that apart).
video_refresh_callback_main ==
  /\ at = "game"
  /\ \E f \in core.frames, up \in IF dev.plus THEN {FALSE} ELSE BOOLEAN :
       Refresh(f, Chosen(f, vid, fx), IF Changed(f) THEN PLAT_clearAll(pg) ELSE pg, up)
  /\ UNCHANGED <<dev, core, opt, at, menu>>

---------------------------------------------------------------------------
(* Options: from the menu, or by a shortcut in the game                    *)

\* The option, what it means for the video, and the geometry to be worked out
\* again.
Config_syncFrontend(key, v) ==
  /\ opt' = [opt EXCEPT ![key] = v]
  /\ IF key = "effect" THEN fx' = PLAT_setEffect(fx, v) /\ UNCHANGED vid
     ELSE vid' = Sharpen(vid, Wanted(opt')) /\ fx' = Unload(fx)
  /\ rd' = [rd EXCEPT !.g.dst_p = 0]

CycleScale == /\ at = "game"
              /\ Config_syncFrontend("scaling", (opt.scaling + 1) % 3)
              /\ UNCHANGED <<dev, core, pg, setting, at, menu, drawn>>

CycleEffect == /\ at = "game"
               /\ Config_syncFrontend("effect", (opt.effect + 1) % 3)
               /\ UNCHANGED <<dev, core, pg, setting, at, menu, drawn>>

ChangeOption == /\ at = "options"
                /\ \E key \in DOMAIN opt : \E v \in (0 .. 2) \ {opt[key]} : Config_syncFrontend(key, v)
                /\ UNCHANGED <<dev, core, pg, setting, at, menu, drawn>>

---------------------------------------------------------------------------
(* The in-game menu                                                        *)

NoFrame == [w |-> 0, h |-> 0, p |-> 0]
NoPicture == [frame |-> NoFrame, g |-> Geometry(NoFrame, 0, 0, 0, 0), surface |-> <<0, 0, 0>>,
              fn |-> [effect |-> None, k |-> 1], x |-> 0, y |-> 0, w |-> 0, h |-> 0, rows |-> 0]
NoMenu == [restore |-> <<0, 0, 0>>, old |-> Native]

\* The last column or row read, in steps of 16.16 fixed point.
LastRead(from, size, steps) == (from * 65536 + (steps - 1) * ((size * 65536) \div steps)) \div 65536

\* Menu_scale from a bitmap of w x h to a surface of dw x dh, with geometry g:
\* the rectangle written, and the first and last column and row read.
Menu_scale(g, w, h, dw, dh) ==
  LET native == opt.scaling = Native
      forced == native /\ g.scale = 0
      half(n) == IF dw = dev.w \div 2 THEN n \div 2 ELSE n
      \* the frame as it is on the screen, or what the crop leaves of it
      fw == IF forced THEN g.true_w - 2 * g.src_x ELSE g.true_w * g.scale
      fh == IF forced THEN g.true_h - 2 * g.src_y ELSE g.true_h * g.scale
      nw == IF native THEN half(fw) ELSE dw
      nh == IF native THEN half(fh) ELSE dh
      fit == opt.scaling = Aspect \/ nw > dw \/ nh > dh
      even(n) == n + (n % 2)
      rw == IF ~fit THEN nw
            ELSE IF CoreTaller THEN 8 * (even((dh * core.num) \div core.den) \div 8) ELSE dw
      rh == IF ~fit THEN nh
            ELSE IF CoreWider THEN even((dw * core.den) \div core.num) ELSE dh
      sw == IF forced THEN fw ELSE w
      sh == IF forced THEN fh ELSE h
  IN  [rx |-> IF fit THEN (dw - rw) \div 2 ELSE IF native THEN half(g.dst_x) ELSE 0,
       ry |-> IF fit THEN (dh - rh) \div 2 ELSE IF native THEN half(g.dst_y) ELSE 0,
       rw |-> rw, rh |-> rh,
       lastx |-> LastRead(g.src_x, sw, rw), lasty |-> LastRead(g.src_y, sh, rh)]

\* The backing of the menu, and the preview of a saved state, which may have been
\* made when the frame had another size.
Backing == Menu_scale(rd.g, rd.g.true_w, rd.g.true_h, dev.w, dev.h)
Preview(f) == Menu_scale(rd.g, f.w, f.h, dev.w \div 2, dev.h \div 2)

\* The frame the renderer last drew.
LastFrame == [w |-> rd.g.true_w, h |-> rd.g.true_h, p |-> rd.g.src_p]

\* screen's size: the surface on the rg35xx, always the device's on the plus.
Screen(v) == IF dev.plus THEN <<dev.w, dev.h, dev.w>> ELSE <<v.w, v.h, v.p>>
Device == <<dev.w, dev.h, dev.w>>

Resized(v, to, from) == IF <<from[1], from[2]>> # <<dev.w, dev.h>>
                        THEN PLAT_resizeVideo(v, to[1], to[2], to[3]) ELSE v

\* Menu_loop up to its loop; a frame has been drawn.
OpenMenu == /\ at = "game" /\ rd.g.true_w > 0
            /\ menu' = [restore |-> Screen(vid), old |-> opt.scaling]
            /\ vid' = Resized(vid, Device, Screen(vid))
            /\ fx' = PLAT_setEffect(fx, None)
            /\ at' = "menu"
            /\ drawn' = NoPicture
            /\ UNCHANGED <<dev, core, opt, rd, pg, setting>>

\* The menu drawn: on the plus a flip without a picture takes the device's size.
MenuDraw == /\ at \in {"menu", "options"}
            /\ vid' = IF dev.plus THEN resizeVideo(vid, dev.w, dev.h, 640) ELSE vid
            /\ pg' = IF dev.plus THEN pg ELSE PLAT_flip(Paint(pg, [Menu |-> TRUE]))
            /\ UNCHANGED <<dev, core, opt, rd, fx, setting, at, menu, drawn>>

EnterOptions == /\ at = "menu"
                /\ at' = "options"
                /\ menu' = [menu EXCEPT !.old = opt.scaling]
                /\ UNCHANGED <<dev, core, opt, rd, vid, fx, pg, setting, drawn>>

\* Mutant: the size to go back to is not taken again.
LeaveOptionsOldSize ==
  /\ at = "options"
  /\ at' = "menu"
  /\ IF opt.scaling # menu.old
     THEN LET c == selectScaler(LastFrame, vid, fx)
          IN  /\ rd' = c.rd /\ fx' = c.fx
              /\ vid' = PLAT_resizeVideo(c.vid, dev.w, dev.h, dev.w)
     ELSE UNCHANGED <<rd, fx, vid>>
  /\ UNCHANGED <<dev, core, opt, pg, setting, drawn, menu>>

\* Back from the options: another scaling is worked out at once, and the size
\* to go back to with it.
LeaveOptions ==
  /\ at = "options"
  /\ at' = "menu"
  /\ IF opt.scaling # menu.old
     THEN LET c == selectScaler(LastFrame, vid, fx)
          IN  /\ rd' = c.rd /\ fx' = c.fx
              /\ menu' = [menu EXCEPT !.restore = Screen(c.vid)]
              /\ vid' = PLAT_resizeVideo(c.vid, dev.w, dev.h, dev.w)
     ELSE UNCHANGED <<rd, fx, menu, vid>>
  /\ UNCHANGED <<dev, core, opt, pg, setting, drawn>>

\* Menu_loop after its loop: cleared, the size and the effect restored, the
\* frame drawn again.
CloseMenu ==
  /\ at = "menu"
  /\ at' = "game"
  /\ LET v == Resized(vid, menu.restore, menu.restore)
         e == PLAT_setEffect(fx, opt.effect)
     IN  Refresh(LastFrame, Chosen(LastFrame, v, e), PLAT_clearAll(pg), setting.up)
  /\ menu' = NoMenu
  /\ UNCHANGED <<dev, core, opt>>

---------------------------------------------------------------------------

Init == /\ dev \in Devices /\ core \in Cores
        /\ opt = [scaling |-> Aspect, effect |-> None, sharpness |-> Soft]
        /\ rd = [g |-> Geometry(NoFrame, 0, 0, 0, 0), blit |-> [effect |-> None, k |-> 1], aspect |-> Native]
        /\ vid = [w |-> dev.w, h |-> dev.h, p |-> dev.w, sharp |-> Soft, target |-> << >>, hard |-> 4]
        /\ fx = [type |-> None, next |-> None, scale |-> 1, nscale |-> 1, live |-> None, texture |-> <<None, 0>>]
        /\ pg = [page |-> [i \in 0 .. 1 |-> {}], back |-> 1, shown |-> 0, cleared |-> FALSE]
        /\ setting = [up |-> FALSE, due |-> 0]
        /\ at = "load"
        /\ menu = NoMenu
        /\ drawn = NoPicture

\* The options read before the first frame, in their order.
Config_readOptions ==
  /\ at = "load"
  /\ at' = "game"
  /\ \E s, e, q \in 0 .. 2 :
       LET first == [opt EXCEPT !.scaling = s]
       IN  /\ opt' = [scaling |-> s, effect |-> e, sharpness |-> q]
           /\ vid' = Sharpen(Sharpen(vid, Wanted(first)), Wanted(opt'))
           /\ fx' = Unload(PLAT_setEffect(Unload(fx), e))
  /\ UNCHANGED <<dev, core, rd, pg, setting, menu, drawn>>

Next == \/ Config_readOptions
        \/ video_refresh_callback_main
        \/ CycleScale \/ CycleEffect
        \/ OpenMenu \/ MenuDraw \/ EnterOptions \/ ChangeOption \/ LeaveOptions \/ CloseMenu

Spec == Init /\ [][Next]_vars

---------------------------------------------------------------------------
(* Properties                                                              *)

\* Every variable has its type.
TypeOK == /\ opt.scaling \in Scalings /\ opt.effect \in None .. Grid /\ opt.sharpness \in Sharp .. Soft
          /\ at \in {"load", "game", "menu", "options"}
          /\ fx.type \in -1 .. Grid /\ fx.next \in None .. Grid
          /\ rd.blit.k \in 1 .. 6 /\ pg.back \in 0 .. 1 /\ setting.due \in 0 .. 2
          /\ vid.hard \in {1, 2, 4}

Soft35 == ~dev.plus /\ drawn.frame.w > 0
Gpu == dev.plus /\ drawn.frame.w > 0

\* On the rg35xx every row a scaler writes is in the page it draws to, the row
\* the 1x line effect writes below its image too (selectScaler ends with
\* "TODO: need to sanity check scale and demands on the buffer").
DrawsInPage == Soft35 => /\ (drawn.y + drawn.rows) * drawn.surface[3] + drawn.x <= PagePixels
                         /\ drawn.surface[2] * drawn.surface[3] <= PagePixels

\* On the rg35xx the picture is inside the surface and so on the screen, unless
\* the frame is larger than the screen: no offset is negative and no row runs
\* into the next, whatever the bars the aspect asks for were rounded to.
PictureInSurface == Soft35 /\ drawn.g.scale > 0 =>
                      /\ drawn.x >= 0 /\ drawn.y >= 0
                      /\ drawn.x + drawn.w <= drawn.surface[1] /\ drawn.y + drawn.h <= drawn.surface[2]
                      /\ drawn.surface[1] <= drawn.surface[3]

\* A picture is drawn to a surface of the geometry's size (rg35xx), or uploaded
\* to a texture of the frame's (rg35xxplus): the menu, the options and a core
\* that changes its size resize it and put it back.
SurfaceIsForPicture ==
  /\ Soft35 => drawn.surface = <<drawn.g.dst_w, drawn.g.dst_h, drawn.g.dst_p>>
  /\ Gpu => drawn.surface = <<drawn.frame.w, drawn.frame.h, drawn.frame.p>>

\* The geometry is that of the last frame under the scaling in force, or it is
\* marked to be worked out again: no option, shortcut or menu leaves the renderer
\* with the geometry of another scaling.
GeometryIsCurrent == rd.g.dst_p # 0 => rd.g = Layout(LastFrame, opt.scaling)

\* A picture is drawn: a frame of the core, or the last one after the menu.
Drawing == at \in {"game", "menu"} /\ at' = "game" /\ opt' = opt

\* On the rg35xx the scaler a picture is drawn with is the one for the effect
\* asked for and for the scale of its geometry, not one chosen before either.
ScalerIsCurrent ==
  [][Drawing /\ ~dev.plus =>
       drawn'.fn = PLAT_getScaler(IF at = "menu" THEN opt.effect ELSE fx.next, drawn'.g.scale)]_vars

\* The menu switches the effect off, and the shortcuts, the options and the
\* sharpness all touch it; the picture drawn on the way out of the menu has the
\* effect the options show.
EffectAfterMenu ==
  [][at = "menu" /\ at' = "game" =>
       /\ fx'.type = opt.effect
       /\ (dev.plus /\ opt.effect # None) => fx'.texture[1] = opt.effect]_vars

\* On the rg35xxplus the texture that Crisp draws through is there whenever
\* the sharpness is Crisp, and of the size PLAT_flip takes its rectangle from.
TargetIsReady == /\ dev.plus => vid.sharp = Wanted(opt)
                 /\ vid.sharp = Crisp => vid.target = <<vid.w * vid.hard, vid.h * vid.hard>>

\* On the rg35xxplus the picture is on the screen and is not empty, unless the
\* frame is larger than the screen.
PictureOnScreen == Gpu /\ drawn.g.scale > 0 =>
                     /\ drawn.x >= 0 /\ drawn.y >= 0 /\ drawn.w > 0 /\ drawn.h > 0
                     /\ drawn.x + drawn.w <= dev.w /\ drawn.y + drawn.h <= dev.h

\* What the rg35xx shows in the game holds nothing of another geometry, of the
\* menu, or of an overlay that has gone: each page is cleared before its next
\* frame is shown (PLAT_clearAll, PLAT_flip, overlay_clear; PLAT_resizeVideo also
\* shows the page it has just blanked until that frame, which is not modelled).
NoRemains == Soft35 /\ at = "game" /\ pg.page[pg.shown] # {} =>
               pg.page[pg.shown] \ {[Overlay |-> TRUE]} = {drawn.g}

\* An overlay is gone from the screen with the frame after it.
OverlayGoes == Soft35 /\ at = "game" /\ ~setting.up => [Overlay |-> TRUE] \notin pg.page[pg.shown]

InBounds(m, w, h, dw, dh) ==
  /\ m.rx >= 0 /\ m.ry >= 0 /\ m.rw > 0 /\ m.rh > 0
  /\ m.rx + m.rw <= dw /\ m.ry + m.rh <= dh
  /\ m.lastx < w /\ m.lasty < h

\* Menu_scale writes inside its surface and reads inside its bitmap, for the
\* backing of the menu and for previews of states saved at another size (at the
\* same size only, when the frame is larger than the screen), once the geometry
\* is that of the scaling in force.
MenuScaleInBounds ==
  at = "menu" /\ rd.aspect = opt.scaling =>
    /\ InBounds(Backing, rd.g.true_w, rd.g.true_h, dev.w, dev.h)
    /\ \A f \in core.frames :
         (rd.g.scale # 0 \/ <<f.w, f.h>> = <<rd.g.true_w, rd.g.true_h>>) =>
           InBounds(Preview(f), f.w, f.h, dev.w \div 2, dev.h \div 2)

\* Whatever selectScaler and Menu_scale work out is inside what it is drawn to.
PictureFits == TypeOK /\ DrawsInPage /\ PictureInSurface /\ PictureOnScreen /\ MenuScaleInBounds

\* No frame, option, shortcut or menu leaves the renderer with the geometry, the
\* surface or the textures of an earlier one.
PictureIsCurrent == GeometryIsCurrent /\ SurfaceIsForPicture /\ TargetIsReady

\* The two pages of the rg35xx show nothing that has gone (PLAT_clearAll, PLAT_flip).
CleanPages == NoRemains /\ OverlayGoes

\* Each picture is drawn with the scaler and the effect asked for.
DrawsAsAsked == ScalerIsCurrent /\ EffectAfterMenu
=============================================================================
