--------------------------- MODULE RendererProofs ---------------------------
(***************************************************************************)
(* What Renderer promises on any screens and with any cores, whatever      *)
(* arithmetic selectScaler's geometry comes to: no frame, option, shortcut *)
(* or menu leaves the renderer with the geometry, surface, texture, scaler *)
(* or effect of an earlier one, and the two pages of the rg35xx show       *)
(* nothing that has gone.                                                  *)
(***************************************************************************)
EXTENDS Renderer, TLAPS

-----------------------------------------------------------------------------
(* The inductive invariant.                                                *)

\* The shapes of the renderer's records.
IsGeo(g) == g = [true_w |-> g.true_w, true_h |-> g.true_h, src_x |-> g.src_x, src_y |-> g.src_y,
                 src_p |-> g.src_p, scale |-> g.scale, dst_x |-> g.dst_x, dst_y |-> g.dst_y,
                 dst_w |-> g.dst_w, dst_h |-> g.dst_h, dst_p |-> g.dst_p]
IsRd(r) == r = [g |-> r.g, blit |-> r.blit, aspect |-> r.aspect] /\ IsGeo(r.g)
IsVid(v) == v = [w |-> v.w, h |-> v.h, p |-> v.p, sharp |-> v.sharp, target |-> v.target, hard |-> v.hard]
IsFx(e) == e = [type |-> e.type, next |-> e.next, scale |-> e.scale, nscale |-> e.nscale,
                live |-> e.live, texture |-> e.texture]
IsPg(q) == /\ q = [page |-> q.page, back |-> q.back, shown |-> q.shown, cleared |-> q.cleared]
           /\ q.page = [i \in 0 .. 1 |-> q.page[i]]
           /\ q.back \in 0 .. 1 /\ q.shown = 1 - q.back

Opts == [scaling : 0 .. 2, effect : 0 .. 2, sharpness : 0 .. 2]

\* The frame a geometry is for, and the surface it asks for.
FrameOf(g) == [w |-> g.true_w, h |-> g.true_h, p |-> g.src_p]
Dst(g) == <<g.dst_w, g.dst_h, g.dst_p>>
Size(v) == <<v.w, v.h, v.p>>

Typed ==
  /\ dev \in Devices /\ core \in Cores
  /\ opt \in Opts /\ at \in {"load", "game", "menu", "options"}
  /\ IsRd(rd) /\ IsVid(vid) /\ IsFx(fx) /\ IsPg(pg)
  /\ fx.type \in -1 .. 2 /\ fx.next \in 0 .. 2
  /\ rd.blit.k \in 1 .. 6 /\ vid.hard \in {1, 2, 4}
  /\ setting = [up |-> setting.up, due |-> setting.due] /\ setting.due \in 0 .. 2
  /\ menu = [restore |-> menu.restore, old |-> menu.old]
  /\ menu.restore = <<menu.restore[1], menu.restore[2], menu.restore[3]>>

\* The geometry is that of a frame of the core under the scaling in force; the
\* menu is open over a frame.
Geometries ==
  /\ FrameOf(rd.g) = NoFrame \/ FrameOf(rd.g) \in core.frames
  /\ at \in {"menu", "options"} => FrameOf(rd.g) \in core.frames
  /\ at = "load" => rd.g.dst_p = 0
  /\ rd.g.dst_p # 0 => rd.g = Layout(FrameOf(rd.g), opt.scaling)

\* rg35xx: the surface, whose pitch is its width.  In the game it is the one the
\* geometry asks for; in the menu it is the device's, and the size to go back to is
\* the one the geometry asks for.
Surfaces ==
  ~ dev.plus =>
    /\ vid.p = vid.w
    /\ (at = "game" /\ rd.g.dst_p # 0) => Size(vid) = Dst(rd.g)
    /\ at \in {"menu", "options"} =>
         /\ Size(vid) = Device
         /\ menu.restore[3] = menu.restore[1]
         /\ rd.g.dst_p # 0 => menu.restore = Dst(rd.g)

\* rg35xx: the scaler chosen is the one for the effect taken.
Scalers == (~ dev.plus /\ rd.g.dst_p # 0) => rd.blit = PLAT_getScaler(fx.type, rd.g.scale)

\* rg35xxplus: the sharpness is the one asked for and its textures are there.  A
\* pitch of 0 would make resizeVideo take them for ready.
TargetOK(v) == v.sharp = Crisp => v.target = <<v.w * v.hard, v.h * v.hard>>
Textures ==
  /\ IF dev.plus THEN vid.sharp = Wanted(opt) /\ vid.p # 0 ELSE vid.sharp = Soft
  /\ TargetOK(vid)

\* rg35xxplus: the effect in force is the last one loaded, and so is its picture.
EffectOK(e) == e.type # -1 /\ (e.type # None => e.live = e.type) /\ (e.live # None => e.texture[1] = e.live)
Effects == dev.plus => EffectOK(fx)

\* rg35xx: in the game each page holds at most the picture's geometry, and the
\* overlay only while it is up; the one shown holds the picture.
Overlay == [Overlay |-> TRUE]
Clean(q, g, up) ==
  /\ g \in q.page[q.shown]
  /\ \A i \in 0 .. 1 : q.page[i] \subseteq {g, Overlay} /\ (~ up => Overlay \notin q.page[i])
Pages ==
  /\ setting.up => setting.due = 2
  /\ at = "load" => drawn = NoPicture
  /\ (~ dev.plus /\ at = "game") =>
       /\ rd.g.dst_p # 0 => drawn.frame.w > 0 /\ drawn.g = rd.g
       /\ drawn.frame.w > 0 => IsGeo(drawn.g) /\ Clean(pg, drawn.g, setting.up)

RendererInv ==
  Typed /\ Geometries /\ Surfaces /\ Scalers /\ Textures /\ Effects /\ Pages /\ SurfaceIsForPicture

-----------------------------------------------------------------------------
(* The operators.                                                          *)

\* selectScaler's geometry is for the frame it was given, and the pitch it asks for
\* is its width, whatever the scaling and the arithmetic.
LEMMA LayoutFacts ==
  ASSUME NEW f, NEW s, NEW g, g = Layout(f, s)
  PROVE  /\ IsGeo(g) /\ g.true_w = f.w /\ g.true_h = f.h /\ g.src_p = f.p
         /\ g.dst_p = g.dst_w
<1> DEFINE Good(x) == /\ IsGeo(x) /\ x.true_w = f.w /\ x.true_h = f.h /\ x.src_p = f.p
                      /\ x.dst_p = x.dst_w
<1>1. ASSUME NEW scale, NEW w, NEW h PROVE Good(Geometry(f, scale, w, h, w))
  BY DEF Geometry, IsGeo
<1>2. ASSUME NEW x, Good(x), NEW a, NEW b, NEW c, NEW d
      PROVE  /\ Good([x EXCEPT !.src_x = a, !.dst_x = b, !.src_y = c, !.dst_y = d])
             /\ Good([x EXCEPT !.dst_x = b, !.dst_y = d])
             /\ Good([x EXCEPT !.dst_x = b]) /\ Good([x EXCEPT !.dst_y = d])
  <2>1. ASSUME NEW y, \/ y = [x EXCEPT !.src_x = a, !.dst_x = b, !.src_y = c, !.dst_y = d]
                     \/ y = [x EXCEPT !.dst_x = b, !.dst_y = d]
                     \/ y = [x EXCEPT !.dst_x = b] \/ y = [x EXCEPT !.dst_y = d]
        PROVE  Good(y)
    BY <1>2, <2>1 DEF IsGeo
  <2> HIDE DEF Good
  <2> QED
    BY <2>1
<1> HIDE DEF Good
<1>3. Good(ForcedCrop(f))
  BY <1>1, <1>2 DEF ForcedCrop
<1>4. Good(NativeFit(f))
  BY <1>1, <1>2, <1>3 DEF NativeFit
<1>5. Good(Fit(f, s))
  BY <1>1, <1>2 DEF Fit
<1> QED
  BY <1>4, <1>5 DEF Layout, Good

\* A surface or texture v of the size w x h, pitch p, with the textures of its sharpness.
Ready(v, w, h, p, sharp) ==
  /\ IsVid(v) /\ v.w = w /\ v.h = h /\ v.p = p /\ v.sharp = sharp
  /\ v.hard \in {1, 2, 4} /\ TargetOK(v)
Sound(v) == IsVid(v) /\ v.hard \in {1, 2, 4} /\ TargetOK(v)

LEMMA ResizeReady ==
  ASSUME NEW v, Sound(v), NEW w, NEW h, NEW p
  PROVE  Ready(resizeVideo(v, w, h, p), w, h, p, v.sharp)
<1>1. CASE w = v.w /\ h = v.h /\ p = v.p
  BY <1>1 DEF resizeVideo, Ready, Sound
<1>2. CASE ~ (w = v.w /\ h = v.h /\ p = v.p)
  <2> DEFINE u == resizeVideo(v, w, h, p)
             hs == HardScale(w, h)
  <2>1. u = [v EXCEPT !.w = w, !.h = h, !.p = p, !.hard = hs,
                      !.target = IF v.sharp = Crisp THEN <<w * hs, h * hs>> ELSE << >>]
    BY <1>2 DEF resizeVideo
  <2>2. hs \in {1, 2, 4}
    BY DEF HardScale
  <2> HIDE DEF u, hs
  <2>3. u = [w |-> w, h |-> h, p |-> p, sharp |-> v.sharp, hard |-> hs,
             target |-> IF v.sharp = Crisp THEN <<w * hs, h * hs>> ELSE << >>]
    BY <2>1 DEF Sound, IsVid
  <2> QED
    BY <2>2, <2>3 DEF Ready, IsVid, TargetOK, u
<1> QED
  BY <1>1, <1>2

LEMMA PlatResizeReady ==
  ASSUME NEW v, Sound(v), dev.plus \/ v.sharp = Soft, NEW w, NEW h, NEW p
  PROVE  Ready(PLAT_resizeVideo(v, w, h, p), w, h, p, v.sharp)
<1>1. CASE dev.plus
  BY <1>1, ResizeReady DEF PLAT_resizeVideo
<1>2. CASE ~ dev.plus
  <2> DEFINE u == PLAT_resizeVideo(v, w, h, p)
  <2>1. u = [v EXCEPT !.w = w, !.h = h, !.p = p]
    BY <1>2 DEF PLAT_resizeVideo
  <2> HIDE DEF u
  <2>2. u = [w |-> w, h |-> h, p |-> p, sharp |-> v.sharp, target |-> v.target, hard |-> v.hard]
    BY <2>1 DEF Sound, IsVid
  <2> QED
    BY <1>2, <2>2 DEF Ready, Sound, IsVid, TargetOK, Crisp, Soft, u
<1> QED
  BY <1>1, <1>2

\* New textures for another sharpness; without a pitch there would be none.
LEMMA SharpenReady ==
  ASSUME NEW v, Sound(v), NEW s, dev.plus, v.p # 0
  PROVE  Ready(Sharpen(v, s), v.w, v.h, v.p, s)
<1>1. CASE v.sharp = s
  BY <1>1 DEF Sharpen, Ready, Sound
<1>2. CASE v.sharp # s
  <2> DEFINE u == [v EXCEPT !.p = 0, !.sharp = s]
             x == Sharpen(v, s)
             w == v.w
             h == v.h
             p == v.p
             hs == HardScale(w, h)
  <2>1. x = resizeVideo(u, w, h, p)
    BY <1>2 DEF Sharpen
  <2>2. ASSUME NEW y, y = u
        PROVE  y = [w |-> v.w, h |-> v.h, p |-> 0, sharp |-> s, target |-> v.target, hard |-> v.hard]
    BY <2>2 DEF Sound, IsVid
  <2>u. u = [w |-> w, h |-> h, p |-> 0, sharp |-> s, target |-> v.target, hard |-> v.hard]
    BY <2>2
  <2>3. p # 0
    OBVIOUS
  <2>4. hs \in {1, 2, 4}
    BY DEF HardScale
  <2> HIDE DEF u, p, w, h
  <2>5. x = [u EXCEPT !.w = w, !.h = h, !.p = p, !.hard = hs,
                      !.target = IF u.sharp = Crisp THEN <<w * hs, h * hs>> ELSE << >>]
    BY <2>1, <2>u, <2>3 DEF resizeVideo
  <2> HIDE DEF x, hs
  <2>6. x = [w |-> w, h |-> h, p |-> p, sharp |-> s, hard |-> hs,
             target |-> IF s = Crisp THEN <<w * hs, h * hs>> ELSE << >>]
    <3>1. IsVid(u) /\ u.sharp = s
      BY <2>u DEF IsVid
    <3> QED
      BY <2>5, <3>1 DEF IsVid
  <2> QED
    BY <2>4, <2>6 DEF Ready, IsVid, TargetOK, u, p, w, h, x
<1> QED
  BY <1>1, <1>2

\* The pages q: b is drawn to and holds x; the other will hold y when it is next drawn to.
Later(q) == IF q.cleared THEN {} ELSE q.page[1 - q.back]
Holds(q, b, x, y) == IsPg(q) /\ q.back = b /\ q.page[b] = x /\ Later(q) = y

LEMMA ClearHolds ==
  ASSUME ~ dev.plus, NEW q, IsPg(q)
  PROVE  Holds(PLAT_clearAll(q), q.back, {}, {})
<1> DEFINE r == PLAT_clearAll(q)
           b == q.back
<1>1. r = [q EXCEPT !.page[q.back] = {}, !.cleared = TRUE]
  BY DEF PLAT_clearAll
<1> HIDE DEF r
<1>2. r = [page |-> [q.page EXCEPT ![b] = {}], back |-> b, shown |-> 1 - b, cleared |-> TRUE]
  BY <1>1 DEF IsPg
<1>3. [q.page EXCEPT ![b] = {}] = [i \in 0 .. 1 |-> IF i = b THEN {} ELSE q.page[i]]
  BY DEF IsPg
<1> QED
  BY <1>2, <1>3 DEF Holds, IsPg, Later, r

LEMMA PaintHolds ==
  ASSUME NEW b \in 0 .. 1, NEW q, NEW x, NEW y, Holds(q, b, x, y), NEW what
  PROVE  Holds(Paint(q, what), b, x \cup {what}, y)
<1> DEFINE r == Paint(q, what)
<1>1. r = [q EXCEPT !.page[q.back] = @ \cup {what}]
  BY DEF Paint
<1> HIDE DEF r
<1>2. r = [page |-> [q.page EXCEPT ![b] = x \cup {what}], back |-> b, shown |-> 1 - b, cleared |-> q.cleared]
  BY <1>1 DEF Holds, IsPg
<1>3. [q.page EXCEPT ![b] = x \cup {what}] = [i \in 0 .. 1 |-> IF i = b THEN x \cup {what} ELSE q.page[i]]
  BY DEF Holds, IsPg
<1> QED
  BY <1>2, <1>3 DEF Holds, IsPg, Later, r

LEMMA FlipHolds ==
  ASSUME NEW b \in 0 .. 1, NEW q, NEW x, NEW y, Holds(q, b, x, y), NEW r, r = PLAT_flip(q)
  PROVE  IsPg(r) /\ r.back = 1 - b /\ r.shown = b /\ r.page[b] = x /\ r.page[1 - b] = y
<1>1. r = [q EXCEPT !.shown = b, !.back = 1 - b, !.cleared = FALSE, !.page[1 - b] = y]
  BY DEF PLAT_flip, Holds, IsPg, Later
<1>2. r = [page |-> [q.page EXCEPT ![1 - b] = y], back |-> 1 - b, shown |-> b, cleared |-> FALSE]
  BY <1>1 DEF Holds, IsPg
<1>3. [q.page EXCEPT ![1 - b] = y] = [i \in 0 .. 1 |-> IF i = 1 - b THEN y ELSE q.page[i]]
  BY DEF Holds, IsPg
<1> QED
  BY <1>2, <1>3 DEF Holds, IsPg

\* The pages after a frame of geometry g is drawn to pages that hold, or will hold,
\* at most that geometry and an overlay that was up: the overlay is wiped when it
\* has gone, from both.
Holding(s, g, up) == s \subseteq {g, Overlay} /\ (~ up => Overlay \notin s)

LEMMA DrawnClean ==
  ASSUME ~ dev.plus, NEW b \in 0 .. 1, NEW q, NEW x, NEW y, NEW g, NEW up, NEW was, NEW due,
         Holds(q, b, x, y), Holding(x, g, was), Holding(y, g, was), was => due = 2, g # Overlay,
         NEW p, p = Paint(Wiped(q, up, due), g),
         NEW r, r = PLAT_flip(IF up THEN Paint(p, Overlay) ELSE p)
  PROVE  IsPg(r) /\ Clean(r, g, up)
<1> DEFINE w == Wiped(q, up, due)
           t == IF up THEN Paint(p, Overlay) ELSE p
<1>1. \E x1, y1 : Holds(w, b, x1, y1) /\ Holding(x1, g, up) /\ Holding(y1, g, up)
  <2>1. CASE ~ up /\ due > 0
    <3>1. Holds(w, b, {}, {})
      BY <2>1, ClearHolds DEF Wiped, Holds
    <3>2. Holding({}, g, up)
      BY DEF Holding
    <3> QED
      BY <3>1, <3>2
  <2>2. CASE ~ (~ up /\ due > 0)
    <3>1. Holds(w, b, x, y)
      BY <2>2 DEF Wiped
    <3>2. ~ up => ~ was
      BY <2>2
    <3>3. Holding(x, g, up) /\ Holding(y, g, up)
      BY <3>2 DEF Holding
    <3> QED
      BY <3>1, <3>3
  <2> QED
    BY <2>1, <2>2
<1>2. PICK x1, y1 : Holds(w, b, x1, y1) /\ Holding(x1, g, up) /\ Holding(y1, g, up)
  BY <1>1
<1>3. Holds(p, b, x1 \cup {g}, y1)
  BY <1>2, PaintHolds
<1> DEFINE z == IF up THEN (x1 \cup {g}) \cup {Overlay} ELSE x1 \cup {g}
<1>4. Holds(t, b, z, y1)
  BY <1>3, PaintHolds
<1>5. g \in z /\ Holding(z, g, up)
  BY <1>2 DEF Holding
<1> HIDE DEF t, z
<1>6. IsPg(r) /\ r.shown = b /\ r.page[b] = z /\ r.page[1 - b] = y1
  BY <1>4, FlipHolds DEF t
<1>7. \A i \in 0 .. 1 : r.page[i] = z \/ r.page[i] = y1
  BY <1>6
<1>8. Clean(r, g, up)
  BY <1>2, <1>5, <1>6, <1>7 DEF Clean, Holding
<1> QED
  BY <1>6, <1>8

\* The choice c, of geometry, scaler and surface, for the frame f and the effect e.
Choice(c, f, e) ==
  /\ c = [fx |-> c.fx, rd |-> c.rd, vid |-> c.vid]
  /\ IsRd(c.rd) /\ IsFx(c.fx) /\ Sound(c.vid)
  /\ c.fx.type = e.type /\ c.fx.next = e.next /\ c.fx.live = e.live /\ c.fx.texture = e.texture
  /\ c.rd.g = Layout(f, opt.scaling) /\ c.rd.blit.k \in 1 .. 6
  /\ IF dev.plus THEN c.vid.sharp = Wanted(opt)
     ELSE /\ c.vid.sharp = Soft /\ Size(c.vid) = Dst(c.rd.g)
          /\ c.rd.blit = PLAT_getScaler(c.fx.type, c.rd.g.scale)

\* The surface v that a choice starts from.
Start(v) == Sound(v) /\ v.sharp = IF dev.plus THEN Wanted(opt) ELSE Soft

LEMMA ScalerTyped == \A e, s : PLAT_getScaler(e, s).k \in 1 .. 6
  BY DEF PLAT_getScaler

LEMMA SelectChoice ==
  ASSUME NEW f, NEW v, Start(v), NEW e, IsFx(e), NEW c, c = selectScaler(f, v, e)
  PROVE  Choice(c, f, e)
<1> DEFINE g == Layout(f, opt.scaling)
           x == IF dev.plus THEN [e EXCEPT !.nscale = g.scale] ELSE e
           u == PLAT_resizeVideo(v, g.dst_w, g.dst_h, g.dst_p)
           k == GetScaler(x, g.scale)
<1>1. c = [fx |-> x, rd |-> [g |-> g, blit |-> k, aspect |-> opt.scaling], vid |-> u]
  BY DEF selectScaler
<1>2. IsFx(x) /\ x.type = e.type /\ x.next = e.next /\ x.live = e.live /\ x.texture = e.texture
  <2>1. ASSUME NEW y, NEW n, y = [e EXCEPT !.nscale = n]
        PROVE  IsFx(y) /\ y.type = e.type /\ y.next = e.next /\ y.live = e.live /\ y.texture = e.texture
    BY <2>1 DEF IsFx
  <2> QED
    BY <2>1
<1>3. IsGeo(g)
  BY LayoutFacts
<1>4. Ready(u, g.dst_w, g.dst_h, g.dst_p, v.sharp)
  BY PlatResizeReady DEF Start
<1>5. k.k \in 1 .. 6 /\ (~ dev.plus => k = PLAT_getScaler(x.type, g.scale))
  BY ScalerTyped DEF GetScaler
<1> HIDE DEF g, x, u, k
<1>6. c.fx = x /\ c.vid = u /\ c.rd = [g |-> g, blit |-> k, aspect |-> opt.scaling]
  BY <1>1
<1>7. IsRd(c.rd) /\ c.rd.g = g /\ c.rd.blit = k
  BY <1>3, <1>6 DEF IsRd
<1>8. Sound(u) /\ Size(u) = Dst(g) /\ u.sharp = v.sharp
  BY <1>4 DEF Ready, Sound, Size, Dst
<1> QED
  BY <1>1, <1>2, <1>5, <1>6, <1>7, <1>8 DEF Choice, Start, g

\* A frame of the size of the last is the same frame, since its pitch goes with it.
LEMMA SameFrame ==
  ASSUME RendererInv, NEW f \in core.frames, ~ Changed(f)
  PROVE  FrameOf(rd.g) = f
<1>1. f.w = rd.g.true_w /\ f.h = rd.g.true_h
  BY DEF Changed
<1>2. core \in Cores
  BY DEF RendererInv, Typed
<1>3. f \in [w : Nat \ {0}, h : Nat \ {0}, p : Nat \ {0}]
  BY <1>2, RendererAssumption
<1>4. FrameOf(rd.g) \in core.frames
  BY <1>1, <1>3 DEF RendererInv, Geometries, FrameOf, NoFrame
<1>5. FrameOf(rd.g).p = f.p
  BY <1>1, <1>2, <1>4, RendererAssumption DEF FrameOf
<1> QED
  BY <1>1, <1>3, <1>5 DEF FrameOf

LEMMA ChosenChoice ==
  ASSUME RendererInv, NEW f \in core.frames, NEW v, Start(v),
         ~ dev.plus /\ ~ Changed(f) => Size(v) = Dst(rd.g),
         NEW e, IsFx(e), e.type = fx.type
  PROVE  Choice(Chosen(f, v, e), f, e)
<1>1. CASE Changed(f)
  BY <1>1, SelectChoice DEF Chosen
<1>2. CASE ~ Changed(f)
  <2> DEFINE c == Chosen(f, v, e)
  <2>1. c = [fx |-> e, rd |-> rd, vid |-> v]
    BY <1>2 DEF Chosen
  <2>2. rd.g.dst_p # 0
    BY <1>2 DEF Changed
  <2>3. rd.g = Layout(f, opt.scaling)
    BY <1>2, <2>2, SameFrame DEF RendererInv, Geometries
  <2>4. IsRd(rd) /\ rd.blit.k \in 1 .. 6
    BY DEF RendererInv, Typed
  <2>5. ~ dev.plus => rd.blit = PLAT_getScaler(fx.type, rd.g.scale)
    BY <2>2 DEF RendererInv, Scalers
  <2> HIDE DEF c
  <2>6. c.fx = e /\ c.rd = rd /\ c.vid = v
    BY <2>1
  <2> QED
    BY <1>2, <2>1, <2>3, <2>4, <2>5, <2>6 DEF Choice, Start, c
<1> QED
  BY <1>1, <1>2

\* rg35xx: the effect asked for is taken and so is its scaler.
LEMMA TakenScaler ==
  ASSUME ~ dev.plus, NEW f, NEW e, NEW c, Choice(c, f, e), NEW t, t = Taken(c)
  PROVE  /\ IsRd(t.rd) /\ t.rd.g = c.rd.g /\ t.rd.blit = PLAT_getScaler(e.next, c.rd.g.scale)
         /\ t.vid = c.vid
         /\ IsFx(t.fx) /\ t.fx.type = e.next /\ t.fx.next = e.next
<1>1. CASE c.fx.type = c.fx.next
  BY <1>1 DEF Taken, Choice
<1>2. CASE c.fx.type # c.fx.next
  <2> DEFINE x == c.fx
             r == c.rd
             v == c.vid
             k == PLAT_getScaler(e.next, c.rd.g.scale)
             n == e.next
  <2>1. t = [c EXCEPT !.fx.type = n, !.rd.blit = k]
    BY <1>2 DEF Taken, Choice
  <2>2. c = [fx |-> x, rd |-> r, vid |-> v] /\ IsFx(x) /\ IsRd(r) /\ x.next = n
    BY DEF Choice
  <2> HIDE DEF x, r, v, k, n
  <2>3. t = [fx |-> [x EXCEPT !.type = n], rd |-> [r EXCEPT !.blit = k], vid |-> v]
    BY <2>1, <2>2
  <2>4. ASSUME NEW y, y = [x EXCEPT !.type = n] PROVE IsFx(y) /\ y.type = n /\ y.next = n
    BY <2>2, <2>4 DEF IsFx
  <2>5. ASSUME NEW y, y = [r EXCEPT !.blit = k] PROVE IsRd(y) /\ y.g = r.g /\ y.blit = k
    BY <2>2, <2>5 DEF IsRd
  <2>6. t.vid = v /\ t.fx = [x EXCEPT !.type = n] /\ t.rd = [r EXCEPT !.blit = k]
    BY <2>3
  <2> QED
    BY <2>4, <2>5, <2>6 DEF x, r, v, k, n
<1> QED
  BY <1>1, <1>2

\* rg35xxplus: the effect asked for is in force, and the picture loaded is its own.
LEMMA UpdateEffect ==
  ASSUME NEW e, IsFx(e), e.next \in 0 .. 2, NEW u, u = updateEffect(e)
  PROVE  /\ IsFx(u) /\ u.type = e.next /\ u.next = e.next
         /\ EffectOK(e) => EffectOK(u)
<1>1. CASE e.nscale = e.scale /\ e.next = e.type
  BY <1>1 DEF updateEffect
<1>2. CASE ~ (e.nscale = e.scale /\ e.next = e.type)
  <2> DEFINE now == [e EXCEPT !.type = e.next, !.scale = e.nscale]
  <2>1. ASSUME NEW y, y = now
        PROVE  /\ IsFx(y) /\ y.type = e.next /\ y.next = e.next
               /\ y.live = e.live /\ y.texture = e.texture
    BY <2>1 DEF IsFx
  <2>2. CASE e.next = None \/ (e.next = e.live /\ e.nscale = e.scale)
    <3>1. u = now
      BY <1>2, <2>2 DEF updateEffect
    <3> QED
      BY <2>1, <2>2, <3>1 DEF EffectOK, None
  <2>3. CASE ~ (e.next = None \/ (e.next = e.live /\ e.nscale = e.scale))
    <3> DEFINE m == EffectPicture(e.next, e.nscale)
               x == e.next
    <3>1. u = [now EXCEPT !.live = x, !.texture = <<x, m>>]
      BY <1>2, <2>3 DEF updateEffect
    <3>n. /\ IsFx(now) /\ now.type = x /\ now.next = x
      BY <2>1
    <3> HIDE DEF m, now, x
    <3>2. /\ IsFx(u) /\ u.type = now.type /\ u.next = now.next
          /\ u.live = x /\ u.texture = <<x, m>>
      BY <3>1, <3>n DEF IsFx
    <3> QED
      BY <3>n, <3>2 DEF EffectOK, None, x
  <2> QED
    BY <2>2, <2>3
<1> QED
  BY <1>1, <1>2

\* What a frame f drawn leaves behind, e being the effect asked for.
RefreshDraws(f, e) ==
  /\ IsRd(rd') /\ rd'.g = Layout(f, opt.scaling) /\ rd'.blit.k \in 1 .. 6
  /\ Sound(vid') /\ IsFx(fx') /\ fx'.type = e.next /\ fx'.next = e.next
  /\ drawn'.frame = f /\ drawn'.g = rd'.g /\ drawn'.surface = Size(vid') /\ drawn'.fn = rd'.blit
  /\ IF dev.plus
     THEN vid'.sharp = Wanted(opt) /\ Size(vid') = <<f.w, f.h, f.p>> /\ (EffectOK(e) => EffectOK(fx'))
     ELSE vid'.sharp = Soft /\ Size(vid') = Dst(rd'.g) /\ rd'.blit = PLAT_getScaler(e.next, rd'.g.scale)

LEMMA RefreshDrawn ==
  ASSUME NEW f, NEW e, e.next \in 0 .. 2, NEW c, Choice(c, f, e), NEW q, NEW up, Refresh(f, c, q, up)
  PROVE  RefreshDraws(f, e)
<1>1. CASE dev.plus
  <2> DEFINE d == [c EXCEPT !.vid = resizeVideo(@, f.w, f.h, c.rd.g.src_p)]
             x == c.fx
             r == c.rd
             u == resizeVideo(c.vid, f.w, f.h, c.rd.g.src_p)
  <2>1. /\ rd' = d.rd /\ vid' = d.vid /\ fx' = updateEffect(d.fx) /\ drawn' = GpuPicture(d, f)
    BY <1>1 DEF Refresh
  <2>2. d.fx = x /\ d.rd = r /\ d.vid = u
    BY DEF Choice
  <2> HIDE DEF d
  <2>3. r.g = Layout(f, opt.scaling) /\ IsRd(r) /\ r.blit.k \in 1 .. 6 /\ IsFx(x) /\ x.next = e.next
    BY DEF Choice
  <2>4. r.g.src_p = f.p
    BY <2>3, LayoutFacts
  <2>5. Ready(u, f.w, f.h, f.p, Wanted(opt))
    BY <1>1, <2>4, ResizeReady DEF Choice
  <2>6. Sound(u) /\ u.sharp = Wanted(opt) /\ Size(u) = <<f.w, f.h, f.p>>
    BY <2>5 DEF Ready, Sound, Size
  <2>7. EffectOK(e) => EffectOK(x)
    BY DEF Choice, EffectOK
  <2> HIDE DEF x, r, u
  <2>8. IsFx(fx') /\ fx'.type = e.next /\ fx'.next = e.next /\ (EffectOK(e) => EffectOK(fx'))
    BY <2>1, <2>2, <2>3, <2>7, UpdateEffect
  <2>9. drawn'.frame = f /\ drawn'.g = r.g /\ drawn'.surface = Size(u) /\ drawn'.fn = r.blit
    BY <2>1, <2>2 DEF GpuPicture, Size
  <2> QED
    BY <1>1, <2>1, <2>2, <2>3, <2>6, <2>8, <2>9 DEF RefreshDraws
<1>2. CASE ~ dev.plus
  <2> DEFINE t == Taken(c)
  <2>1. rd' = t.rd /\ vid' = t.vid /\ fx' = t.fx /\ drawn' = SoftPicture(t, f)
    BY <1>2 DEF Refresh
  <2> HIDE DEF t
  <2>2. /\ IsRd(t.rd) /\ t.rd.g = c.rd.g /\ t.rd.blit = PLAT_getScaler(e.next, c.rd.g.scale)
        /\ t.vid = c.vid
        /\ IsFx(t.fx) /\ t.fx.type = e.next /\ t.fx.next = e.next
    BY <1>2, TakenScaler DEF t
  <2>3. t.rd.blit.k \in 1 .. 6
    BY <2>2, ScalerTyped
  <2>4. drawn'.frame = f /\ drawn'.g = t.rd.g /\ drawn'.surface = Size(t.vid) /\ drawn'.fn = t.rd.blit
    BY <2>1 DEF SoftPicture, Size
  <2>5. c.rd.g = Layout(f, opt.scaling) /\ Sound(c.vid) /\ c.vid.sharp = Soft /\ Size(c.vid) = Dst(c.rd.g)
    BY <1>2 DEF Choice
  <2> QED
    BY <1>2, <2>1, <2>2, <2>3, <2>4, <2>5 DEF RefreshDraws
<1> QED
  BY <1>1, <1>2

LEMMA GeoNotOverlay == \A g : IsGeo(g) => g # Overlay
<1> SUFFICES ASSUME NEW g, IsGeo(g), g = Overlay PROVE FALSE
  OBVIOUS
<1>1. "true_w" \in DOMAIN g
  BY DEF IsGeo
<1>2. DOMAIN g = {"Overlay"}
  BY DEF Overlay
<1> QED
  BY <1>1, <1>2

\* The device and the core do not change, so neither does what selectScaler works out.
LEMMA SameLayout ==
  ASSUME dev' = dev, core' = core
  PROVE  \A f, s : (Layout(f, s))' = Layout(f, s)
  BY DEF Layout, Fit, NativeFit, ForcedCrop, Oversize, CoreWider, CoreTaller, Geometry, Ratio

\* The pages of the rg35xx after a frame, drawn to pages that were cleared or clean.
LEMMA PagesDrawn ==
  ASSUME RendererInv, ~ dev.plus, NEW f, NEW c, NEW q, NEW up, Refresh(f, c, q, up), IsGeo(rd'.g),
         q = PLAT_clearAll(pg) \/ (q = pg /\ Clean(pg, rd'.g, setting.up))
  PROVE  IsPg(pg') /\ Clean(pg', rd'.g, up)
<1> DEFINE g == rd'.g
           p == Paint(Wiped(q, up, setting.due), g)
<1>1. pg' = PLAT_flip(IF up THEN Paint(p, Overlay) ELSE p)
  BY DEF Refresh, Overlay
<1>2. IsPg(pg) /\ pg.back \in 0 .. 1 /\ (setting.up => setting.due = 2)
  BY DEF RendererInv, Typed, Pages, IsPg
<1>3. g # Overlay
  BY GeoNotOverlay
<1>4. \E x, y : Holds(q, pg.back, x, y) /\ Holding(x, g, setting.up) /\ Holding(y, g, setting.up)
  <2>1. CASE q = PLAT_clearAll(pg)
    <3>1. Holds(q, pg.back, {}, {})
      BY <1>2, <2>1, ClearHolds
    <3>2. Holding({}, g, setting.up)
      BY DEF Holding
    <3> QED
      BY <3>1, <3>2
  <2>2. CASE q = pg /\ Clean(pg, g, setting.up)
    <3>1. Holds(pg, pg.back, pg.page[pg.back], Later(pg))
      BY <1>2 DEF Holds
    <3>2. Holding(pg.page[pg.back], g, setting.up)
      BY <1>2, <2>2 DEF Clean, Holding
    <3>3. Holding(Later(pg), g, setting.up)
      <4>1. 1 - pg.back \in 0 .. 1
        BY <1>2
      <4>2. Holding(pg.page[1 - pg.back], g, setting.up)
        BY <2>2, <4>1 DEF Clean, Holding
      <4>3. Holding({}, g, setting.up)
        BY DEF Holding
      <4> QED
        BY <4>2, <4>3 DEF Later
    <3> QED
      BY <2>2, <3>1, <3>2, <3>3
  <2> QED
    BY <2>1, <2>2
<1>5. PICK x, y : Holds(q, pg.back, x, y) /\ Holding(x, g, setting.up) /\ Holding(y, g, setting.up)
  BY <1>4
<1> DEFINE b == pg.back
           was == setting.up
           due == setting.due
<1>6. b \in 0 .. 1 /\ (was => due = 2) /\ Holds(q, b, x, y) /\ Holding(x, g, was) /\ Holding(y, g, was)
  BY <1>2, <1>5
<1>7. p = Paint(Wiped(q, up, due), g)
  OBVIOUS
<1> HIDE DEF g, p, b, was, due
<1> QED
  BY <1>1, <1>3, <1>6, <1>7, DrawnClean DEF g

\* A frame drawn in the game, or on the way out of the menu, leaves the invariant.
LEMMA DrawnKeeps ==
  ASSUME RendererInv, NEW f \in core.frames, NEW e, RefreshDraws(f, e), e.next \in 0 .. 2, dev.plus => EffectOK(e),
         NEW c, NEW q, NEW up, Refresh(f, c, q, up), IF dev.plus THEN q = pg ELSE IsPg(pg') /\ Clean(pg', rd'.g, up),
         UNCHANGED <<dev, core, opt>>, at' = "game", menu' = menu \/ menu' = NoMenu
  PROVE  RendererInv'
<1> DEFINE g == rd'.g
<1>0. /\ dev \in Devices /\ core \in Cores /\ opt \in Opts /\ setting.due \in 0 .. 2
      /\ IsPg(pg) /\ dev' = dev /\ core' = core /\ opt' = opt
  BY DEF RendererInv, Typed
<1>f. f \in [w : Nat \ {0}, h : Nat \ {0}, p : Nat \ {0}]
  BY <1>0, RendererAssumption
<1>g. /\ IsRd(rd') /\ g = Layout(f, opt.scaling) /\ rd'.blit.k \in 1 .. 6
      /\ Sound(vid') /\ IsFx(fx') /\ fx'.type = e.next /\ fx'.next = e.next
      /\ drawn'.frame = f /\ drawn'.g = rd'.g /\ drawn'.surface = Size(vid')
  BY DEF RefreshDraws
<1>l. /\ IsGeo(g) /\ g.true_w = f.w /\ g.true_h = f.h /\ g.src_p = f.p /\ g.dst_p = g.dst_w
  BY <1>g, LayoutFacts
<1>o. FrameOf(g) = f
  BY <1>f, <1>l DEF FrameOf
<1>p. dev.plus => pg' = pg
  BY DEF Refresh
<1>s. setting' = [up |-> up, due |-> setting'.due] /\ setting'.due \in 0 .. 2 /\ (up => setting'.due = 2)
  BY <1>0 DEF Refresh
<1>w. Wanted(opt') = Wanted(opt)
  BY <1>0
<1>1. Typed'
  <2>1. menu' = [restore |-> menu'.restore, old |-> menu'.old]
        /\ menu'.restore = <<menu'.restore[1], menu'.restore[2], menu'.restore[3]>>
    BY DEF RendererInv, Typed, NoMenu
  <2>2. IsPg(pg')
    BY <1>0, <1>p
  <2> QED
    BY <1>0, <1>g, <1>s, <2>1, <2>2 DEF Typed, Sound
<1>2. Geometries'
  <2>1. (Layout(f, opt.scaling))' = Layout(f, opt.scaling)
    BY <1>0, SameLayout
  <2> QED
    BY <1>0, <1>g, <1>o, <2>1 DEF Geometries
<1>3. Surfaces'
  BY <1>0, <1>l DEF Surfaces, RefreshDraws, Size, Dst
<1>4. Scalers'
  BY <1>0, <1>g DEF Scalers, RefreshDraws
<1>5. Textures'
  BY <1>0, <1>f, <1>w DEF Textures, RefreshDraws, Sound, Size
<1>6. Effects'
  BY <1>0 DEF Effects, RefreshDraws
<1>7. Pages'
  BY <1>0, <1>f, <1>g, <1>l, <1>s DEF Pages
<1>8. SurfaceIsForPicture'
  BY <1>0, <1>g DEF SurfaceIsForPicture, Soft35, Gpu, RefreshDraws, Dst
<1> QED
  BY <1>1, <1>2, <1>3, <1>4, <1>5, <1>6, <1>7, <1>8 DEF RendererInv

-----------------------------------------------------------------------------
(* The steps.                                                              *)

\* A frame of the core: when its size is another, or an option asks for it, the
\* geometry is worked out again and both pages are cleared.
LEMMA FrameKeeps == RendererInv /\ video_refresh_callback_main => RendererInv' /\ \E f : RefreshDraws(f, fx)
<1> SUFFICES ASSUME RendererInv, video_refresh_callback_main
             PROVE  RendererInv' /\ \E f : RefreshDraws(f, fx)
  OBVIOUS
<1>1. PICK f \in core.frames, up \in BOOLEAN :
        Refresh(f, Chosen(f, vid, fx), IF Changed(f) THEN PLAT_clearAll(pg) ELSE pg, up)
  BY DEF video_refresh_callback_main
<1> DEFINE c == Chosen(f, vid, fx)
           q == IF Changed(f) THEN PLAT_clearAll(pg) ELSE pg
<1>2. at = "game" /\ UNCHANGED <<dev, core, opt, at, menu>>
  BY DEF video_refresh_callback_main
<1>3. IsFx(fx) /\ fx.next \in 0 .. 2 /\ (dev.plus => EffectOK(fx))
  BY DEF RendererInv, Typed, Effects
<1>4. Start(vid)
  BY DEF RendererInv, Typed, Textures, Start, Sound
<1>5. ~ Changed(f) => rd.g.dst_p # 0
  BY DEF Changed
<1>6. ~ dev.plus /\ ~ Changed(f) => Size(vid) = Dst(rd.g)
  BY <1>2, <1>5 DEF RendererInv, Surfaces
<1>7. Choice(c, f, fx)
  BY <1>3, <1>4, <1>6, ChosenChoice
<1> HIDE DEF c
<1>8. Refresh(f, c, q, up)
  BY <1>1 DEF c
<1>9. RefreshDraws(f, fx)
  BY <1>3, <1>7, <1>8, RefreshDrawn
<1>10. rd'.g = Layout(f, opt.scaling) /\ IsGeo(rd'.g)
  BY <1>9 DEF RefreshDraws, IsRd
<1>11. CASE dev.plus
  <2>1. q = pg
    BY <1>11 DEF PLAT_clearAll
  <2> HIDE DEF q
  <2> QED
    BY <1>2, <1>3, <1>8, <1>9, <1>11, <2>1, DrawnKeeps
<1>12. CASE ~ dev.plus
  <2>1. q = PLAT_clearAll(pg) \/ (q = pg /\ Clean(pg, rd'.g, setting.up))
    <3>1. CASE Changed(f)
      BY <3>1
    <3>2. CASE ~ Changed(f)
      <4>1. rd'.g = rd.g
        BY <1>5, <1>10, <3>2, SameFrame DEF RendererInv, Geometries
      <4>2. drawn.g = rd.g /\ Clean(pg, drawn.g, setting.up)
        BY <1>2, <1>5, <1>12, <3>2 DEF RendererInv, Pages
      <4> QED
        BY <3>2, <4>1, <4>2
    <3> QED
      BY <3>1, <3>2
  <2> HIDE DEF q
  <2>2. IsPg(pg') /\ Clean(pg', rd'.g, up)
    BY <1>8, <1>10, <1>12, <2>1, PagesDrawn
  <2> QED
    BY <1>2, <1>3, <1>8, <1>9, <1>12, <2>2, DrawnKeeps
<1> QED
  BY <1>9, <1>11, <1>12

\* Out of the menu: the size to go back to is the one the geometry asks for, both
\* pages are cleared, and the effect is the one the options show.
LEMMA CloseMenuKeeps ==
  RendererInv /\ CloseMenu =>
    RendererInv' /\ \E f, e : RefreshDraws(f, e) /\ e.next = opt.effect /\ (dev.plus => EffectOK(e))
<1> SUFFICES ASSUME RendererInv, CloseMenu
             PROVE  RendererInv' /\ \E f, e : RefreshDraws(f, e) /\ e.next = opt.effect /\ (dev.plus => EffectOK(e))
  OBVIOUS
<1> DEFINE f == LastFrame
           v == Resized(vid, menu.restore, menu.restore)
           e == PLAT_setEffect(fx, opt.effect)
           c == Chosen(f, v, e)
           q == PLAT_clearAll(pg)
           up == setting.up
<1>1. Refresh(f, c, q, up) /\ at = "menu" /\ at' = "game" /\ menu' = NoMenu /\ UNCHANGED <<dev, core, opt>>
  BY DEF CloseMenu
<1>2. f = FrameOf(rd.g) /\ f \in core.frames
  BY <1>1 DEF RendererInv, Geometries, LastFrame, FrameOf
<1>3. IsFx(e) /\ e.next \in 0 .. 2 /\ e.type = fx.type /\ (dev.plus => EffectOK(e)) /\ e.next = opt.effect
  <2>1. ASSUME NEW y, y = [fx EXCEPT !.next = opt.effect]
        PROVE  /\ IsFx(y) /\ y.next = opt.effect /\ y.type = fx.type
               /\ y.live = fx.live /\ y.texture = fx.texture
    BY <2>1 DEF RendererInv, Typed, IsFx
  <2>2. IsFx(e) /\ e.next = opt.effect /\ e.type = fx.type /\ e.live = fx.live /\ e.texture = fx.texture
    BY <2>1 DEF PLAT_setEffect
  <2> HIDE DEF e
  <2>3. dev.plus => EffectOK(e)
    BY <2>2 DEF RendererInv, Effects, EffectOK
  <2>4. opt.effect \in 0 .. 2
    BY DEF RendererInv, Typed, Opts
  <2> QED
    BY <2>2, <2>3, <2>4
<1>4. Start(vid)
  BY DEF RendererInv, Typed, Textures, Start, Sound
<1>5. Start(v) /\ (~ dev.plus /\ ~ Changed(f) => Size(v) = Dst(rd.g))
  <2> DEFINE r == menu.restore
  <2>1. CASE <<r[1], r[2]>> # <<dev.w, dev.h>>
    <3>1. Ready(v, r[1], r[2], r[3], vid.sharp)
      BY <1>4, <2>1, PlatResizeReady DEF Resized, Start
    <3>2. Start(v) /\ Size(v) = <<r[1], r[2], r[3]>>
      BY <1>4, <3>1 DEF Start, Ready, Sound, Size
    <3>3. (~ dev.plus /\ ~ Changed(f)) => r = Dst(rd.g)
      BY <1>1 DEF RendererInv, Surfaces, Changed
    <3> QED
      BY <3>2, <3>3 DEF RendererInv, Typed
  <2>2. CASE <<r[1], r[2]>> = <<dev.w, dev.h>>
    <3>1. v = vid
      BY <2>2 DEF Resized
    <3>2. (~ dev.plus /\ ~ Changed(f)) =>
             r = Dst(rd.g) /\ r[3] = r[1] /\ Size(vid) = <<dev.w, dev.h, dev.w>>
      BY <1>1 DEF RendererInv, Surfaces, Changed, Device
    <3>3. r = <<r[1], r[2], r[3]>> /\ r[1] = dev.w /\ r[2] = dev.h
      BY <2>2 DEF RendererInv, Typed
    <3> HIDE DEF r
    <3> QED
      BY <1>4, <3>1, <3>2, <3>3
  <2> QED
    BY <2>1, <2>2
<1> HIDE DEF f, v, e
<1>6. Choice(c, f, e)
  BY <1>2, <1>3, <1>5, ChosenChoice
<1> HIDE DEF c
<1>7. RefreshDraws(f, e)
  BY <1>1, <1>3, <1>6, RefreshDrawn
<1>8. IF dev.plus THEN q = pg ELSE IsPg(pg') /\ Clean(pg', rd'.g, up)
  <2>1. IsGeo(rd'.g)
    BY <1>7 DEF RefreshDraws, IsRd
  <2> QED
    BY <1>1, <2>1, PagesDrawn DEF PLAT_clearAll
<1> HIDE DEF q
<1> QED
  BY <1>1, <1>2, <1>3, <1>7, <1>8, DrawnKeeps

\* rg35xx: an effect unloaded is the one asked for.
LEMMA UnloadTyped ==
  ASSUME NEW e, IsFx(e), e.type \in -1 .. 2, e.next \in 0 .. 2, NEW u, u = Unload(e)
  PROVE  /\ IsFx(u) /\ u.type \in -1 .. 2 /\ u.next \in 0 .. 2
         /\ dev.plus => u = e
<1>1. CASE dev.plus
  BY <1>1 DEF Unload
<1>2. CASE ~ dev.plus
  <2> DEFINE n == IF e.type >= None THEN e.type ELSE e.next
  <2>1. u = [e EXCEPT !.next = n, !.type = -1]
    BY <1>2 DEF Unload
  <2>2. n \in 0 .. 2
    BY DEF None
  <2> HIDE DEF n
  <2>3. IsFx(u) /\ u.next = n /\ u.type = -1
    BY <2>1 DEF IsFx
  <2> QED
    BY <1>2, <2>2, <2>3
<1> QED
  BY <1>1, <1>2

LEMMA SetEffect ==
  ASSUME NEW e, IsFx(e), NEW v, NEW u, u = PLAT_setEffect(e, v)
  PROVE  /\ IsFx(u) /\ u.next = v /\ u.type = e.type
         /\ EffectOK(e) => EffectOK(u)
<1>1. u = [e EXCEPT !.next = v]
  BY DEF PLAT_setEffect
<1>2. IsFx(u) /\ u.next = v /\ u.type = e.type /\ u.live = e.live /\ u.texture = e.texture
  BY <1>1 DEF IsFx
<1> QED
  BY <1>2 DEF EffectOK

\* A surface sharpened: the textures for it on the rg35xxplus, nothing on the rg35xx.
LEMMA SharpenSound ==
  ASSUME NEW v, Sound(v), IF dev.plus THEN v.p # 0 ELSE v.sharp = Soft, NEW s, NEW u, u = Sharpen(v, s)
  PROVE  /\ Sound(u) /\ Size(u) = Size(v)
         /\ IF dev.plus THEN u.sharp = s /\ u.p # 0 ELSE u = v
<1>1. CASE dev.plus
  <2>1. Ready(u, v.w, v.h, v.p, s)
    BY <1>1, SharpenReady
  <2> QED
    BY <1>1, <2>1 DEF Ready, Sound, Size
<1>2. CASE ~ dev.plus
  BY <1>2 DEF Sharpen
<1> QED
  BY <1>1, <1>2

\* An option changed, in the game or in the menu: the geometry is to be worked out
\* again, the textures are those of the sharpness it asks for.
LEMMA SyncKeeps ==
  ASSUME RendererInv, NEW key \in {"scaling", "effect", "sharpness"}, NEW v \in 0 .. 2,
         Config_syncFrontend(key, v), UNCHANGED <<dev, core, pg, setting, at, menu, drawn>>
  PROVE  RendererInv'
<1>0. /\ opt' = [opt EXCEPT ![key] = v] /\ opt \in Opts /\ rd' = [rd EXCEPT !.g.dst_p = 0] /\ IsRd(rd)
      /\ IsFx(fx) /\ fx.type \in -1 .. 2 /\ fx.next \in 0 .. 2
      /\ dev' = dev /\ core' = core /\ pg' = pg /\ setting' = setting /\ at' = at /\ menu' = menu /\ drawn' = drawn
  BY DEF Config_syncFrontend, RendererInv, Typed
<1>o. opt' \in Opts
  BY <1>0 DEF Opts
<1>r. IsRd(rd') /\ rd'.g.dst_p = 0 /\ rd'.blit = rd.blit /\ FrameOf(rd'.g) = FrameOf(rd.g)
  <2> DEFINE g == rd.g
             h == [g EXCEPT !.dst_p = 0]
  <2>1. rd' = [rd EXCEPT !.g = h]
    BY <1>0
  <2>2. ASSUME NEW y, y = h PROVE IsGeo(y) /\ y.dst_p = 0 /\ FrameOf(y) = FrameOf(g)
    <3>1. IsGeo(g)
      BY <1>0 DEF IsRd
    <3> HIDE DEF g
    <3> QED
      BY <2>2, <3>1 DEF IsGeo, FrameOf
  <2>3. IsGeo(h) /\ h.dst_p = 0 /\ FrameOf(h) = FrameOf(g)
    BY <2>2
  <2> HIDE DEF h, g
  <2>4. rd'.g = h /\ rd'.blit = rd.blit /\ IsRd(rd')
    BY <1>0, <2>1, <2>3 DEF IsRd
  <2> QED
    BY <2>3, <2>4 DEF g
<1>v. Sound(vid) /\ (IF dev.plus THEN vid.p # 0 ELSE vid.sharp = Soft)
  BY DEF RendererInv, Typed, Textures, Sound
<1>w. Sound(vid') /\ Size(vid') = Size(vid) /\ (IF dev.plus THEN vid'.sharp = Wanted(opt') /\ vid'.p # 0 ELSE vid' = vid)
  <2>1. CASE key = "effect"
    <3>1. vid' = vid
      BY <2>1 DEF Config_syncFrontend
    <3>2. opt'.scaling = opt.scaling /\ opt'.sharpness = opt.sharpness
      BY <1>0, <2>1 DEF Opts
    <3>3. dev.plus => vid.sharp = Wanted(opt)
      BY DEF RendererInv, Textures
    <3> QED
      BY <1>v, <3>1, <3>2, <3>3 DEF Wanted
  <2>2. CASE key # "effect"
    <3>1. vid' = Sharpen(vid, Wanted(opt'))
      BY <2>2 DEF Config_syncFrontend
    <3> QED
      BY <1>v, <3>1, SharpenSound
  <2> QED
    BY <2>1, <2>2
<1>e. IsFx(fx') /\ fx'.type \in -1 .. 2 /\ fx'.next \in 0 .. 2 /\ (dev.plus => EffectOK(fx'))
  <2>1. CASE key = "effect"
    <3>1. fx' = PLAT_setEffect(fx, v)
      BY <2>1 DEF Config_syncFrontend
    <3> QED
      BY <1>0, <3>1, SetEffect DEF RendererInv, Effects
  <2>2. CASE key # "effect"
    <3>1. fx' = Unload(fx)
      BY <2>2 DEF Config_syncFrontend
    <3> QED
      BY <1>0, <3>1, UnloadTyped DEF RendererInv, Effects
  <2> QED
    BY <2>1, <2>2
<1>1. Typed'
  BY <1>0, <1>o, <1>r, <1>w, <1>e DEF RendererInv, Typed, Sound
<1>2. Geometries'
  BY <1>0, <1>r DEF RendererInv, Geometries
<1>3. Surfaces'
  BY <1>0, <1>r, <1>w DEF RendererInv, Surfaces, Device
<1>4. Scalers'
  BY <1>r DEF Scalers
<1>5. Textures'
  BY <1>0, <1>v, <1>w DEF Textures, Sound
<1>6. Effects'
  BY <1>0, <1>e DEF Effects
<1>7. Pages'
  BY <1>0, <1>r DEF RendererInv, Pages
<1>8. SurfaceIsForPicture'
  BY <1>0 DEF RendererInv, SurfaceIsForPicture, Soft35, Gpu
<1> QED
  BY <1>1, <1>2, <1>3, <1>4, <1>5, <1>6, <1>7, <1>8 DEF RendererInv

\* The options read before the first frame.
LEMMA ReadOptionsKeeps == RendererInv /\ Config_readOptions => RendererInv'
<1> SUFFICES ASSUME RendererInv, Config_readOptions PROVE RendererInv'
  OBVIOUS
<1>0. /\ at = "load" /\ at' = "game" /\ IsFx(fx) /\ fx.type \in -1 .. 2 /\ fx.next \in 0 .. 2
      /\ dev' = dev /\ core' = core /\ rd' = rd /\ pg' = pg /\ setting' = setting /\ menu' = menu /\ drawn' = drawn
  BY DEF Config_readOptions, RendererInv, Typed
<1>1. PICK s \in 0 .. 2, e \in 0 .. 2, q \in 0 .. 2 :
        LET first == [opt EXCEPT !.scaling = s]
        IN  /\ opt' = [scaling |-> s, effect |-> e, sharpness |-> q]
            /\ vid' = Sharpen(Sharpen(vid, Wanted(first)), Wanted(opt'))
            /\ fx' = Unload(PLAT_setEffect(Unload(fx), e))
  BY DEF Config_readOptions
<1>p. rd.g.dst_p = 0
  BY <1>0 DEF RendererInv, Geometries
<1>v. Sound(vid) /\ (IF dev.plus THEN vid.p # 0 ELSE vid.sharp = Soft)
  BY DEF RendererInv, Typed, Textures, Sound
<1>w. Sound(vid') /\ Size(vid') = Size(vid) /\ (IF dev.plus THEN vid'.sharp = Wanted(opt') /\ vid'.p # 0 ELSE vid' = vid)
  <2> DEFINE x == Wanted([opt EXCEPT !.scaling = s])
             u == Sharpen(vid, x)
  <2>1. vid' = Sharpen(u, Wanted(opt'))
    BY <1>1
  <2> HIDE DEF x
  <2>2. Sound(u) /\ Size(u) = Size(vid) /\ (IF dev.plus THEN u.sharp = x /\ u.p # 0 ELSE u = vid)
    BY <1>v, SharpenSound
  <2> HIDE DEF u
  <2> QED
    BY <1>v, <2>1, <2>2, SharpenSound
<1>e. IsFx(fx') /\ fx'.type \in -1 .. 2 /\ fx'.next \in 0 .. 2 /\ (dev.plus => EffectOK(fx'))
  <2> DEFINE a == Unload(fx)
             b == PLAT_setEffect(a, e)
  <2>1. fx' = Unload(b)
    BY <1>1
  <2>2. IsFx(a) /\ a.type \in -1 .. 2 /\ a.next \in 0 .. 2 /\ (dev.plus => EffectOK(a))
    BY <1>0, UnloadTyped DEF RendererInv, Effects
  <2> HIDE DEF a
  <2>3. IsFx(b) /\ b.type \in -1 .. 2 /\ b.next \in 0 .. 2 /\ (dev.plus => EffectOK(b))
    BY <2>2, SetEffect
  <2> HIDE DEF b
  <2> QED
    BY <2>1, <2>3, UnloadTyped
<1>2. Typed'
  BY <1>0, <1>1, <1>w, <1>e DEF RendererInv, Typed, Sound, Opts
<1>3. Geometries'
  BY <1>0, <1>p DEF RendererInv, Geometries
<1>4. Surfaces' /\ Scalers'
  BY <1>0, <1>p, <1>w DEF RendererInv, Surfaces, Scalers
<1>5. Textures'
  BY <1>0, <1>v, <1>w DEF Textures, Sound
<1>6. Effects'
  BY <1>0, <1>e DEF Effects
<1>7. Pages'
  BY <1>0, <1>p DEF RendererInv, Pages, NoPicture, NoFrame
<1>8. SurfaceIsForPicture'
  BY <1>0 DEF RendererInv, SurfaceIsForPicture, Soft35, Gpu
<1> QED
  BY <1>2, <1>3, <1>4, <1>5, <1>6, <1>7, <1>8 DEF RendererInv

\* Into the menu: the surface takes the device's size, and the size to go back to is kept.
LEMMA OpenMenuKeeps == RendererInv /\ OpenMenu => RendererInv'
<1> SUFFICES ASSUME RendererInv, OpenMenu PROVE RendererInv'
  OBVIOUS
<1> DEFINE z == Screen(vid)
<1>0. /\ at = "game" /\ at' = "menu" /\ rd.g.true_w > 0
      /\ menu' = [restore |-> z, old |-> opt.scaling] /\ vid' = Resized(vid, Device, z)
      /\ fx' = PLAT_setEffect(fx, None) /\ drawn' = NoPicture
      /\ dev' = dev /\ core' = core /\ opt' = opt /\ rd' = rd /\ pg' = pg /\ setting' = setting
  BY DEF OpenMenu
<1>v. Start(vid) /\ (dev.plus => vid.p # 0) /\ dev \in Devices
  BY DEF RendererInv, Typed, Textures, Start, Sound
<1>z. z = IF dev.plus THEN <<dev.w, dev.h, dev.w>> ELSE Size(vid)
  BY DEF Screen, Size
<1>1. IF dev.plus THEN vid' = vid ELSE Size(vid') = Device /\ Start(vid')
  <2>1. CASE dev.plus
    BY <1>0, <1>z, <2>1 DEF Resized
  <2>2. CASE ~ dev.plus /\ <<z[1], z[2]>> # <<dev.w, dev.h>>
    <3>1. Ready(vid', dev.w, dev.h, dev.w, vid.sharp)
      BY <1>0, <1>v, <2>2, PlatResizeReady DEF Resized, Start, Device
    <3> QED
      BY <1>v, <2>2, <3>1 DEF Ready, Start, Sound, Size, Device
  <2>3. CASE ~ dev.plus /\ <<z[1], z[2]>> = <<dev.w, dev.h>>
    <3>1. vid' = vid /\ vid.p = vid.w /\ z[1] = vid.w /\ z[2] = vid.h
      BY <1>0, <1>z, <2>3 DEF Resized, RendererInv, Surfaces, Size
    <3> QED
      BY <1>v, <2>3, <3>1 DEF Size, Device
  <2> QED
    BY <2>1, <2>2, <2>3
<1>2. Start(vid') /\ (dev.plus => vid'.p # 0)
  BY <1>1, <1>v
<1>3. IsFx(fx') /\ fx'.next = None /\ fx'.type = fx.type /\ (EffectOK(fx) => EffectOK(fx'))
  BY <1>0, SetEffect DEF RendererInv, Typed
<1>4. z = <<z[1], z[2], z[3]>> /\ (~ dev.plus => z[3] = z[1] /\ z = Size(vid))
  BY <1>z DEF Size, RendererInv, Surfaces
<1> HIDE DEF z
<1>5. Typed'
  BY <1>0, <1>2, <1>3, <1>4 DEF RendererInv, Typed, Start, Sound, None
<1>6. Geometries'
  <2>1. FrameOf(rd.g) \in core.frames
    BY <1>0 DEF RendererInv, Geometries, FrameOf, NoFrame
  <2>2. (Layout(FrameOf(rd.g), opt.scaling))' = Layout(FrameOf(rd.g), opt.scaling)
    BY <1>0, SameLayout
  <2> QED
    BY <1>0, <2>1, <2>2 DEF RendererInv, Geometries
<1>7. Surfaces'
  BY <1>0, <1>1, <1>4 DEF RendererInv, Surfaces, Size, Device
<1>8. Scalers' /\ Effects'
  BY <1>0, <1>3 DEF RendererInv, Scalers, Effects
<1>9. Textures'
  BY <1>0, <1>2 DEF Textures, Start, Sound, Wanted
<1>10. Pages'
  BY <1>0 DEF RendererInv, Pages
<1>11. SurfaceIsForPicture'
  BY <1>0 DEF SurfaceIsForPicture, Soft35, Gpu, NoPicture, NoFrame
<1> QED
  BY <1>5, <1>6, <1>7, <1>8, <1>9, <1>10, <1>11 DEF RendererInv

\* The menu drawn: pages that the game will clear, textures of the device's size.
LEMMA MenuDrawKeeps == RendererInv /\ MenuDraw => RendererInv'
<1> SUFFICES ASSUME RendererInv, MenuDraw PROVE RendererInv'
  OBVIOUS
<1>0. /\ at \in {"menu", "options"} /\ dev' = dev /\ core' = core /\ opt' = opt /\ rd' = rd /\ fx' = fx
      /\ setting' = setting /\ at' = at /\ menu' = menu /\ drawn' = drawn
      /\ vid' = IF dev.plus THEN resizeVideo(vid, dev.w, dev.h, 640) ELSE vid
      /\ pg' = IF dev.plus THEN pg ELSE PLAT_flip(Paint(pg, [Menu |-> TRUE]))
  BY DEF MenuDraw
<1>v. Sound(vid)
  BY DEF RendererInv, Typed, Textures, Sound
<1>1. Sound(vid') /\ vid'.sharp = vid.sharp /\ (IF dev.plus THEN vid'.p # 0 ELSE vid' = vid)
  <2>1. CASE dev.plus
    <3>1. Ready(vid', dev.w, dev.h, 640, vid.sharp)
      BY <1>0, <1>v, <2>1, ResizeReady
    <3> QED
      BY <2>1, <3>1 DEF Ready, Sound
  <2>2. CASE ~ dev.plus
    BY <1>0, <1>v, <2>2
  <2> QED
    BY <2>1, <2>2
<1>2. IsPg(pg')
  <2>1. IsPg(pg) /\ pg.back \in 0 .. 1
    BY DEF RendererInv, Typed, IsPg
  <2> DEFINE m == [Menu |-> TRUE]
  <2>2. Holds(pg, pg.back, pg.page[pg.back], Later(pg))
    BY <2>1 DEF Holds
  <2> HIDE DEF m
  <2>3. Holds(Paint(pg, m), pg.back, pg.page[pg.back] \cup {m}, Later(pg))
    BY <2>1, <2>2, PaintHolds
  <2>4. IsPg(PLAT_flip(Paint(pg, m)))
    BY <2>1, <2>3, FlipHolds
  <2> QED
    BY <1>0, <2>1, <2>4 DEF m
<1>3. Typed'
  BY <1>0, <1>1, <1>2 DEF RendererInv, Typed, Sound
<1>4. Geometries'
  <2>1. (Layout(FrameOf(rd.g), opt.scaling))' = Layout(FrameOf(rd.g), opt.scaling)
    BY <1>0, SameLayout
  <2> QED
    BY <1>0, <2>1 DEF RendererInv, Geometries
<1>5. Surfaces'
  BY <1>0, <1>1 DEF RendererInv, Surfaces, Device
<1>6. Scalers' /\ Effects'
  BY <1>0 DEF RendererInv, Scalers, Effects
<1>7. Textures'
  BY <1>0, <1>1 DEF RendererInv, Textures, Sound, Wanted
<1>8. Pages'
  BY <1>0 DEF RendererInv, Pages
<1>9. SurfaceIsForPicture'
  BY <1>0 DEF RendererInv, SurfaceIsForPicture, Soft35, Gpu
<1> QED
  BY <1>3, <1>4, <1>5, <1>6, <1>7, <1>8, <1>9 DEF RendererInv

\* Into the options: only the scaling to compare with is noted.
LEMMA EnterOptionsKeeps == RendererInv /\ EnterOptions => RendererInv'
<1> SUFFICES ASSUME RendererInv, EnterOptions PROVE RendererInv'
  OBVIOUS
<1>0. /\ at = "menu" /\ at' = "options" /\ menu' = [menu EXCEPT !.old = opt.scaling]
      /\ dev' = dev /\ core' = core /\ opt' = opt /\ rd' = rd /\ vid' = vid /\ fx' = fx
      /\ pg' = pg /\ setting' = setting /\ drawn' = drawn
  BY DEF EnterOptions
<1>1. menu' = [restore |-> menu'.restore, old |-> menu'.old] /\ menu'.restore = menu.restore
  BY <1>0 DEF RendererInv, Typed
<1>2. Typed'
  BY <1>0, <1>1 DEF RendererInv, Typed
<1>3. Geometries'
  <2>1. (Layout(FrameOf(rd.g), opt.scaling))' = Layout(FrameOf(rd.g), opt.scaling)
    BY <1>0, SameLayout
  <2> QED
    BY <1>0, <2>1 DEF RendererInv, Geometries
<1>4. Surfaces'
  BY <1>0, <1>1 DEF RendererInv, Surfaces, Device
<1>5. Scalers' /\ Effects' /\ Textures'
  BY <1>0 DEF RendererInv, Scalers, Effects, Textures, Wanted
<1>6. Pages'
  BY <1>0 DEF RendererInv, Pages
<1>7. SurfaceIsForPicture'
  BY <1>0 DEF RendererInv, SurfaceIsForPicture, Soft35, Gpu
<1> QED
  BY <1>2, <1>3, <1>4, <1>5, <1>6, <1>7 DEF RendererInv

\* Out of the options: another scaling is worked out for the last frame, and the size
\* to go back to is taken from it before the surface is the device's again.
LEMMA LeaveOptionsKeeps == RendererInv /\ LeaveOptions => RendererInv'
<1> SUFFICES ASSUME RendererInv, LeaveOptions PROVE RendererInv'
  OBVIOUS
<1>0. /\ at = "options" /\ at' = "menu"
      /\ dev' = dev /\ core' = core /\ opt' = opt /\ pg' = pg /\ setting' = setting /\ drawn' = drawn
  BY DEF LeaveOptions
<1>1. CASE opt.scaling = menu.old
  <2>0. rd' = rd /\ fx' = fx /\ menu' = menu /\ vid' = vid
    BY <1>1 DEF LeaveOptions
  <2>1. Typed'
    BY <1>0, <2>0 DEF RendererInv, Typed
  <2>2. Geometries'
    <3>1. (Layout(FrameOf(rd.g), opt.scaling))' = Layout(FrameOf(rd.g), opt.scaling)
      BY <1>0, <2>0, SameLayout
    <3> QED
      BY <1>0, <2>0, <3>1 DEF RendererInv, Geometries
  <2>3. Surfaces'
    BY <1>0, <2>0 DEF RendererInv, Surfaces, Device
  <2>4. Scalers' /\ Effects' /\ Textures'
    BY <1>0, <2>0 DEF RendererInv, Scalers, Effects, Textures, Wanted
  <2>5. Pages'
    BY <1>0, <2>0 DEF RendererInv, Pages
  <2>6. SurfaceIsForPicture'
    BY <1>0 DEF RendererInv, SurfaceIsForPicture, Soft35, Gpu
  <2> QED
    BY <2>1, <2>2, <2>3, <2>4, <2>5, <2>6 DEF RendererInv
<1>2. CASE opt.scaling # menu.old
  <2> DEFINE f == LastFrame
             c == selectScaler(f, vid, fx)
             g == c.rd.g
             z == Screen(c.vid)
  <2>0. /\ rd' = c.rd /\ fx' = c.fx /\ menu' = [menu EXCEPT !.restore = z]
        /\ vid' = PLAT_resizeVideo(c.vid, dev.w, dev.h, dev.w)
    BY <1>2 DEF LeaveOptions
  <2>1. f = FrameOf(rd.g) /\ f \in core.frames
    BY <1>0 DEF RendererInv, Geometries, LastFrame, FrameOf
  <2>2. Start(vid) /\ IsFx(fx) /\ dev \in Devices
    BY DEF RendererInv, Typed, Textures, Start, Sound
  <2> HIDE DEF f
  <2>3. Choice(c, f, fx)
    BY <2>2, SelectChoice
  <2> HIDE DEF c
  <2>4. g = Layout(f, opt.scaling) /\ Start(c.vid)
    BY <2>3 DEF Choice, Start
  <2>5. g.true_w = f.w /\ g.true_h = f.h /\ g.src_p = f.p /\ g.dst_p = g.dst_w
    BY <2>4, LayoutFacts
  <2>6. FrameOf(g) = f
    BY <2>1, <2>5 DEF FrameOf
  <2>7. z = <<z[1], z[2], z[3]>> /\ (~ dev.plus => z = Dst(g) /\ z[3] = z[1])
    BY <2>3, <2>5 DEF Screen, Choice, Size, Dst
  <2>8. Ready(vid', dev.w, dev.h, dev.w, c.vid.sharp)
    BY <2>0, <2>4, PlatResizeReady DEF Start
  <2>9. Start(vid') /\ Size(vid') = Device /\ vid'.p = dev.w /\ vid'.w = dev.w
    BY <2>4, <2>8 DEF Start, Ready, Sound, Size, Device
  <2>10. dev.w # 0
    BY <2>2, RendererAssumption
  <2> HIDE DEF z
  <2>11. menu' = [restore |-> z, old |-> menu.old]
    BY <2>0 DEF RendererInv, Typed
  <2>12. Typed'
    BY <1>0, <2>0, <2>3, <2>7, <2>9, <2>11 DEF RendererInv, Typed, Choice, Start, Sound
  <2>13. Geometries'
    <3>1. PICK x \in core.frames : x = f
      BY <2>1
    <3>2. (Layout(x, opt.scaling))' = Layout(x, opt.scaling)
      BY <1>0, SameLayout
    <3>3. FrameOf(rd'.g) = x /\ rd'.g = Layout(x, opt.scaling)
      BY <2>0, <2>4, <2>6, <3>1
    <3> QED
      BY <1>0, <3>2, <3>3 DEF Geometries
  <2>14. Surfaces'
    BY <1>0, <2>0, <2>7, <2>9, <2>11 DEF Surfaces, Device
  <2>15. Scalers'
    BY <1>0, <2>0, <2>3 DEF Scalers, Choice
  <2>16. Textures'
    BY <1>0, <2>9, <2>10 DEF Textures, Start, Sound, Wanted
  <2>17. Effects'
    BY <1>0, <2>0, <2>3 DEF RendererInv, Effects, EffectOK, Choice
  <2>18. Pages'
    BY <1>0 DEF RendererInv, Pages
  <2>19. SurfaceIsForPicture'
    BY <1>0 DEF RendererInv, SurfaceIsForPicture, Soft35, Gpu
  <2> QED
    BY <2>12, <2>13, <2>14, <2>15, <2>16, <2>17, <2>18, <2>19 DEF RendererInv
<1> QED
  BY <1>1, <1>2

-----------------------------------------------------------------------------
(* The theorems.                                                           *)

\* Nothing has been drawn and no option read.
LEMMA RendererInit == Init => RendererInv
<1> SUFFICES ASSUME Init PROVE RendererInv
  OBVIOUS
<1>1. dev \in Devices /\ dev.w # 0 /\ core \in Cores
  BY RendererAssumption DEF Init
<1>2. IsRd(rd) /\ rd.g.dst_p = 0 /\ FrameOf(rd.g) = NoFrame
  BY DEF Init, IsRd, IsGeo, Geometry, FrameOf, NoFrame
<1>3. IsVid(vid) /\ vid.hard = 4 /\ vid.sharp = Soft /\ vid.p = dev.w /\ vid.w = dev.w
  BY DEF Init, IsVid
<1>4. IsFx(fx) /\ fx.type = 0 /\ fx.next = 0 /\ fx.live = 0
  BY DEF Init, IsFx, None
<1>5. IsPg(pg)
  BY DEF Init, IsPg
<1>6. Typed
  BY <1>1, <1>2, <1>3, <1>4, <1>5 DEF Init, Typed, Opts, Aspect, None, Soft, NoMenu
<1>7. Geometries /\ Surfaces /\ Scalers
  BY <1>2, <1>3 DEF Init, Geometries, Surfaces, Scalers
<1>8. Textures
  BY <1>1, <1>3 DEF Init, Textures, TargetOK, Wanted, Aspect, Native, Soft, Crisp
<1>9. Effects
  BY <1>4 DEF Effects, EffectOK, None
<1>10. Pages /\ SurfaceIsForPicture
  BY <1>2 DEF Init, Pages, SurfaceIsForPicture, Soft35, Gpu, NoPicture, NoFrame
<1> QED
  BY <1>6, <1>7, <1>8, <1>9, <1>10 DEF RendererInv

\* A frame, a shortcut, and every step of the menu and of its options keep the invariant.
LEMMA RendererNext == RendererInv /\ [Next]_vars => RendererInv'
<1> SUFFICES ASSUME RendererInv, [Next]_vars PROVE RendererInv'
  OBVIOUS
<1>o. opt \in Opts
  BY DEF RendererInv, Typed
<1>1. CASE Config_readOptions
  BY <1>1, ReadOptionsKeeps
<1>2. CASE video_refresh_callback_main
  BY <1>2, FrameKeeps
<1>3. CASE CycleScale
  <2>1. (opt.scaling + 1) % 3 \in 0 .. 2
    BY <1>o DEF Opts
  <2> QED
    BY <1>3, <2>1, SyncKeeps DEF CycleScale
<1>4. CASE CycleEffect
  <2>1. (opt.effect + 1) % 3 \in 0 .. 2
    BY <1>o DEF Opts
  <2> QED
    BY <1>4, <2>1, SyncKeeps DEF CycleEffect
<1>5. CASE ChangeOption
  <2>1. DOMAIN opt = {"scaling", "effect", "sharpness"}
    BY <1>o DEF Opts
  <2> QED
    BY <1>5, <2>1, SyncKeeps DEF ChangeOption
<1>6. CASE OpenMenu \/ MenuDraw \/ EnterOptions \/ LeaveOptions \/ CloseMenu
  BY <1>6, OpenMenuKeeps, MenuDrawKeeps, EnterOptionsKeeps, LeaveOptionsKeeps, CloseMenuKeeps
<1>7. CASE UNCHANGED vars
  <2>0. /\ dev' = dev /\ core' = core /\ opt' = opt /\ rd' = rd /\ vid' = vid /\ fx' = fx /\ pg' = pg
        /\ setting' = setting /\ at' = at /\ menu' = menu /\ drawn' = drawn
    BY <1>7 DEF vars
  <2>1. Typed'
    BY <2>0 DEF RendererInv, Typed
  <2>2. Geometries'
    <3>1. (Layout(FrameOf(rd.g), opt.scaling))' = Layout(FrameOf(rd.g), opt.scaling)
      BY <2>0, SameLayout
    <3> QED
      BY <2>0, <3>1 DEF RendererInv, Geometries
  <2>3. Surfaces' /\ Scalers' /\ Effects' /\ Textures' /\ Pages' /\ SurfaceIsForPicture'
    BY <2>0 DEF RendererInv, Surfaces, Device, Scalers, Effects, Textures, Wanted, Pages, SurfaceIsForPicture, Soft35, Gpu
  <2> QED
    BY <2>1, <2>2, <2>3 DEF RendererInv
<1> QED
  BY <1>1, <1>2, <1>3, <1>4, <1>5, <1>6, <1>7 DEF Next

\* The invariant holds on any screen, with any core, whatever is played or changed.
THEOREM RendererCorrect == Spec => []RendererInv
<1> QED
  BY RendererInit, RendererNext, PTL DEF Spec

\* selectScaler's geometry, the surface or texture a picture goes to and the textures
\* of the sharpness are those of the frame and the options in force, not of earlier
\* ones, after any sequence of frames, shortcuts, menus and options.
THEOREM PicturesAreCurrent == Spec => []PictureIsCurrent
<1>1. RendererInv => PictureIsCurrent
  <2> SUFFICES ASSUME RendererInv PROVE PictureIsCurrent
    OBVIOUS
  <2>1. GeometryIsCurrent
    BY DEF RendererInv, Geometries, GeometryIsCurrent, LastFrame, FrameOf
  <2>2. TargetIsReady
    BY DEF RendererInv, Textures, TargetOK, TargetIsReady
  <2> QED
    BY <2>1, <2>2 DEF RendererInv, PictureIsCurrent
<1> QED
  BY <1>1, RendererCorrect, PTL

\* Neither page of the rg35xx shows another geometry, the menu or an overlay that has
\* gone (PLAT_clearAll, PLAT_flip, overlay_clear).
THEOREM PagesAreClean == Spec => []CleanPages
<1>1. RendererInv => CleanPages
  <2> SUFFICES ASSUME RendererInv, Soft35, at = "game"
               PROVE  /\ pg.page[pg.shown] \ {Overlay} = {drawn.g}
                      /\ ~ setting.up => Overlay \notin pg.page[pg.shown]
    BY DEF CleanPages, NoRemains, OverlayGoes, Overlay
  <2>1. IsGeo(drawn.g) /\ Clean(pg, drawn.g, setting.up)
    BY DEF RendererInv, Pages, Soft35
  <2>2. drawn.g # Overlay
    BY <2>1, GeoNotOverlay
  <2>3. pg.shown \in 0 .. 1
    BY DEF RendererInv, Typed, IsPg
  <2> QED
    BY <2>1, <2>2, <2>3 DEF Clean
<1> QED
  BY <1>1, RendererCorrect, PTL

\* A picture is drawn with the scaler for the effect asked for and for the scale of its
\* geometry, and the one drawn on the way out of the menu has the effect the options
\* show and, on the rg35xxplus, that effect's texture.
THEOREM PicturesAreAsAsked == Spec => DrawsAsAsked
<1>1. RendererInv /\ [Next]_vars =>
        /\ [Drawing /\ ~dev.plus =>
              drawn'.fn = PLAT_getScaler(IF at = "menu" THEN opt.effect ELSE fx.next, drawn'.g.scale)]_vars
        /\ [at = "menu" /\ at' = "game" =>
              /\ fx'.type = opt.effect
              /\ (dev.plus /\ opt.effect # None) => fx'.texture[1] = opt.effect]_vars
  <2> SUFFICES ASSUME RendererInv, Next
               PROVE  /\ Drawing /\ ~dev.plus =>
                           drawn'.fn = PLAT_getScaler(IF at = "menu" THEN opt.effect ELSE fx.next, drawn'.g.scale)
                      /\ at = "menu" /\ at' = "game" =>
                           /\ fx'.type = opt.effect
                           /\ (dev.plus /\ opt.effect # None) => fx'.texture[1] = opt.effect
    OBVIOUS
  <2>1. CASE video_refresh_callback_main
    <3>1. PICK f : RefreshDraws(f, fx)
      BY <2>1, FrameKeeps
    <3>2. at = "game"
      BY <2>1 DEF video_refresh_callback_main
    <3> QED
      BY <3>1, <3>2 DEF RefreshDraws
  <2>2. CASE CloseMenu
    <3>1. PICK f, e : RefreshDraws(f, e) /\ e.next = opt.effect /\ (dev.plus => EffectOK(e))
      BY <2>2, CloseMenuKeeps
    <3>2. at = "menu"
      BY <2>2 DEF CloseMenu
    <3> QED
      BY <3>1, <3>2 DEF RefreshDraws, EffectOK
  <2>3. CASE CycleScale \/ CycleEffect
    <3>1. opt \in Opts
      BY DEF RendererInv, Typed
    <3>2. \A n \in 0 .. 2 : (n + 1) % 3 # n
      OBVIOUS
    <3>3. opt' # opt
      BY <2>3, <3>1, <3>2 DEF CycleScale, CycleEffect, Config_syncFrontend, Opts
    <3>4. at = "game"
      BY <2>3 DEF CycleScale, CycleEffect
    <3> QED
      BY <3>3, <3>4 DEF Drawing
  <2>4. CASE Config_readOptions \/ OpenMenu \/ MenuDraw \/ EnterOptions \/ ChangeOption \/ LeaveOptions
    BY <2>4 DEF Drawing, Config_readOptions, OpenMenu, MenuDraw, EnterOptions, ChangeOption, LeaveOptions
  <2> QED
    BY <2>1, <2>2, <2>3, <2>4 DEF Next
<1> QED
  BY <1>1, RendererCorrect, PTL DEF Spec, DrawsAsAsked, ScalerIsCurrent, EffectAfterMenu
=============================================================================
