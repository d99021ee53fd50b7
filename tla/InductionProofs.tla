-------------------------- MODULE InductionProofs ---------------------------
(***************************************************************************)
(* Proofs of two components by induction over a sequence.                  *)
(*                                                                         *)
(* Input: buttons, sleep and power, for any keys and axes, any shortcuts,  *)
(* and any number of events that a poll reads one after another.           *)
(*                                                                         *)
(* Lists: recent.txt and the collections, for any games, discs and names,  *)
(* any MAX_RECENTS, and any number of lines that minui merges one after    *)
(* another.                                                                *)
(*                                                                         *)
(* The induction is by the least place where a claim fails.                *)
(***************************************************************************)
EXTENDS Input, Lists, FiniteSetTheorems, SequenceTheorems, WellFoundedInduction, TLAPS

-----------------------------------------------------------------------------
(* Least elements: induction over the places of a sequence.                *)

LEMMA NatMin ==
  ASSUME NEW T, T \subseteq Nat, T # {}
  PROVE  \E x \in T : \A y \in T : x <= y
<1>1. PICK x \in T : \A y \in T : ~(<<y, x>> \in OpToRel(<, Nat))
  BY NatLessThanWellFounded, WFMin
<1>2. \A y \in T : y \in Nat /\ x \in Nat
  OBVIOUS
<1>3. ASSUME NEW y \in T PROVE x <= y
  <2>1. <<y, x>> \in OpToRel(<, Nat) <=> y < x
    BY <1>2 DEF OpToRel
  <2>2. ~(y < x)
    BY <1>1, <2>1, Zenon
  <2> QED
    BY <1>2, <2>2
<1> QED
  BY <1>3

\* A nonempty set of indices has a greatest one.
LEMMA IndexMax ==
  ASSUME NEW L \in Nat, NEW T, T \subseteq 1..L, T # {}
  PROVE  \E x \in T : \A y \in T : y <= x
<1> DEFINE U == {L - x : x \in T}
<1>1. U \subseteq Nat /\ U # {}
  <2>1. ASSUME NEW x \in T PROVE L - x \in Nat
    <3>1. x \in 1..L
      OBVIOUS
    <3> QED
      BY <3>1
  <2> QED
    BY <2>1
<1>2. PICK u \in U : \A y \in U : u <= y
  BY <1>1, NatMin
<1>3. PICK x \in T : u = L - x
  OBVIOUS
<1>4. ASSUME NEW y \in T PROVE y <= x
  <2>1. L - y \in U /\ x \in 1..L /\ y \in 1..L
    OBVIOUS
  <2> QED
    BY <1>2, <1>3, <2>1
<1> QED
  BY <1>4

\* A set that holds 0, and n with n - 1, holds every n up to L.
LEMMA UpTo ==
  ASSUME NEW L \in Nat, NEW S, 0 \in S, \A n \in 1..L : n - 1 \in S => n \in S
  PROVE  \A n \in 0..L : n \in S
<1> SUFFICES ASSUME {n \in 0..L : n \notin S} # {} PROVE FALSE
  OBVIOUS
<1> DEFINE Bad == {n \in 0..L : n \notin S}
<1>1. Bad \subseteq Nat
  OBVIOUS
<1>2. PICK m \in Bad : \A y \in Bad : m <= y
  BY <1>1, NatMin
<1>3. m \in 1..L /\ m - 1 \in 0..L
  OBVIOUS
<1>4. m - 1 \in S
  BY <1>2, <1>3
<1> QED
  BY <1>3, <1>4

-----------------------------------------------------------------------------
(* INPUT.  The inductive invariant.                                        *)

Devs == {"con", "pad"}
Events == [kind : {"key"}, btn : Buttons, v : {0, 1}] \cup [kind : {"hat", "stick"}, btn : {""}, v : -1..1]
EventsOf(d) ==
  {e \in Events : IF e.kind = "key" THEN \E k \in Keys : k.dev = d /\ k.btn = e.btn
                  ELSE \E a \in Axes : a.dev = d /\ a.kind = e.kind}

\* An event that leaves the button pressed.
Presses(e, b) ==
  IF e.kind = "key" THEN e.btn = b /\ e.v = 1
  ELSE (e.v = -1 /\ b = Neg(e.kind)) \/ (e.v = 1 /\ b = Pos(e.kind))

Typed ==
  /\ TypeOK
  /\ queue = [d \in Devs |-> queue[d]] /\ \A d \in Devs : queue[d] \in Seq(EventsOf(d))
  /\ fd = "live" => plugged
  /\ vib = [queued |-> vib.queued, strength |-> vib.strength, defer |-> vib.defer, kept |-> vib.kept]

\* The last event about a button tells how the device holds it.
LastTells(q, d) ==
  \A b \in Buttons : \A i \in DOMAIN q :
    Presses(q[i], b) /\ (\A j \in DOMAIN q : j > i => ~Touches(q[j], b)) => Holding(d, b)
Latest == \A d \in Devs : LastTells(queue[d], d)

\* What a pressed button rests on: a device that minarch reads holds the button, or has an event about it.
Says(d, b) ==
  /\ d = "pad" => fd = "live"
  /\ Holding(d, b) \/ \E i \in DOMAIN queue[d] : Touches(queue[d][i], b)
Kept == mode # "off" => \A b \in is_pressed \ ghost : \E d \in Devs : Says(d, b)

\* What PLAT_pollInput and PLAT_shouldWake have still to see, releases of POWER and a moved
\* lid, has been counted; asleep, one of them may wake and another put to sleep again.
Moved == is_open # ~shut
Owed ==
  /\ owed \in Nat
  /\ Moved \/ Taps # {} => owed >= 1
  /\ mode = "sleep" /\ Moved /\ Taps # {} => owed >= 2
  /\ mode = "sleep" => \A i, j \in Taps : i # j => owed >= 2

\* The power-off timer runs for a POWER key that is held or whose release is queued.
Timed == Awake /\ power # "none" /\ ~swallowed => Says("con", "POWER")

\* Before it sleeps or powers off the game is saved, and the pad is reset to sleep.
SavedAsleep == (mode \in {"sleep", "off"} => saved) /\ (mode = "sleep" => is_pressed = {})

\* What fast forward and its toggle say while no release was lost.
FastOK ==
  /\ fast_forward /\ ~toggled_ff_on /\ slip = "none" => mode \in {"game", "off"} /\ HOLD_FF.btn \in is_pressed
  /\ toggled_ff_on /\ ~fast_forward => slip = "tap"

\* A MENU press used with another button is ignored until MENU is pressed again.
ComboOK == combo => ignore_menu

InputInv == Typed /\ Latest /\ Kept /\ Owed /\ Timed /\ SavedAsleep /\ FastOK /\ ComboOK

-----------------------------------------------------------------------------
(* The events of a poll, read one after another.                           *)

\* ReadAll reads the events in order, from the buttons the pad holds.
Reads(f, e) ==
  /\ f[0] = [is |-> is_pressed, jp |-> {}, jr |-> {}]
  /\ \A n \in 1..Len(e) : f[n] = Read(f[n - 1], e[n])

LEMMA ReadAllReads ==
  ASSUME NEW E, NEW e \in Seq(E)
  PROVE  \E f : ReadAll(e) = f[Len(e)] /\ Reads(f, e)
<1> DEFINE L == Len(e)
           pad == [is |-> is_pressed, jp |-> {}, jr |-> {}]
           Is(g, m) == g = [n \in 0..m |-> IF n = 0 THEN pad ELSE Read(g[n - 1], e[n])]
           Some(m) == \E g : Is(g, m)
           S == {m \in 0..L : Some(m)}
           f[n \in 0..L] == IF n = 0 THEN pad ELSE Read(f[n - 1], e[n])
<1>1. L \in Nat
  OBVIOUS
<1>2. 0 \in S
  <2>1. Is([n \in 0..0 |-> pad], 0)
    OBVIOUS
  <2>2. Some(0)
    BY <2>1
  <2> HIDE DEF Some
  <2> QED
    BY <1>1, <2>2
<1>3. ASSUME NEW m \in 1..L, m - 1 \in S PROVE m \in S
  <2>1. PICK g : Is(g, m - 1)
    BY <1>3
  <2>0. g = [n \in 0..(m - 1) |-> IF n = 0 THEN pad ELSE Read(g[n - 1], e[n])]
    BY <2>1
  <2> HIDE DEF pad
  <2> DEFINE h == [n \in 0..m |-> IF n <= m - 1 THEN g[n] ELSE Read(g[m - 1], e[m])]
  <2>2. ASSUME NEW n \in 0..m PROVE h[n] = IF n = 0 THEN pad ELSE Read(h[n - 1], e[n])
    <3>1. CASE n = m
      BY <1>1, <1>3, <3>1
    <3>2. CASE n # m
      <4>1. n \in 0..(m - 1) /\ (n # 0 => n - 1 \in 0..(m - 1))
        BY <1>1, <1>3, <3>2
      <4> QED
        BY <1>1, <1>3, <2>0, <4>1
    <3> QED
      BY <3>1, <3>2
  <2>3. Is(h, m)
    BY <2>2
  <2>4. Some(m)
    BY <2>3
  <2> HIDE DEF Some
  <2> QED
    BY <1>1, <1>3, <2>4
<1>4. L \in S
  <2> HIDE DEF S
  <2>1. \A n \in 0..L : n \in S
    BY <1>1, <1>2, <1>3, UpTo
  <2> QED
    BY <1>1, <2>1
<1>5. Is(f, L)
  BY <1>4
<1>6. ReadAll(e) = f[L]
  BY DEF ReadAll
<1> HIDE DEF f, pad
<1>7. f[0] = pad /\ \A n \in 1..L : f[n] = Read(f[n - 1], e[n])
  BY <1>1, <1>5
<1> QED
  BY <1>6, <1>7 DEF Reads, pad

-----------------------------------------------------------------------------
(* One event.                                                              *)

PadState == [is : Pads, jp : Pads, jr : SUBSET (Buttons \cup {"POWER"})]
NeverBoth(S) == ~({"ANALOG_UP", "ANALOG_DOWN"} \subseteq S)
DpadKey == \E k \in Keys : k.btn \in {"DPAD_UP", "DPAD_DOWN"}
NeverHats(S) == {"DPAD_UP", "DPAD_DOWN"} \subseteq S => DpadKey

LEMMA PressDoes ==
  ASSUME NEW p \in PadState, NEW b \in Buttons
  PROVE  LET q == Press(p, b) IN
         /\ q \in PadState
         /\ q.is = p.is \cup {b} /\ q.jr = p.jr
         /\ q.jp = IF b \in p.is THEN p.jp ELSE p.jp \cup {b}
BY DEF Press, PadState, Pads

LEMMA ReleaseDoes ==
  ASSUME NEW p \in PadState, NEW b \in Buttons
  PROVE  LET q == Release(p, b) IN
         q \in PadState /\ q.is = p.is \ {b} /\ q.jr = p.jr \cup {b} /\ q.jp = p.jp
BY DEF Release, PadState, Pads

\* What every event keeps: a button comes by being pressed and goes by being released, and
\* only one the event touches.
Turns(p, q, e) ==
  /\ p.jp \subseteq q.jp /\ p.jr \subseteq q.jr
  /\ q.is \ p.is \subseteq q.jp /\ p.is \ q.is \subseteq q.jr
  /\ q.jp \subseteq p.jp \cup q.is \cup q.jr
  /\ \A b \in (q.jp \ p.jp) \cup (q.jr \ p.jr) : Touches(e, b)
  /\ \A b \in q.is : Presses(e, b) \/ (b \in p.is /\ ~Touches(e, b))

\* What an event does to a pad.
Reads1(p, q, e) ==
  /\ q \in PadState /\ Turns(p, q, e) /\ NeverBoth(q.is) /\ NeverHats(q.is)
  /\ "POWER" \in q.jr <=> "POWER" \in p.jr \/ IsWake(e)

LEMMA ReadKey ==
  ASSUME NEW p \in PadState, NEW k \in Keys, NEW v \in {0, 1}, NeverBoth(p.is), NeverHats(p.is)
  PROVE  LET e == [kind |-> "key", btn |-> k.btn, v |-> v] IN Reads1(p, Read(p, e), e)
<1> DEFINE e == [kind |-> "key", btn |-> k.btn, v |-> v]
           q == Read(p, e)
<1>1. k.btn \in Buttons /\ k.btn \notin {"ANALOG_UP", "ANALOG_DOWN"}
  BY InputAssumption DEF InputAssumption, Buttons
<1>2. q = IF v = 0 THEN Release(p, k.btn) ELSE Press(p, k.btn)
  BY DEF Read
<1>3. \A b : (Touches(e, b) <=> k.btn = b) /\ (Presses(e, b) <=> k.btn = b /\ v = 1)
  BY DEF Touches, Presses
<1>4. IsWake(e) <=> k.btn = "POWER" /\ v = 0
  BY DEF IsWake
<1> SUFFICES Reads1(p, q, e)
  OBVIOUS
<1> HIDE DEF e, q
<1>5. CASE v = 0
  <2>1. q \in PadState /\ q.is = p.is \ {k.btn} /\ q.jr = p.jr \cup {k.btn} /\ q.jp = p.jp
    BY <1>1, <1>2, <1>5, ReleaseDoes
  <2>2. Turns(p, q, e)
    BY <1>3, <1>5, <2>1 DEF Turns
  <2> QED
    BY <1>4, <1>5, <2>1, <2>2 DEF NeverBoth, NeverHats, Reads1
<1>6. CASE v = 1
  <2>1. /\ q \in PadState /\ q.is = p.is \cup {k.btn} /\ q.jr = p.jr
        /\ q.jp = IF k.btn \in p.is THEN p.jp ELSE p.jp \cup {k.btn}
    <3>1. q = Press(p, k.btn)
      BY <1>2, <1>6
    <3> QED
      BY <1>1, <3>1, PressDoes
  <2>2. Turns(p, q, e)
    BY <1>3, <1>6, <2>1 DEF Turns
  <2>3. NeverBoth(q.is) /\ NeverHats(q.is)
    BY <1>1, <2>1 DEF NeverBoth, NeverHats, DpadKey
  <2> QED
    BY <1>4, <1>6, <2>1, <2>2, <2>3 DEF Reads1
<1> QED
  BY <1>5, <1>6

LEMMA ReadHat ==
  ASSUME NEW p \in PadState, NEW a \in Axes, a.kind = "hat", NEW v \in -1..1,
         NeverBoth(p.is), NeverHats(p.is)
  PROVE  LET e == [kind |-> "hat", btn |-> "", v |-> v] IN Reads1(p, Read(p, e), e)
<1> DEFINE e == [kind |-> "hat", btn |-> "", v |-> v]
           q == Read(p, e)
           up == IF v = -1 THEN Press(p, "DPAD_UP") ELSE Release(p, "DPAD_UP")
<1>1. "DPAD_UP" \in Buttons /\ "DPAD_DOWN" \in Buttons
  BY DEF Buttons, Neg, Pos
<1>2. q = IF v = 1 THEN Press(up, "DPAD_DOWN") ELSE Release(up, "DPAD_DOWN")
  BY DEF Read, Hat
<1>3. \A b : /\ Touches(e, b) <=> b \in {"DPAD_UP", "DPAD_DOWN"}
             /\ Presses(e, b) <=> (v = -1 /\ b = "DPAD_UP") \/ (v = 1 /\ b = "DPAD_DOWN")
  BY DEF Touches, Presses, Neg, Pos
<1>4. ~IsWake(e)
  BY DEF IsWake
<1> SUFFICES Reads1(p, q, e)
  OBVIOUS
<1> HIDE DEF e, q
<1>5. CASE v = -1
  <2>1. /\ up \in PadState /\ up.is = p.is \cup {"DPAD_UP"} /\ up.jr = p.jr
        /\ up.jp = IF "DPAD_UP" \in p.is THEN p.jp ELSE p.jp \cup {"DPAD_UP"}
    BY <1>1, <1>5, PressDoes
  <2> HIDE DEF up
  <2>2. /\ q \in PadState /\ q.is = up.is \ {"DPAD_DOWN"} /\ q.jr = up.jr \cup {"DPAD_DOWN"} /\ q.jp = up.jp
    BY <1>1, <1>2, <1>5, <2>1, ReleaseDoes
  <2>3. Turns(p, q, e)
    BY <1>3, <1>5, <2>1, <2>2 DEF Turns
  <2> QED
    BY <1>4, <2>1, <2>2, <2>3 DEF NeverBoth, NeverHats, Reads1
<1>6. CASE v # -1
  <2>1. /\ up \in PadState /\ up.is = p.is \ {"DPAD_UP"} /\ up.jr = p.jr \cup {"DPAD_UP"} /\ up.jp = p.jp
    BY <1>1, <1>6, ReleaseDoes
  <2> HIDE DEF up
  <2>2. CASE v = 1
    <3>1. /\ q \in PadState /\ q.is = up.is \cup {"DPAD_DOWN"} /\ q.jr = up.jr
          /\ q.jp = IF "DPAD_DOWN" \in up.is THEN up.jp ELSE up.jp \cup {"DPAD_DOWN"}
      BY <1>1, <1>2, <2>1, <2>2, PressDoes
    <3>2. Turns(p, q, e)
      BY <1>3, <2>1, <2>2, <3>1 DEF Turns
    <3> QED
      BY <1>4, <2>1, <3>1, <3>2 DEF NeverBoth, NeverHats, Reads1
  <2>3. CASE v = 0
    <3>1. /\ q \in PadState /\ q.is = up.is \ {"DPAD_DOWN"} /\ q.jr = up.jr \cup {"DPAD_DOWN"} /\ q.jp = up.jp
      BY <1>1, <1>2, <2>1, <2>3, ReleaseDoes
    <3>2. Turns(p, q, e)
      BY <1>3, <2>1, <2>3, <3>1 DEF Turns
    <3> QED
      BY <1>4, <2>1, <3>1, <3>2 DEF NeverBoth, NeverHats, Reads1
  <2> QED
    BY <1>6, <2>2, <2>3
<1> QED
  BY <1>5, <1>6

LEMMA ReleaseHeldDoes ==
  ASSUME NEW p \in PadState, NEW b \in Buttons
  PROVE  LET q == ReleaseHeld(p, b) IN
         /\ q \in PadState /\ q.is = p.is \ {b} /\ q.jp = p.jp
         /\ q.jr = IF b \in p.is THEN p.jr \cup {b} ELSE p.jr
<1>1. CASE b \in p.is
  BY <1>1, ReleaseDoes DEF ReleaseHeld
<1>2. CASE b \notin p.is
  BY <1>2 DEF ReleaseHeld
<1> QED
  BY <1>1, <1>2

LEMMA ReadStick ==
  ASSUME NEW p \in PadState, NEW a \in Axes, a.kind = "stick", NEW v \in -1..1,
         NeverBoth(p.is), NeverHats(p.is)
  PROVE  LET e == [kind |-> "stick", btn |-> "", v |-> v] IN Reads1(p, Read(p, e), e)
<1> DEFINE e == [kind |-> "stick", btn |-> "", v |-> v]
           q == Read(p, e)
           to == IF v = 1 THEN "ANALOG_DOWN" ELSE "ANALOG_UP"
           from == IF v = 1 THEN "ANALOG_UP" ELSE "ANALOG_DOWN"
<1> SUFFICES Reads1(p, q, e)
  OBVIOUS
<1>1. "ANALOG_UP" \in Buttons /\ "ANALOG_DOWN" \in Buttons
  BY DEF Buttons, Neg, Pos
<1>2. q = IF v = 0 THEN ReleaseHeld(ReleaseHeld(p, "ANALOG_UP"), "ANALOG_DOWN")
          ELSE IF to \in p.is THEN p ELSE ReleaseHeld(Press(p, to), from)
  BY DEF Read, PAD_setAnalog, Neg, Pos
<1>3. \A b : /\ Touches(e, b) <=> b \in {"ANALOG_UP", "ANALOG_DOWN"}
             /\ Presses(e, b) <=> (v = -1 /\ b = "ANALOG_UP") \/ (v = 1 /\ b = "ANALOG_DOWN")
  BY DEF Touches, Presses, Neg, Pos
<1>4. ~IsWake(e)
  BY DEF IsWake
<1> HIDE DEF e, q
<1>5. CASE v = 0
  <2> DEFINE up == ReleaseHeld(p, "ANALOG_UP")
  <2>1. /\ up \in PadState /\ up.is = p.is \ {"ANALOG_UP"} /\ up.jp = p.jp
        /\ up.jr = IF "ANALOG_UP" \in p.is THEN p.jr \cup {"ANALOG_UP"} ELSE p.jr
    BY <1>1, ReleaseHeldDoes
  <2>2. q = ReleaseHeld(up, "ANALOG_DOWN")
    BY <1>2, <1>5
  <2> HIDE DEF up
  <2>3. /\ q \in PadState /\ q.is = up.is \ {"ANALOG_DOWN"} /\ q.jp = up.jp
        /\ q.jr = IF "ANALOG_DOWN" \in up.is THEN up.jr \cup {"ANALOG_DOWN"} ELSE up.jr
    BY <1>1, <2>1, <2>2, ReleaseHeldDoes
  <2>4. Turns(p, q, e)
    BY <1>3, <1>5, <2>1, <2>3 DEF Turns
  <2> QED
    BY <1>4, <2>1, <2>3, <2>4 DEF NeverBoth, NeverHats, Reads1
<1>6. CASE v # 0 /\ to \in p.is
  <2>1. q = p
    BY <1>2, <1>6
  <2>2. from \notin p.is
    BY <1>6 DEF NeverBoth
  <2>3. Turns(p, q, e)
    BY <1>3, <1>6, <2>1, <2>2 DEF Turns
  <2> QED
    BY <1>4, <2>1, <2>3 DEF Reads1
<1>7. CASE v # 0 /\ to \notin p.is
  <2> DEFINE pr == Press(p, to)
  <2>1. pr \in PadState /\ pr.is = p.is \cup {to} /\ pr.jr = p.jr /\ pr.jp = p.jp \cup {to}
    <3>1. to \in Buttons
      BY <1>1
    <3> HIDE DEF to
    <3> QED
      BY <1>7, <3>1, PressDoes
  <2>2. q = ReleaseHeld(pr, from)
    BY <1>2, <1>7
  <2> HIDE DEF pr
  <2>3. /\ q \in PadState /\ q.is = pr.is \ {from} /\ q.jp = pr.jp
        /\ q.jr = IF from \in pr.is THEN pr.jr \cup {from} ELSE pr.jr
    <3>1. from \in Buttons
      BY <1>1
    <3> HIDE DEF from
    <3> QED
      BY <2>1, <2>2, <3>1, ReleaseHeldDoes
  <2>4. Turns(p, q, e)
    BY <1>3, <1>7, <2>1, <2>3 DEF Turns
  <2>5. NeverBoth(q.is) /\ NeverHats(q.is)
    BY <2>1, <2>3 DEF NeverBoth, NeverHats
  <2> QED
    BY <1>4, <2>1, <2>3, <2>4, <2>5 DEF Reads1
<1> QED
  BY <1>5, <1>6, <1>7

AnyEvent == EventsOf("con") \cup EventsOf("pad")

LEMMA ReadOne ==
  ASSUME NEW p \in PadState, NEW e \in AnyEvent, NeverBoth(p.is), NeverHats(p.is)
  PROVE  Reads1(p, Read(p, e), e)
<1>1. CASE \E k \in Keys, v \in {0, 1} : e = [kind |-> "key", btn |-> k.btn, v |-> v]
  <2>1. PICK k \in Keys, v \in {0, 1} : e = [kind |-> "key", btn |-> k.btn, v |-> v]
    BY <1>1
  <2> QED
    BY <2>1, ReadKey
<1>2. CASE \E a \in Axes, v \in -1..1 : e = [kind |-> a.kind, btn |-> "", v |-> v]
  <2>1. PICK a \in Axes, v \in -1..1 : e = [kind |-> a.kind, btn |-> "", v |-> v]
    BY <1>2
  <2>2. a.kind \in {"hat", "stick"}
    BY InputAssumption DEF InputAssumption
  <2>3. CASE a.kind = "hat"
    BY <2>1, <2>3, ReadHat
  <2>4. CASE a.kind = "stick"
    BY <2>1, <2>4, ReadStick
  <2> QED
    BY <2>2, <2>3, <2>4
<1>3. PICK d \in Devs : e \in EventsOf(d)
  BY DEF AnyEvent, Devs
<1>4. \/ \E k \in Keys, v \in {0, 1} : e = [kind |-> "key", btn |-> k.btn, v |-> v]
      \/ \E a \in Axes, v \in -1..1 : e = [kind |-> a.kind, btn |-> "", v |-> v]
  <2>1. CASE e.kind = "key"
    <3>1. e = [kind |-> "key", btn |-> e.btn, v |-> e.v] /\ e.v \in {0, 1}
      BY <1>3, <2>1 DEF EventsOf, Events
    <3> QED
      BY <1>3, <2>1, <3>1 DEF EventsOf
  <2>2. CASE e.kind # "key"
    <3>1. e = [kind |-> e.kind, btn |-> "", v |-> e.v] /\ e.v \in -1..1
      BY <1>3, <2>2 DEF EventsOf, Events
    <3> QED
      BY <1>3, <2>2, <3>1 DEF EventsOf
  <2> QED
    BY <2>1, <2>2
<1> QED
  BY <1>1, <1>2, <1>4

-----------------------------------------------------------------------------
(* A whole poll.                                                           *)

\* The pad after the first n events, from the buttons it held.
After(p, e, n) ==
  /\ p \in PadState /\ NeverBoth(p.is) /\ NeverHats(p.is)
  /\ p.is \ is_pressed \subseteq p.jp /\ is_pressed \ p.is \subseteq p.jr /\ p.jp \subseteq p.is \cup p.jr
  /\ \A b \in p.jp \cup p.jr : \E i \in 1..n : Touches(e[i], b)
  /\ \A b \in p.is :
       \/ \E i \in 1..n : Presses(e[i], b) /\ \A j \in (i + 1)..n : ~Touches(e[j], b)
       \/ b \in is_pressed /\ \A j \in 1..n : ~Touches(e[j], b)
  /\ "POWER" \in p.jr <=> \E i \in 1..n : IsWake(e[i])

LEMMA AfterOne ==
  ASSUME NEW e, NEW n \in Nat \ {0}, NEW p, NEW q, After(p, e, n - 1), Reads1(p, q, e[n])
  PROVE  After(q, e, n)
<1>1. \A i \in 1..(n - 1) : i \in 1..n
  OBVIOUS
<1>2. n \in 1..n /\ \A i \in 1..n : i # n => i \in 1..(n - 1)
  OBVIOUS
<1>3. Turns(p, q, e[n])
  BY DEF Reads1
<1>4. /\ q \in PadState /\ NeverBoth(q.is) /\ NeverHats(q.is)
      /\ q.is \ is_pressed \subseteq q.jp /\ is_pressed \ q.is \subseteq q.jr /\ q.jp \subseteq q.is \cup q.jr
  BY <1>3 DEF After, Reads1, Turns
<1>5. ASSUME NEW b \in q.jp \cup q.jr PROVE \E i \in 1..n : Touches(e[i], b)
  <2>1. CASE b \in p.jp \cup p.jr
    BY <1>1, <2>1 DEF After
  <2>2. CASE b \notin p.jp \cup p.jr
    BY <1>2, <1>3, <2>2 DEF Turns
  <2> QED
    BY <2>1, <2>2
<1>6. ASSUME NEW b \in q.is
      PROVE  \/ \E i \in 1..n : Presses(e[i], b) /\ \A j \in (i + 1)..n : ~Touches(e[j], b)
             \/ b \in is_pressed /\ \A j \in 1..n : ~Touches(e[j], b)
  <2>1. CASE Presses(e[n], b)
    <3>1. (n + 1)..n = {}
      OBVIOUS
    <3> QED
      BY <1>2, <2>1, <3>1
  <2>2. CASE b \in p.is /\ ~Touches(e[n], b)
    <3>1. ASSUME NEW i \in 1..(n - 1), Presses(e[i], b), \A j \in (i + 1)..(n - 1) : ~Touches(e[j], b)
          PROVE  Presses(e[i], b) /\ \A j \in (i + 1)..n : ~Touches(e[j], b)
      <4>1. \A j \in (i + 1)..n : j # n => j \in (i + 1)..(n - 1)
        OBVIOUS
      <4> QED
        BY <2>2, <3>1, <4>1
    <3>2. ASSUME b \in is_pressed, \A j \in 1..(n - 1) : ~Touches(e[j], b)
          PROVE  \A j \in 1..n : ~Touches(e[j], b)
      BY <1>2, <2>2, <3>2
    <3> QED
      BY <1>1, <2>2, <3>1, <3>2 DEF After
  <2> QED
    BY <1>3, <2>1, <2>2 DEF Turns
<1>7. "POWER" \in q.jr <=> \E i \in 1..n : IsWake(e[i])
  <2>1. "POWER" \in q.jr <=> "POWER" \in p.jr \/ IsWake(e[n])
    BY DEF Reads1
  <2> QED
    BY <1>1, <1>2, <2>1 DEF After
<1> QED
  BY <1>4, <1>5, <1>6, <1>7 DEF After

LEMMA ReadAllDoes ==
  ASSUME NEW e \in Seq(AnyEvent), TypeOK
  PROVE  After(ReadAll(e), e, Len(e))
<1>1. PICK f : ReadAll(e) = f[Len(e)] /\ Reads(f, e)
  BY ReadAllReads
<1> DEFINE S == {n \in 0..Len(e) : After(f[n], e, n)}
<1>2. 0 \in S
  <2>1. f[0] = [is |-> is_pressed, jp |-> {}, jr |-> {}] /\ 1..0 = {}
    BY <1>1 DEF Reads
  <2>2. f[0] \in PadState /\ NeverBoth(f[0].is) /\ NeverHats(f[0].is)
    BY <2>1 DEF TypeOK, PadState, Pads, NeverBoth, NeverHats, DpadKey
  <2>3. After(f[0], e, 0)
    BY <2>1, <2>2 DEF After
  <2> QED
    BY <2>3
<1>3. ASSUME NEW n \in 1..Len(e), n - 1 \in S PROVE n \in S
  <2>1. f[n] = Read(f[n - 1], e[n]) /\ e[n] \in AnyEvent
    BY <1>1 DEF Reads
  <2>2. Reads1(f[n - 1], f[n], e[n])
    BY <1>3, <2>1, ReadOne DEF After
  <2>3. After(f[n], e, n)
    BY <1>3, <2>2, AfterOne
  <2> QED
    BY <2>3
<1>4. Len(e) \in S
  <2> HIDE DEF S
  <2>1. Len(e) \in Nat
    OBVIOUS
  <2>2. \A n \in 0..Len(e) : n \in S
    BY <1>2, <1>3, <2>1, UpTo
  <2> QED
    BY <2>1, <2>2
<1> QED
  BY <1>1, <1>4

\* What PLAT_pollInput reads: what both devices hold, for a dead descriptor holds nothing.
Polled == queue["con"] \o queue["pad"]

\* s is c and then d.
Joins(s, c, d) ==
  /\ Len(s) \in Nat
  /\ \A i \in DOMAIN c : i \in 1..Len(s) /\ s[i] = c[i]
  /\ \A i \in DOMAIN d : Len(c) + i \in 1..Len(s) /\ s[Len(c) + i] = d[i]
  /\ \A i \in 1..Len(s) : \/ i \in DOMAIN c /\ s[i] = c[i]
                          \/ i - Len(c) \in DOMAIN d /\ s[i] = d[i - Len(c)]

LEMMA ConcatAt ==
  ASSUME NEW E, NEW c \in Seq(E), NEW d \in Seq(E), NEW s, s = c \o d
  PROVE  Joins(s, c, d)
<1>1. Len(s) = Len(c) + Len(d) /\ DOMAIN c = 1..Len(c) /\ DOMAIN d = 1..Len(d)
  OBVIOUS
<1>2. \A i \in 1..Len(c) : s[i] = c[i]
  OBVIOUS
<1>3. \A i \in 1..Len(d) : s[Len(c) + i] = d[i]
  OBVIOUS
<1>4. ASSUME NEW i \in 1..Len(s)
      PROVE  \/ i \in DOMAIN c /\ s[i] = c[i]
             \/ i - Len(c) \in DOMAIN d /\ s[i] = d[i - Len(c)]
  OBVIOUS
<1> QED
  BY <1>1, <1>2, <1>3, <1>4 DEF Joins

LEMMA QueuesAre ==
  ASSUME Typed
  PROVE  queue["con"] \in Seq(AnyEvent) /\ queue["pad"] \in Seq(AnyEvent)
BY DEF Typed, Devs, AnyEvent

LEMMA PollIs ==
  ASSUME Typed, NEW checks
  PROVE  /\ Polled \in Seq(AnyEvent)
         /\ CheckForGamepad(checks) # fd => queue["pad"] = <<>>
         /\ Poll(checks) = IF ~Moved THEN ReadAll(Polled)
                           ELSE [ReadAll(Polled) EXCEPT !.jr = @ \cup {"POWER"}]
<1>1. queue["con"] \in Seq(AnyEvent) /\ queue["pad"] \in Seq(AnyEvent)
  BY QueuesAre
<1>2. fd # "live" => queue["pad"] = <<>>
  BY DEF Typed, TypeOK
<1>3. CheckForGamepad(checks) # fd => fd # "live"
  BY DEF CheckForGamepad, Typed
<1>4. (IF CheckForGamepad(checks) = "live" THEN queue["pad"] ELSE <<>>) = queue["pad"]
  BY <1>2, <1>3
<1>5. Polled \in Seq(AnyEvent)
  BY <1>1 DEF Polled
<1>6. Poll(checks) = IF ~Moved THEN ReadAll(Polled)
                     ELSE [ReadAll(Polled) EXCEPT !.jr = @ \cup {"POWER"}]
  BY <1>4 DEF Polled, Poll, Moved, BTN_SLEEP
<1> QED
  BY <1>2, <1>3, <1>5, <1>6

\* Only the console has a POWER key.
LEMMA PowerOnConsole ==
  ASSUME NEW e \in EventsOf("pad")
  PROVE  ~Touches(e, "POWER") /\ ~IsWake(e)
BY InputAssumption DEF InputAssumption, EventsOf, Events, Touches, IsWake, Neg, Pos

\* An index of a poll is one of its device.
LEMMA PolledAt ==
  ASSUME Typed, NEW i \in 1..Len(Polled)
  PROVE  \/ i \in DOMAIN queue["con"] /\ Polled[i] = queue["con"][i]
         \/ i - Len(queue["con"]) \in DOMAIN queue["pad"] /\ Polled[i] = queue["pad"][i - Len(queue["con"])]
<1>1. queue["con"] \in Seq(AnyEvent) /\ queue["pad"] \in Seq(AnyEvent)
  BY QueuesAre
<1>2. Polled = queue["con"] \o queue["pad"]
  BY DEF Polled
<1>3. Joins(Polled, queue["con"], queue["pad"])
  BY <1>1, <1>2, ConcatAt
<1> QED
  BY <1>3 DEF Joins

LEMMA PolledCon ==
  ASSUME Typed
  PROVE  /\ \A i \in DOMAIN queue["con"] : i \in 1..Len(Polled) /\ Polled[i] = queue["con"][i]
         /\ \A i \in DOMAIN queue["pad"] : Len(queue["con"]) + i \in 1..Len(Polled)
                                           /\ Polled[Len(queue["con"]) + i] = queue["pad"][i]
         /\ Len(Polled) \in Nat
<1>1. queue["con"] \in Seq(AnyEvent) /\ queue["pad"] \in Seq(AnyEvent)
  BY QueuesAre
<1>2. Polled = queue["con"] \o queue["pad"]
  BY DEF Polled
<1>3. Joins(Polled, queue["con"], queue["pad"])
  BY <1>1, <1>2, ConcatAt
<1> QED
  BY <1>3 DEF Joins

\* A button whose last event of a poll presses it is held.
LEMMA LastHeld ==
  ASSUME Typed, Latest, NEW b \in Buttons, NEW i \in 1..Len(Polled),
         Presses(Polled[i], b), \A j \in (i + 1)..Len(Polled) : ~Touches(Polled[j], b)
  PROVE  \E d \in Devs : (d = "pad" => fd = "live") /\ Holding(d, b)
<1>1. queue["con"] \in Seq(EventsOf("con")) /\ queue["pad"] \in Seq(EventsOf("pad"))
  BY DEF Typed, Devs
<1>2. CASE i \in DOMAIN queue["con"] /\ Polled[i] = queue["con"][i]
  <2>1. ASSUME NEW j \in DOMAIN queue["con"], j > i PROVE ~Touches(queue["con"][j], b)
    <3>1. j \in (i + 1)..Len(Polled) /\ Polled[j] = queue["con"][j]
      BY <1>1, <2>1, PolledCon
    <3> QED
      BY <3>1
  <2> QED
    BY <1>2, <2>1 DEF Latest, LastTells, Devs
<1>3. CASE i - Len(queue["con"]) \in DOMAIN queue["pad"] /\ Polled[i] = queue["pad"][i - Len(queue["con"])]
  <2> DEFINE k == i - Len(queue["con"])
  <2>1. ASSUME NEW j \in DOMAIN queue["pad"], j > k PROVE ~Touches(queue["pad"][j], b)
    <3>1. Len(queue["con"]) + j \in (i + 1)..Len(Polled) /\ Polled[Len(queue["con"]) + j] = queue["pad"][j]
      BY <1>1, <2>1, PolledCon
    <3> QED
      BY <3>1
  <2>2. fd = "live"
    BY <1>3 DEF Typed, TypeOK
  <2> QED
    BY <1>3, <2>1, <2>2 DEF Latest, LastTells, Devs
<1> QED
  BY <1>2, <1>3, PolledAt

\* A POWER with events and no release among them is held.
LEMMA PowerHeld ==
  ASSUME Typed, Latest, \A i \in DOMAIN queue["con"] : ~IsWake(queue["con"][i]),
         NEW i \in DOMAIN queue["con"], Touches(queue["con"][i], "POWER")
  PROVE  Holding("con", "POWER")
<1> DEFINE q == queue["con"]
           T == {j \in 1..Len(q) : Touches(q[j], "POWER")}
<1>1. q \in Seq(EventsOf("con")) /\ DOMAIN q = 1..Len(q) /\ Len(q) \in Nat
  BY DEF Typed, Devs
<1>2. PICK m \in T : \A y \in T : y <= m
  <2>1. i \in T
    BY <1>1
  <2> QED
    BY <1>1, <2>1, IndexMax
<1>3. q[m] \in Events /\ Touches(q[m], "POWER") /\ ~IsWake(q[m])
  BY <1>1 DEF EventsOf
<1>4. "POWER" \in Buttons /\ Presses(q[m], "POWER")
  BY <1>3 DEF Events, Touches, Presses, IsWake, Neg, Pos
<1>5. ASSUME NEW j \in DOMAIN q, j > m PROVE ~Touches(q[j], "POWER")
  BY <1>1, <1>2, <1>5
<1> QED
  BY <1>1, <1>4, <1>5 DEF Latest, LastTells, Devs

\* What a poll tells: buttons come by being pressed and go by being released, those that stay
\* are held, and POWER is released only for a cause.
PollTells(p, checks) ==
  /\ p \in PadState /\ NeverBoth(p.is) /\ NeverHats(p.is)
  /\ p.is \ is_pressed \subseteq p.jp /\ is_pressed \ p.is \subseteq p.jr /\ p.jp \subseteq p.is \cup p.jr
  /\ \A b \in p.is \ ghost : \E d \in Devs : (d = "pad" => CheckForGamepad(checks) = "live") /\ Holding(d, b)
  /\ "POWER" \in p.jr => Moved \/ Taps # {}
  /\ "POWER" \notin p.jr /\ ("POWER" \in p.jp \/ Says("con", "POWER")) => Holding("con", "POWER")

LEMMA PollDoes ==
  ASSUME InputInv, mode # "off", NEW checks
  PROVE  PollTells(Poll(checks), checks)
<1> DEFINE p == Poll(checks)
           r == ReadAll(Polled)
<1>1. Typed /\ Latest /\ TypeOK
  BY DEF InputInv, Typed
<1>2. /\ Polled \in Seq(AnyEvent)
      /\ CheckForGamepad(checks) # fd => queue["pad"] = <<>>
      /\ p = IF ~Moved THEN r ELSE [r EXCEPT !.jr = @ \cup {"POWER"}]
  BY <1>1, PollIs
<1>3. After(r, Polled, Len(Polled))
  BY <1>1, <1>2, ReadAllDoes
<1> HIDE DEF p, r
<1>4. /\ p.is = r.is /\ p.jp = r.jp /\ r.jr \subseteq p.jr
      /\ "POWER" \in p.jr <=> Moved \/ "POWER" \in r.jr
      /\ p \in PadState
  BY <1>2, <1>3 DEF After, PadState, Pads
<1>5. /\ NeverBoth(p.is) /\ NeverHats(p.is)
      /\ p.is \ is_pressed \subseteq p.jp /\ is_pressed \ p.is \subseteq p.jr /\ p.jp \subseteq p.is \cup p.jr
  BY <1>3, <1>4 DEF After
<1>6. \A i \in DOMAIN queue["pad"] : queue["pad"][i] \in EventsOf("pad")
  BY <1>1 DEF Typed, Devs
<1>7. ASSUME NEW b \in p.is \ ghost
      PROVE  \E d \in Devs : (d = "pad" => CheckForGamepad(checks) = "live") /\ Holding(d, b)
  <2>1. b \in Buttons
    BY <1>4 DEF PadState, Pads
  <2>2. fd = "live" => CheckForGamepad(checks) = "live"
    BY <1>1 DEF CheckForGamepad, Typed
  <2>3. CASE \E i \in 1..Len(Polled) : Presses(Polled[i], b) /\ \A j \in (i + 1)..Len(Polled) : ~Touches(Polled[j], b)
    BY <1>1, <2>1, <2>2, <2>3, LastHeld
  <2>4. CASE b \in is_pressed /\ \A j \in 1..Len(Polled) : ~Touches(Polled[j], b)
    <3>1. PICK d \in Devs : Says(d, b)
      BY <1>7, <2>4 DEF InputInv, Kept
    <3>2. \A i \in DOMAIN queue[d] : ~Touches(queue[d][i], b)
      BY <1>1, <2>4, PolledCon DEF Devs
    <3> QED
      BY <2>2, <3>1, <3>2 DEF Says
  <2> QED
    BY <1>3, <1>4, <2>3, <2>4 DEF After
<1>8. ASSUME "POWER" \in p.jr PROVE Moved \/ Taps # {}
  <2>1. CASE "POWER" \in r.jr
    <3>1. PICK i \in 1..Len(Polled) : IsWake(Polled[i])
      BY <1>3, <2>1 DEF After
    <3>2. i \in DOMAIN queue["con"] /\ IsWake(queue["con"][i])
      BY <1>1, <1>6, <3>1, PolledAt, PowerOnConsole
    <3> QED
      BY <3>2 DEF Taps
  <2> QED
    BY <1>4, <1>8, <2>1
<1>9. ASSUME "POWER" \notin p.jr, "POWER" \in p.jp \/ Says("con", "POWER")
      PROVE  Holding("con", "POWER")
  <2>1. \A i \in DOMAIN queue["con"] : ~IsWake(queue["con"][i])
    BY <1>1, <1>3, <1>4, <1>9, PolledCon DEF After
  <2>2. CASE \E i \in DOMAIN queue["con"] : Touches(queue["con"][i], "POWER")
    BY <1>1, <2>1, <2>2, PowerHeld
  <2>3. CASE "POWER" \in p.jp
    <3>1. PICK i \in 1..Len(Polled) : Touches(Polled[i], "POWER")
      BY <1>3, <1>4, <2>3 DEF After
    <3>2. i \in DOMAIN queue["con"] /\ Touches(queue["con"][i], "POWER")
      BY <1>1, <1>6, <3>1, PolledAt, PowerOnConsole
    <3> QED
      BY <2>2, <3>2
  <2> QED
    BY <1>9, <2>2, <2>3 DEF Says
<1> QED
  BY <1>4, <1>5, <1>7, <1>8, <1>9 DEF PollTells, p

-----------------------------------------------------------------------------
(* The types, in groups.                                                   *)

Places ==
  /\ mode \in {"game", "menu", "bind", "deferred", "sleep", "off"}
  /\ back \in {"game", "menu", "bind", "exit"}
  /\ power \in {"none", "running", "due"} /\ slip \in {"none", "missed", "tap"}
  /\ moves \in 0..MaxMoves
WorldBits == plugged \in BOOLEAN /\ shut \in BOOLEAN /\ charger \in BOOLEAN /\ hdmi \in BOOLEAN
ClockBits ==
  /\ is_open \in BOOLEAN /\ idle \in BOOLEAN /\ night \in BOOLEAN
  /\ is_charging \in BOOLEAN /\ was_charging \in BOOLEAN
PlayBits ==
  /\ fast_forward \in BOOLEAN /\ toggled_ff_on \in BOOLEAN /\ ignore_menu \in BOOLEAN /\ tap \in BOOLEAN
  /\ saved \in BOOLEAN /\ swallowed \in BOOLEAN /\ combo \in BOOLEAN
Hands == down \subseteq Keys /\ tilt \in [Axes -> -1..1]
Queues ==
  /\ queue = [d \in Devs |-> queue[d]] /\ \A d \in Devs : queue[d] \in Seq(EventsOf(d))
  /\ fd \in {"none", "live", "dead"} /\ (fd # "live" => queue["pad"] = <<>>)
  /\ fd = "live" => plugged
PadOK == is_pressed \in Pads /\ ghost \subseteq is_pressed /\ NeverBoth(is_pressed) /\ NeverHats(is_pressed)
VibOK == vib \in [queued : 0..1, strength : 0..1, defer : 0..DEFER_FRAMES, kept : 0..1]

LEMMA TypedSplits ==
  Typed <=> Places /\ WorldBits /\ ClockBits /\ PlayBits /\ Hands /\ Queues /\ PadOK /\ VibOK
<1>1. Typed => Places /\ Hands /\ Queues /\ PadOK
  BY DEF Typed, TypeOK, Places, Hands, Queues, PadOK, NeverBoth, NeverHats, DpadKey
<1>2. Typed => WorldBits /\ ClockBits /\ PlayBits
  BY DEF Typed, TypeOK, WorldBits, ClockBits, PlayBits
<1>3. Typed => VibOK
  BY DEF Typed, TypeOK, VibOK
<1>4. /\ WorldBits /\ ClockBits => {plugged, shut, charger, hdmi, is_open, idle, night, is_charging, was_charging} \subseteq BOOLEAN
      /\ PlayBits => {fast_forward, toggled_ff_on, ignore_menu, tap, saved, swallowed, combo} \subseteq BOOLEAN
  BY DEF WorldBits, ClockBits, PlayBits
<1>5. VibOK => /\ vib.queued \in 0..1 /\ vib.strength \in 0..1 /\ vib.kept \in 0..1 /\ vib.defer \in 0..DEFER_FRAMES
               /\ vib = [queued |-> vib.queued, strength |-> vib.strength, defer |-> vib.defer, kept |-> vib.kept]
  BY DEF VibOK
<1>6. Places /\ Hands /\ Queues /\ PadOK =>
        /\ mode \in {"game", "menu", "bind", "deferred", "sleep", "off"}
        /\ back \in {"game", "menu", "bind", "exit"}
        /\ down \subseteq Keys /\ tilt \in [Axes -> -1..1]
        /\ fd \in {"none", "live", "dead"} /\ (fd # "live" => queue["pad"] = <<>>)
        /\ is_pressed \in Pads /\ ghost \subseteq is_pressed
        /\ {"DPAD_UP", "DPAD_DOWN"} \subseteq is_pressed => \E k \in Keys : k.btn \in {"DPAD_UP", "DPAD_DOWN"}
        /\ ~({"ANALOG_UP", "ANALOG_DOWN"} \subseteq is_pressed)
        /\ power \in {"none", "running", "due"} /\ slip \in {"none", "missed", "tap"} /\ moves \in 0..MaxMoves
        /\ queue = [d \in Devs |-> queue[d]] /\ (\A d \in Devs : queue[d] \in Seq(EventsOf(d)))
        /\ fd = "live" => plugged
  BY DEF Places, Hands, Queues, PadOK, NeverBoth, NeverHats, DpadKey
<1> QED
  BY <1>1, <1>2, <1>3, <1>4, <1>5, <1>6, Zenon DEF Typed, TypeOK

\* Typed, of the step's end.
LEMMA TypedNext ==
  ASSUME Places', WorldBits', ClockBits', PlayBits', Hands', Queues', PadOK', VibOK'
  PROVE  Typed'
BY TypedSplits, PTL

-----------------------------------------------------------------------------
(* Steps that poll nothing.                                                *)

\* The parts of the invariant a step that leaves the buttons alone keeps.
Untouched == UNCHANGED <<down, tilt, queue, fd, is_pressed, ghost>>

LEMMA UntouchedKeeps ==
  ASSUME InputInv, Untouched
  PROVE  /\ Latest'
         /\ \A d \in Devs : \A b : Says(d, b) <=> Says(d, b)'
         /\ Taps' = Taps
<1>1. \A d, b : Holding(d, b) <=> Holding(d, b)'
  BY DEF Untouched, Holding
<1> QED
  BY <1>1 DEF InputInv, Latest, LastTells, Untouched, Says, Taps

\* A step that leaves the buttons, the mode, the lid and play alone, and starts no power timer.
LEMMA SamePlay ==
  ASSUME InputInv, Typed', Untouched,
         UNCHANGED <<mode, shut, is_open, fast_forward, toggled_ff_on, ignore_menu, hist>>,
         power' # "none" => power # "none"
  PROVE  InputInv'
<1>1. Latest' /\ (\A d \in Devs : \A b : Says(d, b) <=> Says(d, b)') /\ Taps' = Taps
  BY UntouchedKeeps
<1>2. Kept'
  BY <1>1 DEF InputInv, Kept, Untouched
<1>3. Owed'
  BY <1>1 DEF InputInv, Owed, Moved, hist
<1>4. Timed'
  BY <1>1 DEF InputInv, Timed, Awake, Devs, hist
<1>5. SavedAsleep' /\ FastOK' /\ ComboOK'
  BY DEF InputInv, SavedAsleep, FastOK, ComboOK, Untouched, hist
<1> QED
  BY <1>1, <1>2, <1>3, <1>4, <1>5 DEF InputInv

LEMMA PlugKeeps == ASSUME InputInv, Plug PROVE InputInv'
<1>0. Places /\ WorldBits /\ ClockBits /\ PlayBits /\ Hands /\ Queues /\ PadOK /\ VibOK
  BY TypedSplits DEF InputInv
<1>1. Places' /\ Hands' /\ Queues' /\ PadOK'
  BY <1>0, InputAssumption DEF InputAssumption, Places, Hands, Queues, PadOK, NeverBoth, NeverHats, DpadKey, Plug, Move, timers, play, hist
<1>2. WorldBits' /\ ClockBits' /\ PlayBits'
  BY <1>0 DEF WorldBits, ClockBits, PlayBits, Plug, Move, timers, play, hist
<1>3. VibOK'
  BY <1>0, InputAssumption DEF InputAssumption, VibOK, Plug, Move, timers, play, hist
<1> QED
  BY <1>1, <1>2, <1>3, TypedNext, SamePlay DEF Plug, Untouched, timers, play, hist

LEMMA ChargerKeeps == ASSUME InputInv, Charger PROVE InputInv'
<1>0. Places /\ WorldBits /\ ClockBits /\ PlayBits /\ Hands /\ Queues /\ PadOK /\ VibOK
  BY TypedSplits DEF InputInv
<1>1. Places' /\ Hands' /\ Queues' /\ PadOK'
  BY <1>0, InputAssumption DEF InputAssumption, Places, Hands, Queues, PadOK, NeverBoth, NeverHats, DpadKey, Charger, Move, timers, play, hist
<1>2. WorldBits' /\ ClockBits' /\ PlayBits'
  BY <1>0 DEF WorldBits, ClockBits, PlayBits, Charger, Move, timers, play, hist
<1>3. VibOK'
  BY <1>0, InputAssumption DEF InputAssumption, VibOK, Charger, Move, timers, play, hist
<1> QED
  BY <1>1, <1>2, <1>3, TypedNext, SamePlay DEF Charger, Untouched, timers, play, hist

LEMMA CoreRumbleKeeps == ASSUME InputInv, NEW s \in 0..1, CoreRumble(s) PROVE InputInv'
<1>0. Places /\ WorldBits /\ ClockBits /\ PlayBits /\ Hands /\ Queues /\ PadOK /\ VibOK
  BY TypedSplits DEF InputInv
<1>1. Places' /\ Hands' /\ Queues' /\ PadOK'
  BY <1>0, InputAssumption DEF InputAssumption, Places, Hands, Queues, PadOK, NeverBoth, NeverHats, DpadKey, CoreRumble, Move, world, timers, play, hist
<1>2. WorldBits' /\ ClockBits' /\ PlayBits'
  BY <1>0 DEF WorldBits, ClockBits, PlayBits, CoreRumble, Move, world, timers, play, hist
<1>3. VibOK'
  BY <1>0, InputAssumption DEF InputAssumption, VibOK, CoreRumble, Move, world, timers, play, hist
<1> QED
  BY <1>1, <1>2, <1>3, TypedNext, SamePlay DEF CoreRumble, Untouched, world, timers, play, hist

LEMMA BatteryPollKeeps == ASSUME InputInv, BatteryPoll PROVE InputInv'
<1>0. Places /\ WorldBits /\ ClockBits /\ PlayBits /\ Hands /\ Queues /\ PadOK /\ VibOK
  BY TypedSplits DEF InputInv
<1>1. Places' /\ Hands' /\ Queues' /\ PadOK'
  BY <1>0, InputAssumption DEF InputAssumption, Places, Hands, Queues, PadOK, NeverBoth, NeverHats, DpadKey, BatteryPoll, world, timers, play, hist
<1>2. WorldBits' /\ ClockBits' /\ PlayBits'
  BY <1>0 DEF WorldBits, ClockBits, PlayBits, BatteryPoll, world, timers, play, hist
<1>3. VibOK'
  BY <1>0, InputAssumption DEF InputAssumption, VibOK, BatteryPoll, world, timers, play, hist
<1> QED
  BY <1>1, <1>2, <1>3, TypedNext, SamePlay DEF BatteryPoll, Untouched, world, timers, play, hist

LEMMA VibThreadKeeps == ASSUME InputInv, VibThread PROVE InputInv'
<1>0. Places /\ WorldBits /\ ClockBits /\ PlayBits /\ Hands /\ Queues /\ PadOK /\ VibOK
  BY TypedSplits DEF InputInv
<1>1. Places' /\ Hands' /\ Queues' /\ PadOK'
  BY <1>0, InputAssumption DEF InputAssumption, Places, Hands, Queues, PadOK, NeverBoth, NeverHats, DpadKey, VibThread, world, timers, play, hist
<1>2. WorldBits' /\ ClockBits' /\ PlayBits'
  BY <1>0 DEF WorldBits, ClockBits, PlayBits, VibThread, world, timers, play, hist
<1>3. VibOK'
  <2>1. DEFER_FRAMES \in Nat /\ vib.queued \in 0..1 /\ vib.defer \in 0..DEFER_FRAMES
    BY <1>0, InputAssumption DEF InputAssumption, VibOK
  <2>2. CASE vib.queued = 0 /\ vib.defer < DEFER_FRAMES
    <3>1. vib' = [vib EXCEPT !.defer = vib.defer + 1] /\ vib.defer + 1 \in 0..DEFER_FRAMES
      BY <2>1, <2>2 DEF VibThread, VibRound
    <3> QED
      BY <1>0, <3>1 DEF VibOK
  <2>3. CASE ~(vib.queued = 0 /\ vib.defer < DEFER_FRAMES)
    <3>1. vib' = [vib EXCEPT !.strength = vib.queued, !.defer = 0] /\ 0 \in 0..DEFER_FRAMES
      BY <2>1, <2>3 DEF VibThread, VibRound
    <3> QED
      BY <1>0, <2>1, <3>1 DEF VibOK
  <2> QED
    BY <2>2, <2>3
<1> QED
  BY <1>1, <1>2, <1>3, TypedNext, SamePlay DEF VibThread, Untouched, world, timers, play, hist

LEMMA ElapseNightKeeps == ASSUME InputInv, ElapseNight PROVE InputInv'
<1>0. Places /\ WorldBits /\ ClockBits /\ PlayBits /\ Hands /\ Queues /\ PadOK /\ VibOK
  BY TypedSplits DEF InputInv
<1>1. Places' /\ Hands' /\ Queues' /\ PadOK'
  BY <1>0, InputAssumption DEF InputAssumption, Places, Hands, Queues, PadOK, NeverBoth, NeverHats, DpadKey, ElapseNight, Same, world, play, hist
<1>2. WorldBits' /\ ClockBits' /\ PlayBits'
  BY <1>0 DEF WorldBits, ClockBits, PlayBits, ElapseNight, Same, world, play, hist
<1>3. VibOK'
  BY <1>0, InputAssumption DEF InputAssumption, VibOK, ElapseNight, Same, world, play, hist
<1> QED
  BY <1>1, <1>2, <1>3, TypedNext, SamePlay DEF ElapseNight, Same, Untouched, world, play, hist

LEMMA ElapseHoldKeeps == ASSUME InputInv, ElapseHold PROVE InputInv'
<1>0. Places /\ WorldBits /\ ClockBits /\ PlayBits /\ Hands /\ Queues /\ PadOK /\ VibOK
  BY TypedSplits DEF InputInv
<1>1. Places' /\ Hands' /\ Queues' /\ PadOK'
  BY <1>0 DEF Places, Hands, Queues, PadOK, NeverBoth, NeverHats, DpadKey, ElapseHold, Same, world, play, hist
<1>2. WorldBits' /\ ClockBits' /\ PlayBits' /\ VibOK'
  BY <1>0 DEF WorldBits, ClockBits, PlayBits, VibOK, ElapseHold, Same, world, play, hist
<1> QED
  BY <1>1, <1>2, TypedNext, SamePlay DEF ElapseHold, Same, Untouched, world, play, hist

LEMMA ElapseIdleKeeps == ASSUME InputInv, ElapseIdle PROVE InputInv'
<1>0. Places /\ WorldBits /\ ClockBits /\ PlayBits /\ Hands /\ Queues /\ PadOK /\ VibOK
  BY TypedSplits DEF InputInv
<1>1. Places' /\ Hands' /\ Queues' /\ PadOK'
  BY <1>0 DEF Places, Hands, Queues, PadOK, NeverBoth, NeverHats, DpadKey, ElapseIdle, Same, world, play, hist
<1>2. WorldBits' /\ ClockBits' /\ PlayBits' /\ VibOK'
  BY <1>0 DEF WorldBits, ClockBits, PlayBits, VibOK, ElapseIdle, Same, world, play, hist
<1>3. power' # "none" => power # "none"
  BY DEF ElapseIdle
<1> QED
  BY <1>1, <1>2, <1>3, TypedNext, SamePlay DEF ElapseIdle, Same, Untouched, world, play, hist

\* A move of the lid is a cause, and is counted.
LEMMA LidKeeps == ASSUME InputInv, Lid PROVE InputInv'
<1>0. Places /\ WorldBits /\ ClockBits /\ PlayBits /\ Hands /\ Queues /\ PadOK /\ VibOK
  BY TypedSplits DEF InputInv
<1>1. Places' /\ Hands' /\ Queues' /\ PadOK'
  BY <1>0, InputAssumption DEF InputAssumption, Places, Hands, Queues, PadOK, NeverBoth, NeverHats, DpadKey, Lid, Move, timers, play
<1>2. WorldBits' /\ ClockBits' /\ PlayBits' /\ VibOK'
  BY <1>0 DEF WorldBits, ClockBits, PlayBits, VibOK, Lid, Move, timers, play
<1>3. Latest' /\ (\A d \in Devs : \A b : Says(d, b) <=> Says(d, b)') /\ Taps' = Taps
  BY UntouchedKeeps DEF Lid, Untouched
<1>4. Kept' /\ Timed'
  BY <1>3 DEF InputInv, Kept, Timed, Awake, Devs, Lid, timers, play
<1>5. Owed'
  BY <1>3 DEF InputInv, Owed, Moved, Lid
<1>6. SavedAsleep' /\ FastOK' /\ ComboOK'
  BY DEF InputInv, SavedAsleep, FastOK, ComboOK, Lid, play
<1> QED
  BY <1>1, <1>2, <1>3, <1>4, <1>5, <1>6, TypedNext DEF InputInv

-----------------------------------------------------------------------------
(* Events queue.                                                           *)

LEMMA QueuedDoes ==
  ASSUME Queues, NEW dev \in Devs, NEW e \in EventsOf(dev), queue' = Queued(dev, e)
  PROVE  \/ dev = "pad" /\ fd # "live" /\ queue' = queue
         \/ /\ dev = "con" \/ fd = "live"
            /\ queue'[dev] = Append(queue[dev], e)
            /\ queue' = [d \in Devs |-> IF d = dev THEN Append(queue[dev], e) ELSE queue[d]]
BY DEF Queues, Queued, Devs

LEMMA QueuesGrow ==
  ASSUME Queues, NEW dev \in Devs, NEW e \in EventsOf(dev), queue' = Queued(dev, e), UNCHANGED <<fd, plugged>>
  PROVE  Queues'
<1>1. CASE dev = "pad" /\ fd # "live" /\ queue' = queue
  BY <1>1 DEF Queues, Devs, EventsOf, Events, Buttons
<1>2. CASE (dev = "con" \/ fd = "live")
           /\ queue' = [d \in Devs |-> IF d = dev THEN Append(queue[dev], e) ELSE queue[d]]
  <2>1. Append(queue[dev], e) \in Seq(EventsOf(dev))
    BY DEF Queues
  <2>2. \A d \in Devs : queue'[d] \in Seq(EventsOf(d))
    BY <1>2, <2>1 DEF Queues
  <2>3. fd # "live" => queue'["pad"] = <<>>
    BY <1>2 DEF Queues, Devs
  <2> QED
    BY <1>2, <2>2, <2>3 DEF Queues
<1> QED
  BY <1>1, <1>2, QueuedDoes

\* An appended event is the last.
LEMMA AppendAt ==
  ASSUME NEW E, NEW q \in Seq(E), NEW e \in E, NEW r, r = Append(q, e)
  PROVE  /\ Len(q) + 1 \in DOMAIN r /\ r[Len(q) + 1] = e
         /\ \A i \in DOMAIN q : i \in DOMAIN r /\ r[i] = q[i] /\ i < Len(q) + 1
         /\ \A i \in DOMAIN r : i = Len(q) + 1 \/ i \in DOMAIN q
OBVIOUS

\* A device holds on to what the event does not touch, and holds what the event presses.
LEMMA EventKeeps ==
  ASSUME Queues, Latest, NEW dev \in Devs, NEW e \in EventsOf(dev), queue' = Queued(dev, e), fd' = fd,
         \A d \in Devs : \A b : Holding(d, b) /\ (d = dev => ~Touches(e, b)) => Holding(d, b)',
         \A b \in Buttons : Presses(e, b) => Holding(dev, b)'
  PROVE  Latest' /\ \A d \in Devs : \A b : Says(d, b) => Says(d, b)'
<1>1. CASE dev = "pad" /\ fd # "live" /\ queue' = queue
  <2>1. queue["pad"] = <<>>
    BY <1>1 DEF Queues
  <2>2. Latest'
    BY <1>1, <2>1 DEF Latest, LastTells, Devs
  <2>3. ASSUME NEW d \in Devs, NEW b, Says(d, b) PROVE Says(d, b)'
    BY <1>1, <2>3 DEF Says
  <2> QED
    BY <2>2, <2>3
<1>2. CASE (dev = "con" \/ fd = "live") /\ queue'[dev] = Append(queue[dev], e)
           /\ queue' = [d \in Devs |-> IF d = dev THEN Append(queue[dev], e) ELSE queue[d]]
  <2> DEFINE q == queue[dev]
             n == Len(q) + 1
  <2>1. q \in Seq(EventsOf(dev))
    BY DEF Queues
  <2>2. /\ n \in DOMAIN queue'[dev] /\ queue'[dev][n] = e
        /\ \A i \in DOMAIN q : i \in DOMAIN queue'[dev] /\ queue'[dev][i] = q[i] /\ i < n
        /\ \A i \in DOMAIN queue'[dev] : i = n \/ i \in DOMAIN q
    BY <1>2, <2>1, AppendAt
  <2>3. \A d \in Devs : d # dev => queue'[d] = queue[d]
    BY <1>2
  <2> HIDE DEF n
  <2>4. ASSUME NEW d \in Devs, NEW b \in Buttons, NEW i \in DOMAIN queue'[d], Presses(queue'[d][i], b),
               \A j \in DOMAIN queue'[d] : j > i => ~Touches(queue'[d][j], b)
        PROVE  Holding(d, b)'
    <3>1. CASE d # dev
      <4>1. Holding(d, b)
        BY <2>3, <2>4, <3>1 DEF Latest, LastTells
      <4> QED
        BY <3>1, <4>1
    <3>2. CASE d = dev /\ i = n
      BY <2>2, <2>4, <3>2
    <3>3. CASE d = dev /\ i # n
      <4>1. i \in DOMAIN q /\ Presses(q[i], b) /\ n > i
        BY <2>2, <2>4, <3>3
      <4>2. ~Touches(e, b)
        BY <2>2, <2>4, <3>3, <4>1
      <4>3. \A j \in DOMAIN q : j > i => ~Touches(q[j], b)
        BY <2>2, <2>4, <3>3
      <4>4. Holding(dev, b)
        BY <4>1, <4>3 DEF Latest, LastTells
      <4> QED
        BY <3>3, <4>2, <4>4
    <3> QED
      BY <3>1, <3>2, <3>3
  <2>5. Latest'
    BY <2>4 DEF Latest, LastTells
  <2>6. ASSUME NEW d \in Devs, NEW b, Says(d, b) PROVE Says(d, b)'
    <3>1. CASE \E i \in DOMAIN queue[d] : Touches(queue[d][i], b)
      <4>1. PICK i \in DOMAIN queue[d] : Touches(queue[d][i], b)
        BY <3>1
      <4>2. i \in DOMAIN queue'[d] /\ queue'[d][i] = queue[d][i]
        BY <2>2, <2>3
      <4> QED
        BY <2>6, <4>1, <4>2 DEF Says
    <3>2. CASE Holding(d, b) /\ d = dev /\ Touches(e, b)
      BY <2>2, <2>6, <3>2 DEF Says
    <3>3. CASE Holding(d, b) /\ (d = dev => ~Touches(e, b))
      <4>1. Holding(d, b)'
        BY <3>3
      <4> QED
        BY <2>6, <4>1 DEF Says
    <3> QED
      BY <2>6, <3>1, <3>2, <3>3 DEF Says
  <2> QED
    BY <2>5, <2>6
<1> QED
  BY <1>1, <1>2, QueuedDoes

\* A release of POWER is a cause, and has to be counted.
LEMMA EventOwed ==
  ASSUME Queues, Owed, NEW dev \in Devs, NEW e \in EventsOf(dev), queue' = Queued(dev, e),
         UNCHANGED <<mode, is_open, shut>>, owed' = IF IsWake(e) THEN owed + 1 ELSE owed
  PROVE  Owed'
<1> DEFINE n == Len(queue["con"]) + 1
<1>1. Taps' \subseteq Taps \cup (IF IsWake(e) THEN {n} ELSE {})
  <2>1. CASE dev = "con"
    <3>1. queue'["con"] = Append(queue["con"], e)
      BY <2>1, QueuedDoes
    <3>2. queue["con"] \in Seq(EventsOf("con"))
      BY DEF Queues, Devs
    <3>3. /\ \A i \in DOMAIN queue'["con"] : i = n \/ i \in DOMAIN queue["con"]
          /\ queue'["con"][n] = e /\ \A i \in DOMAIN queue["con"] : queue'["con"][i] = queue["con"][i]
      BY <2>1, <3>1, <3>2, AppendAt
    <3> HIDE DEF n
    <3> QED
      BY <3>3 DEF Taps
  <2>2. CASE dev = "pad"
    <3>1. queue'["con"] = queue["con"]
      BY <2>2, QueuedDoes DEF Devs
    <3> QED
      BY <3>1 DEF Taps
  <2> QED
    BY <2>1, <2>2 DEF Devs
<1> HIDE DEF n
<1>2. Moved' = Moved
  BY DEF Moved
<1>3. CASE IsWake(e)
  BY <1>1, <1>2, <1>3 DEF Owed
<1>4. CASE ~IsWake(e)
  BY <1>1, <1>2, <1>4 DEF Owed
<1> QED
  BY <1>3, <1>4

LEMMA KeyKeeps == ASSUME InputInv, NEW k \in Keys, Key(k) PROVE InputInv'
<1> DEFINE e == [kind |-> "key", btn |-> k.btn, v |-> IF k \in down THEN 0 ELSE 1]
<1>0. Places /\ WorldBits /\ ClockBits /\ PlayBits /\ Hands /\ Queues /\ PadOK /\ VibOK
  BY TypedSplits DEF InputInv
<1>1. k.dev \in Devs /\ e \in EventsOf(k.dev)
  BY InputAssumption DEF InputAssumption, Devs, EventsOf, Events, Buttons
<1>2. queue' = Queued(k.dev, e) /\ UNCHANGED <<fd, plugged, is_open, shut, tilt, power, is_pressed, ghost, swallowed, mode>>
  BY DEF Key, Move, timers
<1>3. down' = IF k \in down THEN down \ {k} ELSE down \cup {k}
  BY DEF Key
<1>4. \A b : (Touches(e, b) <=> b = k.btn) /\ (Presses(e, b) <=> b = k.btn /\ k \notin down)
  BY DEF Touches, Presses
<1>5. owed' = IF IsWake(e) THEN owed + 1 ELSE owed
  BY DEF Key, IsWake, BTN_SLEEP
<1> HIDE DEF e
<1>6. \A d \in Devs : \A b : Holding(d, b) /\ (d = k.dev => ~Touches(e, b)) => Holding(d, b)'
  BY <1>2, <1>3, <1>4 DEF Holding
<1>7. \A b \in Buttons : Presses(e, b) => Holding(k.dev, b)'
  BY <1>2, <1>3, <1>4 DEF Holding
<1>8. Latest' /\ \A d \in Devs : \A b : Says(d, b) => Says(d, b)'
  BY <1>0, <1>1, <1>2, <1>6, <1>7, EventKeeps DEF InputInv
<1>9. Places' /\ Hands' /\ PadOK'
  BY <1>0, <1>2, <1>3, InputAssumption DEF InputAssumption, Places, Hands, PadOK, NeverBoth, NeverHats, DpadKey, Key, Move, timers
<1>10. WorldBits' /\ ClockBits' /\ PlayBits' /\ VibOK'
  BY <1>0 DEF WorldBits, ClockBits, PlayBits, VibOK, Key, Move, timers, play
<1>11. Queues' /\ Owed'
  BY <1>0, <1>1, <1>2, <1>5, QueuesGrow, EventOwed DEF InputInv
<1>12. Kept' /\ Timed'
  BY <1>2, <1>8 DEF InputInv, Kept, Timed, Awake, Devs
<1>13. SavedAsleep' /\ FastOK' /\ ComboOK'
  BY DEF InputInv, SavedAsleep, FastOK, ComboOK, Key, Move, play
<1> QED
  BY <1>8, <1>9, <1>10, <1>11, <1>12, <1>13, TypedNext DEF InputInv

LEMMA TiltKeeps == ASSUME InputInv, NEW a \in Axes, NEW v \in -1..1, Tilt(a, v) PROVE InputInv'
<1> DEFINE e == [kind |-> a.kind, btn |-> "", v |-> v]
<1>0. Places /\ WorldBits /\ ClockBits /\ PlayBits /\ Hands /\ Queues /\ PadOK /\ VibOK
  BY TypedSplits DEF InputInv
<1>1. a.dev \in Devs /\ a.kind \in {"hat", "stick"} /\ e \in EventsOf(a.dev)
  BY InputAssumption DEF InputAssumption, Devs, EventsOf, Events
<1>2. queue' = Queued(a.dev, e)
      /\ UNCHANGED <<fd, plugged, is_open, shut, down, power, is_pressed, ghost, swallowed, mode, owed>>
  BY DEF Tilt, Move, timers, hist
<1>3. tilt' = [tilt EXCEPT ![a] = v] /\ tilt \in [Axes -> -1..1]
  BY <1>0 DEF Tilt, Hands
<1>4. \A b : /\ Touches(e, b) <=> b \in {Neg(a.kind), Pos(a.kind)}
             /\ Presses(e, b) <=> (v = -1 /\ b = Neg(a.kind)) \/ (v = 1 /\ b = Pos(a.kind))
  BY <1>1 DEF Touches, Presses
<1>5. ~IsWake(e)
  BY <1>1 DEF IsWake
<1> HIDE DEF e
<1>6. \A d \in Devs : \A b : Holding(d, b) /\ (d = a.dev => ~Touches(e, b)) => Holding(d, b)'
  BY <1>2, <1>3, <1>4 DEF Holding
<1>7. \A b \in Buttons : Presses(e, b) => Holding(a.dev, b)'
  BY <1>2, <1>3, <1>4 DEF Holding
<1>8. Latest' /\ \A d \in Devs : \A b : Says(d, b) => Says(d, b)'
  BY <1>0, <1>1, <1>2, <1>6, <1>7, EventKeeps DEF InputInv
<1>9. Hands'
  BY <1>0, <1>2, <1>3 DEF Hands
<1>10. /\ moves < MaxMoves /\ moves' = moves + 1
       /\ UNCHANGED <<mode, back, plugged, shut, charger, hdmi, fd, is_open, is_pressed, timers, is_charging, was_charging, play, vib, hist>>
  BY DEF Tilt, Move
<1>14. Places' /\ PadOK'
  BY <1>0, <1>10, InputAssumption DEF InputAssumption, Places, PadOK, NeverBoth, NeverHats, DpadKey, timers, hist
<1>15. WorldBits' /\ ClockBits' /\ PlayBits' /\ VibOK'
  BY <1>0, <1>10 DEF WorldBits, ClockBits, PlayBits, VibOK, timers, play, hist
<1>11. Queues' /\ Owed'
  BY <1>0, <1>1, <1>2, <1>5, QueuesGrow, EventOwed DEF InputInv
<1>12. Kept' /\ Timed'
  BY <1>2, <1>8 DEF InputInv, Kept, Timed, Awake, Devs
<1>13. SavedAsleep' /\ FastOK' /\ ComboOK'
  BY DEF InputInv, SavedAsleep, FastOK, ComboOK, Tilt, Move, play, hist
<1> QED
  BY <1>8, <1>9, <1>11, <1>12, <1>13, <1>14, <1>15, TypedNext DEF InputInv

\* A gamepad that goes leaves its buttons behind, and nothing to read.
LEMMA UnplugKeeps == ASSUME InputInv, Unplug PROVE InputInv'
<1>0. Places /\ WorldBits /\ ClockBits /\ PlayBits /\ Hands /\ Queues /\ PadOK /\ VibOK
  BY TypedSplits DEF InputInv
<1>1. /\ queue' = [queue EXCEPT !["pad"] = <<>>] /\ queue'["con"] = queue["con"] /\ queue'["pad"] = <<>>
      /\ fd' = IF fd = "live" THEN "dead" ELSE fd
  BY <1>0 DEF Unplug, Queues, Devs
<1>2. \A b : Holding("con", b) => Holding("con", b)'
  BY <1>0 DEF Holding, Unplug, Hands
<1>3. \A b : Says("con", b) => Says("con", b)'
  BY <1>1, <1>2 DEF Says
<1>4. ASSUME NEW b \in Buttons, Says("pad", b) PROVE b \in HeldOn("pad")
  <2>1. CASE \E k \in down : k.dev = "pad" /\ k.btn = b
    BY <2>1 DEF HeldOn
  <2>2. CASE \E a \in Axes : a.dev = "pad" /\ b \in {Neg(a.kind), Pos(a.kind)}
    BY <2>2 DEF HeldOn
  <2>3. CASE \E i \in DOMAIN queue["pad"] : Touches(queue["pad"][i], b)
    <3>1. PICK n \in DOMAIN queue["pad"] : Touches(queue["pad"][n], b)
      BY <2>3
    <3>2. queue["pad"][n] \in EventsOf("pad")
      BY <1>0 DEF Queues, Devs
    <3>3. CASE queue["pad"][n].kind = "key"
      <4>1. b \in {queue["pad"][i].btn : i \in DOMAIN queue["pad"]}
        BY <3>1, <3>3 DEF Touches
      <4> QED
        BY <4>1 DEF HeldOn
    <3>4. CASE queue["pad"][n].kind # "key"
      <4>1. PICK a \in Axes : a.dev = "pad" /\ a.kind = queue["pad"][n].kind
        BY <3>2, <3>4 DEF EventsOf
      <4>2. b \in {Neg(a.kind), Pos(a.kind)}
        BY <3>1, <3>4, <4>1 DEF Touches
      <4> QED
        BY <2>2, <4>1, <4>2
    <3> QED
      BY <3>3, <3>4
  <2>4. Holding("pad", b) => \/ \E k \in down : k.dev = "pad" /\ k.btn = b
                            \/ \E a \in Axes : a.dev = "pad" /\ b \in {Neg(a.kind), Pos(a.kind)}
    BY DEF Holding
  <2>5. Holding("pad", b) \/ \E i \in DOMAIN queue["pad"] : Touches(queue["pad"][i], b)
    BY <1>4 DEF Says
  <2> QED
    BY <2>1, <2>2, <2>3, <2>4, <2>5
<1>5. Kept'
  <2> SUFFICES ASSUME mode # "off", NEW b \in is_pressed \ ghost, b \notin HeldOn("pad")
               PROVE  \E d \in Devs : Says(d, b)'
    BY DEF Kept, Unplug
  <2>1. b \in Buttons
    BY <1>0 DEF PadOK, Pads
  <2>2. PICK d \in Devs : Says(d, b)
    BY DEF InputInv, Kept
  <2> QED
    BY <1>3, <1>4, <2>1, <2>2 DEF Devs
<1>6. Latest'
  BY <1>1, <1>2 DEF InputInv, Latest, LastTells, Devs
<1>7. Places' /\ Hands' /\ PadOK'
  BY <1>0, InputAssumption DEF InputAssumption, Places, Hands, PadOK, NeverBoth, NeverHats, DpadKey, Unplug, Move, timers
<1>8. WorldBits' /\ ClockBits' /\ PlayBits' /\ VibOK'
  <2>1. plugged' = FALSE /\ UNCHANGED <<shut, charger, hdmi, is_open, timers, is_charging, was_charging, play, vib, saved, swallowed, combo>>
    BY DEF Unplug
  <2>2. WorldBits'
    BY <1>0, <2>1, Zenon DEF WorldBits
  <2>3. ClockBits' /\ PlayBits' /\ VibOK'
    BY <1>0, <2>1 DEF ClockBits, PlayBits, VibOK, timers, play
  <2> QED
    BY <2>2, <2>3
<1>9. Queues'
  <2>1. <<>> \in Seq(EventsOf("pad"))
    OBVIOUS
  <2>2. queue' = [d \in Devs |-> IF d = "pad" THEN <<>> ELSE queue[d]]
    BY <1>0, <1>1 DEF Queues, Devs
  <2>3. fd' \in {"none", "dead"}
    BY <1>0, <1>1 DEF Queues
  <2> QED
    BY <1>0, <1>1, <2>1, <2>2, <2>3 DEF Queues
<1>10. Owed'
  BY <1>1 DEF InputInv, Owed, Moved, Taps, Unplug
<1>11. Timed'
  BY <1>3 DEF InputInv, Timed, Awake, Unplug, timers
<1>12. SavedAsleep' /\ FastOK' /\ ComboOK'
  BY DEF InputInv, SavedAsleep, FastOK, ComboOK, Unplug, play
<1> QED
  BY <1>5, <1>6, <1>7, <1>8, <1>9, <1>10, <1>11, <1>12, TypedNext DEF InputInv

-----------------------------------------------------------------------------
(* Asleep.                                                                 *)

\* What PLAT_shouldWake leaves is the end of what was there.
LEMMA EatenLeaves ==
  ASSUME Queues, queue' = Eaten
  PROVE  /\ queue' = [d \in Devs |-> queue'[d]] /\ queue'["pad"] \in {<<>>, queue["pad"]}
         /\ \/ queue'["con"] = <<>> /\ queue'["pad"] = <<>>
            \/ \E first \in Taps :
                 /\ queue'["con"] \in Seq(EventsOf("con"))
                 /\ \A i \in DOMAIN queue'["con"] : /\ i \in Nat \ {0} /\ first + i \in DOMAIN queue["con"]
                                                    /\ queue'["con"][i] = queue["con"][first + i]
                 /\ \A j \in DOMAIN queue["con"] : j > first => j - first \in DOMAIN queue'["con"]
<1> DEFINE q == queue["con"]
<1>1. q \in Seq(EventsOf("con")) /\ Taps \subseteq 1..Len(q)
  BY DEF Queues, Devs, Taps
<1>2. CASE Taps = {}
  BY <1>2 DEF Eaten, Devs
<1>3. CASE Taps # {}
  <2> DEFINE first == CHOOSE i \in Taps : \A j \in Taps : i <= j
  <2>1. Taps \subseteq Nat
    BY <1>1
  <2>2. first \in Taps
    BY <1>3, <2>1, NatMin
  <2>3. queue' = [queue EXCEPT !["con"] = SubSeq(q, first + 1, Len(q))]
    BY <1>3 DEF Eaten
  <2> HIDE DEF first
  <2>4. queue' = [d \in Devs |-> IF d = "con" THEN SubSeq(q, first + 1, Len(q)) ELSE queue[d]]
    BY <2>3 DEF Queues, Devs
  <2>5. first \in 1..Len(q)
    BY <1>1, <2>2
  <2> DEFINE r == SubSeq(q, first + 1, Len(q))
  <2>6. r \in Seq(EventsOf("con")) /\ Len(r) = Len(q) - first
    BY <1>1, <2>5
  <2>7. \A i \in 1..Len(r) : r[i] = q[first + i]
    BY <1>1, <2>5, <2>6
  <2>8. queue'["con"] = r /\ queue'["pad"] = queue["pad"]
    BY <2>4 DEF Devs
  <2> HIDE DEF r
  <2>9. \A i \in DOMAIN r : i \in Nat \ {0} /\ first + i \in DOMAIN q /\ r[i] = q[first + i]
    BY <1>1, <2>5, <2>6, <2>7
  <2>10. \A j \in DOMAIN q : j > first => j - first \in DOMAIN r
    BY <1>1, <2>5, <2>6
  <2> QED
    BY <2>2, <2>4, <2>6, <2>8, <2>9, <2>10
<1> QED
  BY <1>2, <1>3

LEMMA EatenKeeps ==
  ASSUME Queues, Latest, queue' = Eaten, UNCHANGED <<down, tilt, fd, plugged>>
  PROVE  /\ Queues' /\ Latest'
         /\ Taps' # {} => \E i, j \in Taps : i # j
<1>1. \A d, b : Holding(d, b)' <=> Holding(d, b)
  BY DEF Holding
<1>2. /\ queue' = [d \in Devs |-> queue'[d]] /\ queue'["pad"] \in {<<>>, queue["pad"]}
  BY EatenLeaves
<1>5. /\ \A d \in Devs : <<>> \in Seq(EventsOf(d))
      /\ queue["pad"] \in Seq(EventsOf("pad")) /\ (fd # "live" => queue'["pad"] = <<>>)
  BY <1>2 DEF Queues, Devs
<1>3. CASE queue'["con"] = <<>> /\ queue'["pad"] = <<>>
  <2>1. Queues'
    BY <1>2, <1>3, <1>5 DEF Queues, Devs
  <2>2. Latest' /\ Taps' = {}
    BY <1>3 DEF Latest, LastTells, Taps, Devs
  <2> QED
    BY <2>1, <2>2
<1>4. ASSUME NEW first \in Taps, queue'["con"] \in Seq(EventsOf("con")),
             \A i \in DOMAIN queue'["con"] : /\ i \in Nat \ {0} /\ first + i \in DOMAIN queue["con"]
                                             /\ queue'["con"][i] = queue["con"][first + i],
             \A j \in DOMAIN queue["con"] : j > first => j - first \in DOMAIN queue'["con"]
      PROVE  Queues' /\ Latest' /\ (Taps' # {} => \E i, j \in Taps : i # j)
  <2>0. first \in Nat /\ \A j \in DOMAIN queue["con"] : j \in Nat
    BY DEF Taps, Queues, Devs
  <2>1. Queues'
    BY <1>2, <1>4, <1>5 DEF Queues, Devs
  <2>2. ASSUME NEW b \in Buttons, NEW i \in DOMAIN queue'["con"], Presses(queue'["con"][i], b),
               \A j \in DOMAIN queue'["con"] : j > i => ~Touches(queue'["con"][j], b)
        PROVE  Holding("con", b)'
    <3>1. first + i \in DOMAIN queue["con"] /\ Presses(queue["con"][first + i], b)
      BY <1>4, <2>2
    <3>2. ASSUME NEW j \in DOMAIN queue["con"], j > first + i PROVE ~Touches(queue["con"][j], b)
      <4>1. j - first \in DOMAIN queue'["con"] /\ j - first > i /\ first + (j - first) = j
        BY <1>4, <2>0, <3>2
      <4> QED
        BY <1>4, <2>2, <4>1
    <3> QED
      BY <1>1, <3>1, <3>2 DEF Latest, LastTells, Devs
  <2>3. Latest'
    BY <1>1, <1>2, <2>2 DEF Latest, LastTells, Devs
  <2>4. ASSUME NEW i \in Taps' PROVE \E k, j \in Taps : k # j
    <3>1. first + i \in Taps /\ first + i # first
      BY <1>4, <2>0 DEF Taps
    <3> QED
      BY <3>1
  <2> QED
    BY <2>1, <2>3, <2>4
<1> QED
  BY <1>3, <1>4, EatenLeaves

\* The console wakes for a cause, with an empty pad and no timer.
LEMMA WaitWakesKeeps == ASSUME InputInv, WaitWakes PROVE InputInv'
<1>0. Places /\ WorldBits /\ ClockBits /\ PlayBits /\ Hands /\ Queues /\ PadOK /\ VibOK
  BY TypedSplits DEF InputInv
<1>1. /\ UNCHANGED <<world, fd, is_pressed, is_charging, was_charging, ghost, slip, combo, moves>>
      /\ UNCHANGED <<back, night, fast_forward, toggled_ff_on, ignore_menu, tap>>
      /\ mode = "sleep" /\ mode' = (IF back = "exit" THEN "game" ELSE back) /\ is_open' = ~shut
      /\ power' = "none" /\ idle' = FALSE /\ saved' = FALSE /\ swallowed' = FALSE /\ owed' = owed - 1
  BY DEF WaitWakes, Wake
<1>2. mode' \in {"game", "menu", "bind"} /\ is_pressed = {}
  BY <1>0, <1>1 DEF Places, InputInv, SavedAsleep
<1>3. ~Moved'
  BY <1>1 DEF Moved, world
<1>4. Queues' /\ Latest' /\ Owed'
  <2>1. CASE Opened /\ UNCHANGED queue
    <3>1. Queues' /\ Latest' /\ Taps' = Taps
      BY <1>0, <1>1, <2>1 DEF InputInv, Queues, Latest, LastTells, Holding, Taps, world
    <3>2. Moved
      BY <1>0, <2>1 DEF Opened, Moved, WorldBits, ClockBits
    <3> QED
      BY <1>1, <1>2, <1>3, <3>1, <3>2 DEF InputInv, Owed
  <2>2. CASE ~Opened /\ ~shut /\ Taps # {} /\ queue' = Eaten
    <3>1. Queues' /\ Latest' /\ (Taps' # {} => \E i, j \in Taps : i # j)
      BY <1>0, <1>1, <2>2, EatenKeeps DEF InputInv, world
    <3> QED
      BY <1>1, <1>2, <1>3, <2>2, <3>1 DEF InputInv, Owed
  <2> QED
    BY <2>1, <2>2 DEF WaitWakes
<1>5. Places' /\ Hands' /\ PadOK'
  BY <1>0, <1>1, <1>2 DEF Places, Hands, PadOK, NeverBoth, NeverHats, DpadKey, world
<1>6. WorldBits' /\ ClockBits'
  BY <1>0, <1>1 DEF WorldBits, ClockBits, world
<1>7. PlayBits'
  BY <1>0, <1>1 DEF PlayBits
<1>8. VibOK'
  BY <1>0 DEF VibOK, WaitWakes, Wake, Rumbles
<1>9. Kept' /\ Timed' /\ SavedAsleep'
  BY <1>1, <1>2 DEF Kept, Timed, SavedAsleep
<1>10. FastOK' /\ ComboOK'
  BY <1>1 DEF InputInv, FastOK, ComboOK
<1> QED
  BY <1>4, <1>5, <1>6, <1>7, <1>8, <1>9, <1>10, TypedNext DEF InputInv

LEMMA WaitSleepsKeeps == ASSUME InputInv, WaitSleeps PROVE InputInv'
<1>0. Places /\ WorldBits /\ ClockBits /\ PlayBits /\ Hands /\ Queues /\ PadOK /\ VibOK
  BY TypedSplits DEF InputInv
<1>1. /\ UNCHANGED <<back, world, fd, is_pressed, power, idle, is_charging, was_charging, play, vib, hist, moves>>
      /\ mode = "sleep" /\ mode' \in {"sleep", "off"} /\ is_open' = ~shut /\ night' = FALSE /\ queue' = Eaten
  BY DEF WaitSleeps
<1>2. is_pressed = {} /\ saved
  BY <1>1 DEF InputInv, SavedAsleep
<1>3. ~Moved'
  BY <1>1 DEF Moved, world
<1>4. Queues' /\ Latest' /\ (Taps' # {} => \E i, j \in Taps : i # j)
  BY <1>0, <1>1, EatenKeeps DEF InputInv, world
<1>5. Owed'
  BY <1>1, <1>3, <1>4 DEF InputInv, Owed, hist
<1>6. Places' /\ Hands' /\ PadOK'
  BY <1>0, <1>1 DEF Places, Hands, PadOK, NeverBoth, NeverHats, DpadKey, world, hist
<1>7. WorldBits' /\ ClockBits'
  BY <1>0, <1>1 DEF WorldBits, ClockBits, world
<1>8. PlayBits' /\ VibOK'
  BY <1>0, <1>1 DEF PlayBits, VibOK, play, hist
<1>9. Kept' /\ Timed' /\ SavedAsleep'
  BY <1>1, <1>2 DEF Kept, Timed, Awake, SavedAsleep, hist
<1>10. FastOK' /\ ComboOK'
  BY <1>1 DEF InputInv, FastOK, ComboOK, play, hist
<1> QED
  BY <1>4, <1>5, <1>6, <1>7, <1>8, <1>9, <1>10, TypedNext DEF InputInv

-----------------------------------------------------------------------------
(* Frames.                                                                 *)

\* After a frame every event has been read, and every button the pad keeps is held.
LEMMA FrameKeeps ==
  ASSUME InputInv, mode # "off", NEW checks, NEW p, PollTells(p, checks), Polls(checks), UNCHANGED world,
         \/ is_pressed' = p.is /\ ghost' = ghost \cap p.is
         \/ is_pressed' = {} /\ ghost' = {}
         \/ UNCHANGED <<is_pressed, ghost>> /\ mode' = "off",
         owed' \in Nat
  PROVE  /\ WorldBits' /\ is_open' \in BOOLEAN /\ Hands' /\ Queues' /\ PadOK'
         /\ Latest' /\ Kept' /\ Owed'
         /\ Holding("con", "POWER") => Says("con", "POWER")'
<1>0. WorldBits /\ Hands /\ Queues /\ PadOK
  BY TypedSplits DEF InputInv
<1>1. WorldBits' /\ is_open' \in BOOLEAN /\ Hands'
  BY <1>0 DEF WorldBits, Hands, world, Polls
<1>2. /\ queue' = [d \in Devs |-> <<>>] /\ fd' = CheckForGamepad(checks) /\ is_open' = ~shut
      /\ UNCHANGED <<down, tilt, plugged, shut>>
  BY DEF Polls, Devs, world
<1>3. Queues'
  <2>1. \A d \in Devs : <<>> \in Seq(EventsOf(d))
    OBVIOUS
  <2>2. fd' \in {"none", "live", "dead"} /\ (fd' = "live" => plugged)
    BY <1>0, <1>2 DEF Queues, CheckForGamepad
  <2> QED
    BY <1>2, <2>1, <2>2 DEF Queues, Devs
<1>4. Latest' /\ Taps' = {} /\ ~Moved'
  BY <1>2 DEF Latest, LastTells, Taps, Moved, Devs
<1>5. Owed'
  BY <1>4 DEF Owed
<1>6. \A d, b : Holding(d, b)' <=> Holding(d, b)
  BY <1>2 DEF Holding
<1>7. PadOK'
  BY <1>0 DEF PadOK, PollTells, PadState, NeverBoth, NeverHats, Pads, DpadKey
<1>8. Kept'
  <2>1. CASE is_pressed' = p.is /\ ghost' = ghost \cap p.is
    <3>1. ASSUME NEW b \in p.is \ ghost PROVE \E d \in Devs : Says(d, b)'
      <4>1. PICK d \in Devs : (d = "pad" => CheckForGamepad(checks) = "live") /\ Holding(d, b)
        BY DEF PollTells
      <4> QED
        BY <1>2, <1>6, <4>1 DEF Says
    <3> QED
      BY <2>1, <3>1 DEF Kept
  <2> QED
    BY <2>1 DEF Kept
<1>9. Holding("con", "POWER") => Says("con", "POWER")'
  BY <1>6 DEF Says
<1> QED
  BY <1>1, <1>3, <1>4, <1>5, <1>7, <1>8, <1>9

\* The power-off timer, after a frame.
LEMMA TimerFollows ==
  ASSUME InputInv, Awake, NEW checks, NEW p, PollTells(p, checks),
         Holding("con", "POWER") => Says("con", "POWER")',
         \/ power' = PowerNow(p) /\ swallowed' = (swallowed /\ "POWER" \notin p.jp) /\ "POWER" \notin p.jr
         \/ power' = power /\ Drops(p)
  PROVE  Timed'
<1> SUFFICES ASSUME power' # "none", ~swallowed' PROVE Says("con", "POWER")'
  BY DEF Timed
<1>1. "POWER" \notin p.jr
  BY DEF Drops, BTN_SLEEP
<1>2. "POWER" \in p.jp \/ (power # "none" /\ ~swallowed)
  BY DEF PowerNow, Drops
<1>3. "POWER" \in p.jp \/ Says("con", "POWER")
  BY <1>2 DEF InputInv, Timed
<1> QED
  BY <1>1, <1>3 DEF PollTells

\* Going to sleep and powering off, from a frame that polled.
LEMMA FauxSleepKeeps ==
  ASSUME InputInv, Awake, NEW checks, NEW p, PollTells(p, checks), Polls(checks),
         NEW next \in {"game", "menu", "bind", "exit"}, Sleeps(p), FauxSleep(p, next),
         UNCHANGED <<world, is_charging, moves>>
  PROVE  InputInv'
<1>0. Places /\ WorldBits /\ ClockBits /\ PlayBits /\ Hands /\ Queues /\ PadOK /\ VibOK
  BY TypedSplits DEF InputInv
<1>1. owed' \in Nat
  BY DEF InputInv, Owed, PollTells, Sleeps, FauxSleep, BTN_SLEEP
<1>2. is_pressed' = {} /\ ghost' = {} /\ mode' = "sleep" /\ saved' = TRUE /\ mode # "off"
  BY DEF FauxSleep, Reset, Awake
<1>3. WorldBits' /\ is_open' \in BOOLEAN /\ Hands' /\ Queues' /\ PadOK' /\ Latest' /\ Kept' /\ Owed'
  BY <1>1, <1>2, FrameKeeps
<1>4. Places'
  BY <1>0 DEF Places, FauxSleep, PowerNow, Slips
<1>5. ClockBits' /\ VibOK'
  BY <1>0, <1>3 DEF ClockBits, VibOK, FauxSleep
<1>6. PlayBits'
  BY <1>0 DEF PlayBits, FauxSleep, play
<1>7. Timed' /\ SavedAsleep'
  BY <1>2 DEF Timed, Awake, SavedAsleep
<1>8. FastOK' /\ ComboOK'
  BY DEF InputInv, FastOK, ComboOK, FauxSleep, Slips, play
<1> QED
  BY <1>3, <1>4, <1>5, <1>6, <1>7, <1>8, TypedNext DEF InputInv

LEMMA HeldPowerOffKeeps ==
  ASSUME InputInv, Awake, NEW checks, NEW p, PollTells(p, checks), Polls(checks), HeldPowerOff,
         UNCHANGED <<world, is_charging, moves>>
  PROVE  InputInv'
<1>0. Places /\ WorldBits /\ ClockBits /\ PlayBits /\ Hands /\ Queues /\ PadOK /\ VibOK
  BY TypedSplits DEF InputInv
<1>1. owed' \in Nat /\ mode' = "off" /\ mode # "off" /\ saved' = TRUE /\ UNCHANGED <<is_pressed, ghost>>
  BY DEF InputInv, Owed, HeldPowerOff, Awake
<1>2. WorldBits' /\ is_open' \in BOOLEAN /\ Hands' /\ Queues' /\ PadOK' /\ Latest' /\ Kept' /\ Owed'
  BY <1>1, FrameKeeps
<1>3. Places' /\ VibOK'
  BY <1>0 DEF Places, VibOK, HeldPowerOff, timers
<1>4. ClockBits' /\ PlayBits'
  BY <1>0, <1>2 DEF ClockBits, PlayBits, HeldPowerOff, timers, play
<1>5. Timed' /\ SavedAsleep'
  BY <1>1 DEF Timed, Awake, SavedAsleep
<1>6. FastOK' /\ ComboOK'
  BY <1>1 DEF InputInv, FastOK, ComboOK, HeldPowerOff, play
<1> QED
  BY <1>2, <1>3, <1>4, <1>5, <1>6, TypedNext DEF InputInv

\* Fast forward after a frame of the game.
LEMMA FastFollows ==
  ASSUME InputInv, mode = "game", NEW checks, NEW p, PollTells(p, checks),
         toggled_ff_on' = ToggledNow(p), fast_forward' = FastForwardNow(p), slip' = SlipNow(p),
         \/ ~Opens(p) /\ is_pressed' = p.is /\ mode' = "game"
         \/ Opens(p) /\ mode' = "menu"
  PROVE  FastOK'
<1> DEFINE H == HOLD_FF.btn
<1>0. /\ H \in p.is => H \in is_pressed \cup p.jp
      /\ H \in is_pressed => H \in p.is \cup p.jr
      /\ H \in p.jp => H \in p.is \cup p.jr
  BY DEF PollTells
<1>1. FastOK
  BY DEF InputInv
<1>2. CASE Toggles(p)
  BY <1>2 DEF FastOK, ToggledNow, FastForwardNow
<1>3. CASE ~Toggles(p) /\ Holds(p)
  <2>1. toggled_ff_on' = toggled_ff_on /\ (fast_forward' <=> H \in p.is)
    BY <1>3, Zenon DEF ToggledNow, FastForwardNow
  <2>2. ASSUME toggled_ff_on, H \notin p.is PROVE slip' = "tap"
    BY <1>0, <1>3, <2>2 DEF Holds, SlipNow
  <2>3. ASSUME H \in p.is, slip' = "none" PROVE mode' = "game" /\ H \in is_pressed'
    <3>1. ~Unseen(p)
      BY <1>0, <1>3, <2>3 DEF SlipNow
    <3>2. ~Opens(p)
      BY <2>3, <3>1 DEF Unseen
    <3> QED
      BY <2>3, <3>2
  <2> QED
    BY <2>1, <2>2, <2>3 DEF FastOK
<1>4. CASE ~Toggles(p) /\ ~Holds(p)
  <2>1. toggled_ff_on' = toggled_ff_on /\ fast_forward' = fast_forward
    BY <1>4 DEF ToggledNow, FastForwardNow
  <2>2. slip = "tap" => slip' = "tap"
    BY <1>4 DEF SlipNow
  <2>3. ASSUME fast_forward, ~toggled_ff_on, slip' = "none" PROVE mode' = "game" /\ H \in is_pressed'
    <3>1. slip = "none"
      BY <1>4, <2>3 DEF SlipNow
    <3>2. H \in is_pressed
      BY <1>1, <2>3, <3>1 DEF FastOK
    <3>3. ~Unseen(p)
      BY <1>4, <2>3, <3>1, <3>2 DEF SlipNow
    <3>4. H \in p.is
      BY <1>0, <1>4, <2>3, <3>2, <3>3 DEF Unseen, Holds
    <3> QED
      BY <3>3, <3>4 DEF Unseen
  <2> QED
    BY <1>1, <2>1, <2>2, <2>3 DEF FastOK
<1> QED
  BY <1>2, <1>3, <1>4

LEMMA GameFrameKeeps == ASSUME InputInv, NEW checks \in BOOLEAN, GameFrame(checks) PROVE InputInv'
<1> DEFINE p == Poll(checks)
<1>0. Places /\ WorldBits /\ ClockBits /\ PlayBits /\ Hands /\ Queues /\ PadOK /\ VibOK
  BY TypedSplits DEF InputInv
<1>1. mode = "game" /\ Awake /\ Polls(checks) /\ UNCHANGED <<world, is_charging, moves>>
  BY DEF GameFrame, Awake
<1>2. PollTells(p, checks)
  BY <1>1, PollDoes
<1> HIDE DEF p
<1>3. CASE HeldPowerOff
  BY <1>1, <1>2, <1>3, HeldPowerOffKeeps
<1>4. CASE Sleeps(p) /\ FauxSleep(p, "game")
  BY <1>1, <1>2, <1>4, FauxSleepKeeps
<1>5. CASE /\ Continues(p)
           /\ Updates(p)
           /\ toggled_ff_on' = ToggledNow(p)
           /\ fast_forward' = FastForwardNow(p)
           /\ ignore_menu' = (IgnoreNow(p) \/ \E c \in Told(p) : c.mod)
           /\ buttons' = {c.retro : c \in Told(p)}
           /\ \/ ~Opens(p) /\ is_pressed' = p.is /\ ghost' = ghost \cap p.is /\ UNCHANGED <<mode, vib>>
              \/ Opens(p) /\ mode' = "menu" /\ Reset(p) /\ vib' = [vib EXCEPT !.kept = vib.strength, !.queued = 0]
           /\ slip' = SlipNow(p)
           /\ combo' = (("MENU" \notin p.jp /\ combo) \/ Brightness(p) \/ \E m \in Others \cup {TOGGLE_FF} : With(m, p))
           /\ saved' = FALSE
           /\ UNCHANGED <<back, tap, owed>>
  <2>1. owed' \in Nat /\ mode # "off"
    BY <1>1, <1>5 DEF InputInv, Owed
  <2>2. /\ WorldBits' /\ is_open' \in BOOLEAN /\ Hands' /\ Queues' /\ PadOK' /\ Latest' /\ Kept' /\ Owed'
        /\ Holding("con", "POWER") => Says("con", "POWER")'
    BY <1>1, <1>2, <1>5, <2>1, FrameKeeps DEF Reset
  <2>3. "POWER" \notin p.jr
    BY <1>5 DEF Continues, Sleeps, BTN_SLEEP
  <2>4. Timed'
    BY <1>1, <1>2, <1>5, <2>2, <2>3, TimerFollows DEF Updates
  <2>5. FastOK'
    BY <1>1, <1>2, <1>5, FastFollows
  <2>6. ComboOK'
    BY <1>5 DEF InputInv, ComboOK, IgnoreNow, Brightness, With, Breaks, Armed
  <2>7. Places'
    BY <1>0, <1>1, <1>5 DEF Places, Updates, PowerNow, SlipNow
  <2>8. ClockBits'
    BY <1>0, <1>1, <1>5, <2>2 DEF ClockBits, Updates, IdleNow
  <2>9. PlayBits'
    <3>1. toggled_ff_on' \in BOOLEAN
      BY <1>0, <1>5, Zenon DEF PlayBits, ToggledNow
    <3>2. fast_forward' \in BOOLEAN
      <4>1. \/ fast_forward' = ~fast_forward
            \/ fast_forward' = (HOLD_FF.btn \in p.is)
            \/ fast_forward' = fast_forward
        BY <1>5, Zenon DEF FastForwardNow
      <4>2. (HOLD_FF.btn \in p.is) \in BOOLEAN /\ fast_forward \in BOOLEAN
        BY <1>0 DEF PlayBits
      <4>3. (~fast_forward) \in BOOLEAN
        OBVIOUS
      <4> QED
        BY <4>1, <4>2, <4>3, Zenon
    <3>3. ignore_menu' \in BOOLEAN /\ combo' \in BOOLEAN
      BY <1>5, Zenon
    <3>4. swallowed' \in BOOLEAN /\ tap' \in BOOLEAN /\ saved' \in BOOLEAN
      BY <1>0, <1>5, Zenon DEF PlayBits, Updates
    <3> QED
      BY <3>1, <3>2, <3>3, <3>4 DEF PlayBits
  <2>10. VibOK'
    <3>1. vib.strength \in 0..1 /\ 0 \in 0..1
      BY <1>0 DEF VibOK
    <3>2. vib' = vib \/ vib' = [vib EXCEPT !.kept = vib.strength, !.queued = 0]
      BY <1>5
    <3> QED
      BY <1>0, <3>1, <3>2 DEF VibOK
  <2>11. SavedAsleep'
    BY <1>1, <1>5 DEF SavedAsleep
  <2> QED
    BY <2>2, <2>4, <2>5, <2>6, <2>7, <2>8, <2>9, <2>10, <2>11, TypedNext DEF InputInv
<1> QED
  BY <1>3, <1>4, <1>5 DEF GameFrame, p

\* Where a frame of the menu goes on.
LEMMA RumblesTyped == ASSUME VibOK, NEW leaves, Rumbles(leaves) PROVE VibOK'
<1>1. vib.kept \in 0..1
  BY DEF VibOK
<1>2. vib' = vib \/ vib' = [vib EXCEPT !.queued = vib.kept]
  BY DEF Rumbles
<1> QED
  BY <1>1, <1>2 DEF VibOK

LEMMA MenuFrameKeeps ==
  ASSUME InputInv, NEW checks \in BOOLEAN, NEW next \in {"menu", "bind", "exit"}, MenuFrame(checks, next)
  PROVE  InputInv'
<1> DEFINE p == Poll(checks)
<1>0. Places /\ WorldBits /\ ClockBits /\ PlayBits /\ Hands /\ Queues /\ PadOK /\ VibOK
  BY TypedSplits DEF InputInv
<1>1. /\ mode \in {"menu", "deferred"} /\ Awake /\ mode # "off"
      /\ Polls(checks) /\ UNCHANGED <<world, is_charging, moves>>
  BY DEF MenuFrame, Goes, Awake
<1>2. PollTells(p, checks)
  BY <1>1, PollDoes
<1> HIDE DEF p
<1>3. CASE HeldPowerOff
  BY <1>1, <1>2, <1>3, HeldPowerOffKeeps
<1>4. CASE Sleeps(p) /\ FauxSleep(p, next)
  BY <1>1, <1>2, <1>4, FauxSleepKeeps
<1>5. CASE /\ Continues(p) /\ Updates(p) /\ Going(p, next) /\ tap' = TapNow(p)
           /\ UNCHANGED <<back, fast_forward, toggled_ff_on, ignore_menu, buttons, saved, slip, combo, owed>>
  <2>1. owed' \in Nat
    BY <1>5 DEF InputInv, Owed
  <2>2. \/ is_pressed' = p.is /\ ghost' = ghost \cap p.is
        \/ is_pressed' = {} /\ ghost' = {}
    BY <1>5 DEF Going, Reset
  <2>3. /\ WorldBits' /\ is_open' \in BOOLEAN /\ Hands' /\ Queues' /\ PadOK' /\ Latest' /\ Kept' /\ Owed'
        /\ Holding("con", "POWER") => Says("con", "POWER")'
    BY <1>1, <1>2, <2>1, <2>2, FrameKeeps
  <2>4. "POWER" \notin p.jr
    BY <1>5 DEF Continues, Sleeps, BTN_SLEEP
  <2>5. Timed'
    BY <1>1, <1>2, <1>5, <2>3, <2>4, TimerFollows DEF Updates
  <2>6. mode' \in {"game", "menu", "bind"}
    BY <1>5 DEF Going
  <2>7. FastOK' /\ ComboOK' /\ SavedAsleep'
    BY <1>1, <1>5, <2>6 DEF InputInv, FastOK, ComboOK, SavedAsleep
  <2>8. Places'
    BY <1>0, <1>1, <1>5, <2>6 DEF Places, Updates, PowerNow
  <2>9. ClockBits'
    BY <1>0, <1>1, <1>5, <2>3 DEF ClockBits, Updates, IdleNow
  <2>10. PlayBits'
    <3>1. tap' \in BOOLEAN
      BY <1>0, <1>5 DEF TapNow
    <3>2. swallowed' \in BOOLEAN
      BY <1>0, <1>5, Zenon DEF PlayBits, Updates
    <3> QED
      BY <1>0, <1>5, <3>1, <3>2 DEF PlayBits
  <2>11. VibOK'
    BY <1>0, <1>5, RumblesTyped DEF Going
  <2> QED
    BY <2>3, <2>5, <2>7, <2>8, <2>9, <2>10, <2>11, TypedNext DEF InputInv
<1> QED
  BY <1>3, <1>4, <1>5 DEF MenuFrame, p

\* A frame that polls and leaves PWR_update out.
LEMMA DropFrameKeeps ==
  ASSUME InputInv, NEW checks, NEW p, PollTells(p, checks), Polls(checks), Drops(p),
         mode \in {"menu", "bind", "deferred"}, mode' \in {"game", "menu", "bind", "deferred"},
         \/ is_pressed' = p.is /\ ghost' = ghost \cap p.is
         \/ is_pressed' = {} /\ ghost' = {},
         tap' \in BOOLEAN, VibOK',
         UNCHANGED <<back, world, timers, is_charging, was_charging, fast_forward, toggled_ff_on, ignore_menu, saved, slip, combo, owed, moves>>
  PROVE  InputInv'
<1>0. Places /\ WorldBits /\ ClockBits /\ PlayBits /\ Hands /\ Queues /\ PadOK /\ VibOK
  BY TypedSplits DEF InputInv
<1>1. Awake /\ mode # "off" /\ owed' \in Nat
  BY DEF Awake, InputInv, Owed
<1>2. /\ WorldBits' /\ is_open' \in BOOLEAN /\ Hands' /\ Queues' /\ PadOK' /\ Latest' /\ Kept' /\ Owed'
      /\ Holding("con", "POWER") => Says("con", "POWER")'
  BY <1>1, FrameKeeps
<1>3. Timed'
  BY <1>1, <1>2, TimerFollows DEF timers
<1>4. FastOK' /\ ComboOK' /\ SavedAsleep'
  BY DEF InputInv, FastOK, ComboOK, SavedAsleep
<1>5. Places'
  BY <1>0 DEF Places, timers
<1>6. ClockBits'
  BY <1>0, <1>2 DEF ClockBits, timers
<1>7. PlayBits'
  <2>1. swallowed' \in BOOLEAN
    BY <1>0, Zenon DEF PlayBits, Drops
  <2> QED
    BY <1>0, <2>1 DEF PlayBits
<1> QED
  BY <1>2, <1>3, <1>4, <1>5, <1>6, <1>7, TypedNext DEF InputInv

LEMMA MenuConfirmKeeps == ASSUME InputInv, NEW checks \in BOOLEAN, MenuConfirm(checks) PROVE InputInv'
<1> DEFINE p == Poll(checks)
<1>0. VibOK /\ PlayBits
  BY TypedSplits DEF InputInv
<1>1. /\ mode = "menu" /\ Polls(checks) /\ Going(p, "exit") /\ tap' = TapNow(p) /\ Drops(p)
      /\ UNCHANGED <<back, world, timers, is_charging, was_charging, fast_forward, toggled_ff_on, ignore_menu, saved, slip, combo, owed, moves>>
  BY DEF MenuConfirm
<1>2. PollTells(p, checks)
  BY <1>1, PollDoes
<1> HIDE DEF p
<1>3. tap' \in BOOLEAN
  BY <1>0, <1>1 DEF TapNow
<1>4. is_pressed' = {} /\ ghost' = {} /\ mode' = "game" /\ VibOK'
  BY <1>0, <1>1, RumblesTyped DEF Going, Reset
<1> QED
  BY <1>1, <1>2, <1>3, <1>4, DropFrameKeeps

LEMMA BindFrameKeeps == ASSUME InputInv, NEW checks \in BOOLEAN, BindFrame(checks) PROVE InputInv'
<1> DEFINE p == Poll(checks)
<1>0. VibOK /\ PlayBits
  BY TypedSplits DEF InputInv
<1>1. /\ mode = "bind" /\ Polls(checks) /\ mode' \in {"bind", "deferred"} /\ Drops(p)
      /\ is_pressed' = p.is /\ ghost' = ghost \cap p.is /\ UNCHANGED <<play, vib>>
      /\ UNCHANGED <<back, world, timers, is_charging, was_charging, saved, slip, combo, owed, moves>>
  BY DEF BindFrame
<1>2. PollTells(p, checks)
  BY <1>1, PollDoes
<1> HIDE DEF p
<1>3. tap' \in BOOLEAN /\ VibOK' /\ UNCHANGED <<fast_forward, toggled_ff_on, ignore_menu>>
  BY <1>0, <1>1 DEF PlayBits, VibOK, play
<1> QED
  BY <1>1, <1>2, <1>3, DropFrameKeeps

LEMMA DeferredFrameKeeps == ASSUME InputInv, NEW checks \in BOOLEAN, DeferredFrame(checks) PROVE InputInv'
<1> DEFINE p == Poll(checks)
<1>0. VibOK /\ PlayBits
  BY TypedSplits DEF InputInv
<1>1. /\ mode = "deferred" /\ Polls(checks) /\ mode' \in {"menu", "deferred", "bind"} /\ Drops(p)
      /\ is_pressed' = p.is /\ ghost' = ghost \cap p.is /\ UNCHANGED <<play, vib>>
      /\ UNCHANGED <<back, world, timers, is_charging, was_charging, saved, slip, combo, owed, moves>>
  BY DEF DeferredFrame
<1>2. PollTells(p, checks)
  BY <1>1, PollDoes
<1> HIDE DEF p
<1>3. tap' \in BOOLEAN /\ VibOK' /\ UNCHANGED <<fast_forward, toggled_ff_on, ignore_menu>>
  BY <1>0, <1>1 DEF PlayBits, VibOK, play
<1> QED
  BY <1>1, <1>2, <1>3, DropFrameKeeps

-----------------------------------------------------------------------------
(* The invariant, and what follows from it.                                *)

LEMMA InitInv == Init => InputInv
<1> SUFFICES ASSUME Init PROVE InputInv
  OBVIOUS
<1>1. Places /\ Hands
  BY InputAssumption DEF InputAssumption, Init, Places, Hands
<1>2. WorldBits
  <2>1. PICK st \in Starts : plugged = st.plugged /\ charger = st.charger /\ hdmi = st.hdmi
    BY DEF Init
  <2>2. st \in [plugged : BOOLEAN, charger : BOOLEAN, hdmi : BOOLEAN]
    BY InputAssumption DEF InputAssumption
  <2> QED
    BY <2>1, <2>2 DEF WorldBits, Init
<1>3. ClockBits /\ PlayBits
  BY <1>2 DEF Init, ClockBits, PlayBits, WorldBits
<1>4. Queues
  <2>1. queue = [d \in Devs |-> <<>>] /\ \A d \in Devs : <<>> \in Seq(EventsOf(d))
    BY DEF Init, Devs
  <2> QED
    BY <2>1 DEF Init, Queues, Devs
<1>5. PadOK /\ VibOK
  BY InputAssumption DEF InputAssumption, Init, PadOK, VibOK, NeverBoth, NeverHats, Pads
<1>6. Latest /\ Kept /\ Timed
  BY DEF Init, Latest, LastTells, Kept, Timed, Devs
<1>7. Owed
  <2>1. queue["con"] = <<>> /\ is_open = ~shut /\ owed = 0
    BY DEF Init
  <2>2. Taps = {} /\ ~Moved
    BY <2>1 DEF Taps, Moved
  <2> QED
    BY <2>1, <2>2 DEF Owed
<1>8. SavedAsleep /\ FastOK /\ ComboOK
  BY DEF Init, SavedAsleep, FastOK, ComboOK
<1> QED
  BY <1>1, <1>2, <1>3, <1>4, <1>5, <1>6, <1>7, <1>8, TypedSplits DEF InputInv

LEMMA InvStep == InputInv /\ [Next]_vars => InputInv'
<1> SUFFICES ASSUME InputInv, [Next]_vars PROVE InputInv'
  OBVIOUS
<1>1. CASE Player
  BY <1>1, KeyKeeps, TiltKeeps, UnplugKeeps, PlugKeeps, LidKeeps, ChargerKeeps, CoreRumbleKeeps DEF Player
<1>2. CASE Frame
  BY <1>2, GameFrameKeeps, MenuFrameKeeps, MenuConfirmKeeps, BindFrameKeeps, DeferredFrameKeeps DEF Frame
<1>3. CASE Asleep \/ BatteryPoll \/ VibThread \/ Elapse
  BY <1>3, WaitWakesKeeps, WaitSleepsKeeps, BatteryPollKeeps, VibThreadKeeps, ElapseHoldKeeps,
     ElapseIdleKeeps, ElapseNightKeeps DEF Asleep, Elapse
<1>4. CASE UNCHANGED vars
  <2>1. UNCHANGED <<mode, back, down, tilt, plugged, shut, charger, hdmi, queue, fd, is_open, is_pressed, power, idle, night,
                    is_charging, was_charging, fast_forward, toggled_ff_on, ignore_menu, tap, buttons, vib,
                    saved, ghost, swallowed, slip, combo, owed, moves>>
    BY <1>4 DEF vars, world, timers, play, hist
  <2>2. Typed'
    <3>1. Places /\ WorldBits /\ ClockBits /\ PlayBits /\ Hands /\ Queues /\ PadOK /\ VibOK
      BY TypedSplits DEF InputInv
    <3>2. Places' /\ WorldBits' /\ ClockBits' /\ PlayBits'
      BY <2>1, <3>1 DEF Places, WorldBits, ClockBits, PlayBits
    <3>3. Hands' /\ Queues' /\ PadOK' /\ VibOK'
      BY <2>1, <3>1 DEF Hands, Queues, PadOK, VibOK, NeverBoth, NeverHats, DpadKey
    <3> QED
      BY <3>2, <3>3, TypedNext
  <2> QED
    BY <2>1, <2>2, SamePlay DEF Untouched, hist
<1> QED
  BY <1>1, <1>2, <1>3, <1>4 DEF Next

\* What the pad, the wake loop and the shortcuts rest on, in every state.
THEOREM InputKeeps == Spec => []InputInv
BY InitInv, InvStep, PTL DEF Spec

\* Every button the pad reports is held, or its release waits to be read, but for those of a lost
\* gamepad; fast forward has a cause (PLAT_pollInput, PAD_reset, input_poll_callback).
THEOREM ButtonsAlwaysFollow == Spec => []ButtonsFollow
<1>1. InputInv => NoStuckButton
  <2> SUFFICES ASSUME InputInv, mode # "off", NEW b \in is_pressed \ ghost PROVE Held(b)
    BY DEF NoStuckButton
  <2>1. PICK d \in Devs : Says(d, b)
    BY DEF InputInv, Kept
  <2> QED
    BY <2>1 DEF Says, Held, Devs
<1>2. InputInv => FastForwardHasReason
  BY DEF InputInv, FastOK, FastForwardHasReason
<1>3. InputInv => ButtonsFollow
  BY <1>1, <1>2 DEF InputInv, Typed, ButtonsFollow
<1> QED
  BY <1>3, InputKeeps, PTL

\* The console turns no more often than it is told to, the power-off timer runs for a held POWER,
\* and power goes off only after a save (PWR_update, PWR_waitForWake, PLAT_shouldWake).
THEOREM PowerAlwaysSafe == Spec => []PowerIsSafe
<1>1. InputInv => OneTurnPerCause /\ PowerOffSaved
  BY DEF InputInv, Owed, SavedAsleep, OneTurnPerCause, PowerOffSaved
<1>2. InputInv => PowerTimerMeansHeld
  BY DEF InputInv, Timed, Says, Held, PowerTimerMeansHeld
<1>3. InputInv => PowerIsSafe
  BY <1>1, <1>2 DEF PowerIsSafe
<1> QED
  BY <1>3, InputKeeps, PTL

\* The end of a MENU press used with another button never opens the menu (ignore_menu).
THEOREM ComboNeverOpens == Spec => NoMenuAfterCombo
<1>1. InputInv /\ [Next]_vars => [mode = "game" /\ mode' = "menu" => ~combo']_vars
  <2> SUFFICES ASSUME InputInv, Next, mode = "game", mode' = "menu" PROVE ~combo'
    OBVIOUS
  <2>1. PICK checks \in BOOLEAN : GameFrame(checks)
    BY DEF Next, Player, Frame, Asleep, Elapse, Key, Tilt, Unplug, Plug, Lid, Charger, CoreRumble, Move, MenuFrame, Goes,
           MenuConfirm, BindFrame, DeferredFrame, WaitWakes, WaitSleeps, BatteryPoll, VibThread, ElapseHold, ElapseIdle,
           ElapseNight, Same
  <2> DEFINE p == Poll(checks)
  <2>2. /\ Opens(p)
        /\ combo' = (("MENU" \notin p.jp /\ combo) \/ Brightness(p) \/ \E m \in Others \cup {TOGGLE_FF} : With(m, p))
    BY <2>1 DEF GameFrame, HeldPowerOff, FauxSleep
  <2> HIDE DEF p
  <2> QED
    BY <2>2 DEF InputInv, ComboOK, Opens, IgnoreNow, Brightness, With, Breaks, Armed
<1> QED
  BY <1>1, InputKeeps, PTL DEF Spec, NoMenuAfterCombo

-----------------------------------------------------------------------------
(* LISTS.  The inductive invariant: what is said of recent.txt, and of the *)
(* rows minui makes of it, is said of any lines l, games launched pl and   *)
(* games gone, so that it holds from the one to the other.                 *)

Multi(p) == p \in Paths /\ DiscCount[p[1]] > 0

\* With pl the games launched, the last one first, and gone those whose files
\* have come or gone since: the b-th is g, and its files have stayed.
Since(pl, gone, g, b) == pl[b] = g /\ g \notin gone
FirstLine(l, j) == \A k \in DOMAIN l : k < j => l[k][1] # l[j][1]

\* Above the first line of a game are games launched after it.
Ordered(l, pl, gone) ==
  \A i, j \in DOMAIN l : \A b \in DOMAIN pl :
    (i < j /\ FirstLine(l, j) /\ Since(pl, gone, l[j][1], b)) => \E a \in DOMAIN pl : a <= b /\ pl[a] = l[i][1]

\* Its lines name files that are there.
Here(l, pl, gone) == \A i \in DOMAIN l : \A b \in DOMAIN pl : Since(pl, gone, l[i][1], b) => l[i] \in present

\* The games launched last have a line.
HasAll(l, pl, gone) ==
  ~split => \A k \in DOMAIN pl :
              (k < MAX_RECENTS /\ pl[k] \notin gone) => \E i \in DOMAIN l : l[i][1] = pl[k]

Good(l, pl, gone) == Ordered(l, pl, gone) /\ Here(l, pl, gone) /\ HasAll(l, pl, gone)

\* A game of one file has one line.
Single(l) == \A i, j \in DOMAIN l : l[i] = l[j] /\ l[i] \in Paths /\ ~Multi(l[i]) => i = j

\* What minui shows, and what it has written.
Shown ==
  proc = "minui" =>
    /\ OneRowPerGame /\ Single(Lines(recents)) /\ Good(Lines(recents), plays, touched)
    /\ \A i \in DOMAIN recents : recents[i].path \in present /\ recents[i] = Recent_new(recents[i].path)
Stored == ~lost => Good(recent, plays, touched)
Singles == Single(recent) /\ Single(disk.recent)

\* The game that runs, or that will, was launched last and has the first line.
Top(g) == ~lost /\ g \notin touched => recent # <<>> /\ recent[1] \in present /\ recent[1][1] = g
LastOne(g) == (plays = <<>> \/ plays[1] = g) /\ Top(g)
Playing ==
  /\ proc = "game" => playing \in Paths /\ LastOne(playing[1])
  /\ marker # <<>> => LastOne(marker[1][1])

\* The notes the programs leave each other, and the picker.
Notes ==
  /\ marker # <<>> => proc = "off"
  /\ change # <<>> => proc = "game" /\ Len(change) = 1 /\ change[1][1] = playing[1] /\ Multi(change[1])
  /\ proc # "game" => picker = Closed

Distinct == \A a, b \in DOMAIN plays : plays[a] = plays[b] => a = b
M3usStay == ~split => \A g \in Games : DiscCount[g] > 0 => <<g, 0>> \in present

ListsInv ==
  ListsTypeOK /\ PickerTells /\ Shown /\ Stored /\ Singles /\ Playing /\ Notes /\ Distinct /\ M3usStay

-----------------------------------------------------------------------------
(* Sequences.                                                              *)

\* M different elements do not fit in fewer than M places.
LEMMA Fits ==
  ASSUME NEW M \in Nat, NEW K \in Nat, NEW h \in [1..M -> 1..K], \A a, b \in 1..M : h[a] = h[b] => a = b
  PROVE  M <= K
<1>1. IsFiniteSet(1..M) /\ IsFiniteSet(1..K) /\ Cardinality(1..M) = M /\ Cardinality(1..K) = K
  BY FS_Interval
<1>2. CASE K < M
  <2>1. Cardinality(1..K) < Cardinality(1..M)
    BY <1>1, <1>2
  <2>2. \A A, B : h \in [A -> B] /\ IsFiniteSet(A) /\ IsFiniteSet(B) /\ Cardinality(B) < Cardinality(A)
                => \E x, y \in A : x # y /\ h[x] = h[y]
    BY FS_PigeonHole
  <2>3. \E x, y \in 1..M : x # y /\ h[x] = h[y]
    BY <1>1, <2>1, <2>2
  <2> QED
    BY <2>3
<1> QED
  BY <1>2

\* t is what the first n elements of s hold of set, in order.
Increasing(pos, t, n) ==
  /\ pos \in [1..Len(t) -> 1..n]
  /\ \A i, j \in 1..Len(t) : i < j => pos[i] < pos[j]
PicksAt(pos, t, s, n, set) ==
  /\ Increasing(pos, t, n)
  /\ \A i \in 1..Len(t) : t[i] = s[pos[i]] /\ t[i] \in set
  /\ \A m \in 1..n : s[m] \in set => \E i \in 1..Len(t) : pos[i] = m
Picks(t, s, n, set) == \E pos : PicksAt(pos, t, s, n, set)

\* One place more, after the others.
LEMMA Extended ==
  \A a, n, b \in Nat : \A pos \in [1..a -> b..(n - 1)] :
    b <= n /\ (\A i, j \in 1..a : i < j => pos[i] < pos[j])
      => \E new \in [1..(a + 1) -> b..n] :
           /\ \A i, j \in 1..(a + 1) : i < j => new[i] < new[j]
           /\ \A i \in 1..a : new[i] = pos[i]
           /\ new[a + 1] = n
<1> SUFFICES ASSUME NEW a \in Nat, NEW n \in Nat, NEW b \in Nat, NEW pos \in [1..a -> b..(n - 1)], b <= n,
                    \A i, j \in 1..a : i < j => pos[i] < pos[j]
             PROVE  \E new \in [1..(a + 1) -> b..n] :
                      /\ \A i, j \in 1..(a + 1) : i < j => new[i] < new[j]
                      /\ \A i \in 1..a : new[i] = pos[i]
                      /\ new[a + 1] = n
  BY ZenonT(60)
<1> DEFINE new == [i \in 1..(a + 1) |-> IF i <= a THEN pos[i] ELSE n]
<1>1. \A i \in 1..a : i \in 1..(a + 1) /\ i <= a /\ new[i] = pos[i] /\ pos[i] \in b..(n - 1)
  OBVIOUS
<1>2. a + 1 \in 1..(a + 1) /\ ~(a + 1 <= a) /\ new[a + 1] = n
  OBVIOUS
<1>3. \A i \in 1..(a + 1) : i \in 1..a \/ i = a + 1
  OBVIOUS
<1> HIDE DEF new
<1>4. \A i \in 1..(a + 1) : new[i] \in b..n
  BY <1>1, <1>2, <1>3
<1>5. new \in [1..(a + 1) -> b..n]
  BY <1>4 DEF new
<1>6. ASSUME NEW i \in 1..(a + 1), NEW j \in 1..(a + 1), i < j PROVE new[i] < new[j]
  <2>1. i \in 1..a
    BY <1>6
  <2>2. CASE j = a + 1
    BY <1>1, <1>2, <2>1, <2>2
  <2>3. CASE j \in 1..a
    BY <1>1, <1>6, <2>1, <2>3
  <2> QED
    BY <1>3, <2>2, <2>3
<1> QED
  BY <1>1, <1>2, <1>5, <1>6

LEMMA PickOne ==
  ASSUME NEW S, NEW s \in Seq(S), NEW set, NEW n \in 1..Len(s), NEW t \in Seq(S),
         Picks(t, s, n - 1, set)
  PROVE  AppendIf(t, s[n], set) \in Seq(S) /\ Picks(AppendIf(t, s[n], set), s, n, set)
<1>0. n \in Nat /\ n >= 1 /\ Len(t) \in Nat
  OBVIOUS
<1>1. PICK pos : PicksAt(pos, t, s, n - 1, set)
  BY DEF Picks
<1>2. CASE s[n] \notin set
  <2>1. PicksAt(pos, t, s, n, set)
    BY <1>1, <1>2 DEF PicksAt, Increasing
  <2> QED
    BY <1>2, <2>1 DEF Picks, AppendIf
<1>3. CASE s[n] \in set
  <2> DEFINE u == Append(t, s[n])
             a == Len(t)
  <2>1. u \in Seq(S) /\ Len(u) = a + 1 /\ u[a + 1] = s[n] /\ \A i \in 1..a : u[i] = t[i]
    OBVIOUS
  <2>2. /\ pos \in [1..a -> 1..(n - 1)] /\ \A i, j \in 1..a : i < j => pos[i] < pos[j]
        /\ \A i \in 1..a : t[i] = s[pos[i]] /\ t[i] \in set
        /\ \A m \in 1..(n - 1) : s[m] \in set => \E i \in 1..a : pos[i] = m
    BY <1>1 DEF PicksAt, Increasing
  <2>3. a \in Nat
    OBVIOUS
  <2> HIDE DEF u, a
  <2>4. PICK new \in [1..(a + 1) -> 1..n] :
           /\ \A i, j \in 1..(a + 1) : i < j => new[i] < new[j]
           /\ \A i \in 1..a : new[i] = pos[i]
           /\ new[a + 1] = n
    <3>1. /\ a \in Nat /\ n \in Nat /\ 1 \in Nat /\ 1 <= n /\ pos \in [1..a -> 1..(n - 1)]
          /\ \A i, j \in 1..a : i < j => pos[i] < pos[j]
      BY <1>0, <2>2, <2>3
    <3> QED
      BY <3>1, Extended, ZenonT(90)
  <2>5. \A i \in 1..(a + 1) : i \in 1..a \/ i = a + 1
    BY <2>3
  <2>6. \A i \in 1..(a + 1) : u[i] = s[new[i]] /\ u[i] \in set
    BY <1>3, <2>1, <2>2, <2>4, <2>5
  <2>7. ASSUME NEW m \in 1..n, s[m] \in set PROVE \E i \in 1..(a + 1) : new[i] = m
    <3>1. CASE m = n
      BY <2>3, <2>4, <3>1
    <3>2. CASE m # n
      <4>1. m \in 1..(n - 1)
        BY <1>0, <3>2
      <4>2. PICK i \in 1..a : pos[i] = m
        BY <2>2, <2>7, <4>1
      <4>3. i \in 1..(a + 1)
        BY <2>3
      <4> QED
        BY <2>4, <4>2, <4>3
    <3> QED
      BY <3>1, <3>2
  <2>8. PicksAt(new, u, s, n, set)
    BY <2>1, <2>4, <2>6, <2>7 DEF PicksAt, Increasing
  <2>9. Picks(u, s, n, set)
    BY <2>8 DEF Picks
  <2> QED
    BY <1>3, <2>1, <2>9 DEF u, AppendIf
<1> QED
  BY <1>2, <1>3

\* Filter adds the elements of set one after another.
LEMMA FilterSteps ==
  ASSUME NEW S, NEW s \in Seq(S), NEW set
  PROVE  \E f : /\ Filter(s, set) = f[Len(s)] /\ f[0] = <<>>
                /\ \A n \in 1..Len(s) : f[n] = AppendIf(f[n - 1], s[n], set)
<1> DEFINE L == Len(s)
           Is(g, m) == g = [n \in 0..m |-> IF n = 0 THEN <<>> ELSE AppendIf(g[n - 1], s[n], set)]
           Some(m) == \E g : Is(g, m)
           T == {m \in 0..L : Some(m)}
           f[n \in 0..L] == IF n = 0 THEN <<>> ELSE AppendIf(f[n - 1], s[n], set)
<1>1. L \in Nat
  OBVIOUS
<1>2. 0 \in T
  <2>1. Is([n \in 0..0 |-> <<>>], 0)
    OBVIOUS
  <2>2. Some(0)
    BY <2>1
  <2> HIDE DEF Some
  <2> QED
    BY <1>1, <2>2
<1>3. ASSUME NEW m \in 1..L, m - 1 \in T PROVE m \in T
  <2>1. PICK g : Is(g, m - 1)
    BY <1>3
  <2>0. g = [n \in 0..(m - 1) |-> IF n = 0 THEN <<>> ELSE AppendIf(g[n - 1], s[n], set)]
    BY <2>1
  <2> DEFINE h == [n \in 0..m |-> IF n <= m - 1 THEN g[n] ELSE AppendIf(g[m - 1], s[m], set)]
  <2>2. ASSUME NEW n \in 0..m PROVE h[n] = IF n = 0 THEN <<>> ELSE AppendIf(h[n - 1], s[n], set)
    <3>1. CASE n = m
      BY <1>1, <1>3, <3>1
    <3>2. CASE n # m
      <4>1. n \in 0..(m - 1) /\ (n # 0 => n - 1 \in 0..(m - 1))
        BY <1>1, <1>3, <3>2
      <4> QED
        BY <1>1, <1>3, <2>0, <4>1
    <3> QED
      BY <3>1, <3>2
  <2>3. Is(h, m)
    BY <2>2
  <2>4. Some(m)
    BY <2>3
  <2> HIDE DEF Some
  <2> QED
    BY <1>1, <1>3, <2>4
<1>4. L \in T
  <2> HIDE DEF T
  <2>1. \A n \in 0..L : n \in T
    BY <1>1, <1>2, <1>3, UpTo
  <2> QED
    BY <1>1, <2>1
<1>5. Is(f, L)
  BY <1>4
<1>6. Filter(s, set) = f[L]
  BY DEF Filter
<1> HIDE DEF f
<1>7. f[0] = <<>> /\ \A n \in 1..L : f[n] = AppendIf(f[n - 1], s[n], set)
  BY <1>1, <1>5
<1> QED
  BY <1>6, <1>7

LEMMA FilterPicks ==
  ASSUME NEW S, NEW s \in Seq(S), NEW set
  PROVE  Filter(s, set) \in Seq(S) /\ Picks(Filter(s, set), s, Len(s), set)
<1>1. PICK f : /\ Filter(s, set) = f[Len(s)] /\ f[0] = <<>>
               /\ \A n \in 1..Len(s) : f[n] = AppendIf(f[n - 1], s[n], set)
  BY FilterSteps
<1> DEFINE T == {n \in 0..Len(s) : f[n] \in Seq(S) /\ Picks(f[n], s, n, set)}
<1>2. 0 \in T
  <2>1. PicksAt(<<>>, <<>>, s, 0, set)
    BY DEF PicksAt, Increasing
  <2>2. Picks(<<>>, s, 0, set)
    BY <2>1 DEF Picks
  <2>3. <<>> \in Seq(S) /\ 0 \in 0..Len(s)
    OBVIOUS
  <2>4. f[0] \in Seq(S) /\ Picks(f[0], s, 0, set)
    BY <1>1, <2>2, <2>3
  <2> QED
    BY <2>3, <2>4
<1>3. ASSUME NEW n \in 1..Len(s), n - 1 \in T PROVE n \in T
  <2>1. f[n - 1] \in Seq(S) /\ Picks(f[n - 1], s, n - 1, set)
    BY <1>3
  <2>2. f[n] = AppendIf(f[n - 1], s[n], set)
    BY <1>1
  <2>3. f[n] \in Seq(S) /\ Picks(f[n], s, n, set)
    BY <2>1, <2>2, PickOne
  <2> QED
    BY <2>3
<1>4. Len(s) \in T
  <2> HIDE DEF T
  <2>1. Len(s) \in Nat
    OBVIOUS
  <2>2. \A n \in 0..Len(s) : n \in T
    BY <1>2, <1>3, <2>1, UpTo
  <2> QED
    BY <2>1, <2>2
<1> QED
  BY <1>1, <1>4


\* A function on 1..n is a sequence.
LEMMA IsSeq ==
  ASSUME NEW S, NEW n \in Nat, NEW f \in [1..n -> S]
  PROVE  f \in Seq(S) /\ Len(f) = n /\ DOMAIN f = 1..n
OBVIOUS

-----------------------------------------------------------------------------
(* The rows minui makes of recent.txt.                                     *)

Row == [path : Paths, available : BOOLEAN]
ToldDisc == Filter(change, present)

RowsOK(rows) ==
  /\ rows \in Seq(Row) /\ Len(rows) <= MAX_RECENTS
  /\ \A i \in 1..Len(rows) : rows[i].path \in present /\ rows[i] = Recent_new(rows[i].path)
OneRow(rows) ==
  \A i, j \in 1..Len(rows) : rows[i].path[1] = rows[j].path[1] /\ hasM3u(rows[i].path) => i = j
Parents(rows, parents) ==
  /\ \A i \in 1..Len(rows) : hasM3u(rows[i].path) => rows[i].path[1] \in parents
  /\ \A g \in parents : \E i \in 1..Len(rows) : rows[i].path[1] = g

\* The m-th line has a row, as its game has, or there was no room for it.
Found(pos, rows, l, m) ==
  \/ \E i \in 1..Len(rows) : pos[i] <= m /\ rows[i].path[1] = l[m][1]
  \/ Len(rows) >= MAX_RECENTS /\ \A i \in 1..Len(rows) : pos[i] < m

\* Each row is a line of the first n of l, in their order, or the changed disc.
From(pos, rows, l, n) ==
  /\ pos \in [1..Len(rows) -> 0..n]
  /\ \A i, j \in 1..Len(rows) : i < j => pos[i] < pos[j]
  /\ \A i \in 1..Len(rows) : pos[i] = 0 => ToldDisc # <<>> /\ rows[i].path = ToldDisc[1]
  /\ \A i \in 1..Len(rows) : pos[i] # 0 => rows[i].path = l[pos[i]]
  /\ \A m \in 1..n : l[m] \in present => Found(pos, rows, l, m)
  /\ ToldDisc # <<>> => 1 \in 1..Len(rows) /\ pos[1] = 0

Merged(acc, l, n) ==
  /\ acc = [rows |-> acc.rows, parents |-> acc.parents]
  /\ RowsOK(acc.rows) /\ OneRow(acc.rows) /\ Parents(acc.rows, acc.parents)
  /\ \E pos : From(pos, acc.rows, l, n)

\* Whether a game has an m3u goes with the game.
LEMMA M3uOfGame ==
  ASSUME NEW p \in Paths, NEW q \in Paths, p[1] = q[1]
  PROVE  hasM3u(p) <=> hasM3u(q)
BY DEF hasM3u

LEMMA MergeSkips ==
  ASSUME NEW X, NEW l \in Seq(X), NEW n \in 1..Len(l), NEW acc, Merged(acc, l, n - 1),
         l[n] \notin present \/ Len(acc.rows) >= MAX_RECENTS \/ (hasM3u(l[n]) /\ l[n][1] \in acc.parents)
  PROVE  Merged(acc, l, n)
<1> DEFINE rows == acc.rows
<1>0. n \in Nat /\ n >= 1 /\ Len(rows) \in Nat
  BY DEF Merged, RowsOK
<1>1. PICK pos : From(pos, rows, l, n - 1)
  BY DEF Merged
<1>2. pos \in [1..Len(rows) -> 0..n] /\ \A i \in 1..Len(rows) : pos[i] < n
  <2>1. pos \in [1..Len(rows) -> 0..(n - 1)]
    BY <1>1 DEF From
  <2> QED
    BY <1>0, <2>1
<1>3. l[n] \in present => Found(pos, rows, l, n)
  <2>1. CASE Len(rows) >= MAX_RECENTS
    BY <1>2, <2>1 DEF Found
  <2>2. CASE l[n][1] \in acc.parents
    <3>1. PICK i \in 1..Len(rows) : rows[i].path[1] = l[n][1]
      BY <2>2 DEF Merged, Parents
    <3>2. pos[i] <= n
      BY <1>0, <1>2
    <3> QED
      BY <3>1, <3>2 DEF Found
  <2> QED
    BY <2>1, <2>2
<1>4. \A m \in 1..n : m \in 1..(n - 1) \/ m = n
  BY <1>0
<1>5. From(pos, rows, l, n)
  BY <1>1, <1>2, <1>3, <1>4 DEF From
<1> QED
  BY <1>5 DEF Merged

LEMMA MergeAdds ==
  ASSUME NEW X, NEW l \in Seq(X), NEW n \in 1..Len(l), NEW acc, Merged(acc, l, n - 1),
         present \subseteq Paths, MAX_RECENTS \in Nat,
         l[n] \in present, Len(acc.rows) < MAX_RECENTS, ~(hasM3u(l[n]) /\ l[n][1] \in acc.parents)
  PROVE  Merged([rows |-> Append(acc.rows, Recent_new(l[n])),
                 parents |-> IF hasM3u(l[n]) THEN acc.parents \cup {l[n][1]} ELSE acc.parents], l, n)
<1> DEFINE rows == acc.rows
           more == Append(rows, Recent_new(l[n]))
           parents == IF hasM3u(l[n]) THEN acc.parents \cup {l[n][1]} ELSE acc.parents
           a == Len(rows)
<1>0. n \in Nat /\ n >= 1 /\ a \in Nat /\ rows \in Seq(Row) /\ l[n] \in Paths
  BY DEF Merged, RowsOK
<1>1. Recent_new(l[n]) \in Row /\ Recent_new(l[n]).path = l[n]
  BY <1>0 DEF Recent_new, hasEmu, Row
<1>2. /\ more \in Seq(Row) /\ Len(more) = a + 1 /\ more[a + 1] = Recent_new(l[n])
      /\ \A i \in 1..a : i \in 1..(a + 1) /\ more[i] = rows[i]
      /\ a + 1 \in 1..(a + 1) /\ a + 1 <= MAX_RECENTS
  BY <1>0, <1>1
<1>3. \A i \in 1..(a + 1) : i \in 1..a \/ i = a + 1
  BY <1>0
<1>4. PICK pos : From(pos, rows, l, n - 1)
  BY DEF Merged
<1>5. /\ pos \in [1..a -> 0..(n - 1)] /\ \A i, j \in 1..a : i < j => pos[i] < pos[j]
      /\ \A i \in 1..a : pos[i] = 0 => ToldDisc # <<>> /\ rows[i].path = ToldDisc[1]
      /\ \A i \in 1..a : pos[i] # 0 => rows[i].path = l[pos[i]]
      /\ \A m \in 1..(n - 1) : l[m] \in present => \E i \in 1..a : pos[i] <= m /\ rows[i].path[1] = l[m][1]
      /\ ToldDisc # <<>> => 1 \in 1..a /\ pos[1] = 0
  BY <1>0, <1>4 DEF From, Found
<1>6. PICK at \in [1..(a + 1) -> 0..n] :
        /\ \A i, j \in 1..(a + 1) : i < j => at[i] < at[j]
        /\ \A i \in 1..a : at[i] = pos[i]
        /\ at[a + 1] = n
  <2>1. PICK b \in Nat : b = 0
    OBVIOUS
  <2>2. /\ a \in Nat /\ n \in Nat /\ b <= n /\ pos \in [1..a -> b..(n - 1)]
        /\ \A i, j \in 1..a : i < j => pos[i] < pos[j]
    BY <1>0, <1>5, <2>1
  <2> HIDE DEF a, rows
  <2>3. \E at \in [1..(a + 1) -> b..n] :
          /\ \A i, j \in 1..(a + 1) : i < j => at[i] < at[j]
          /\ \A i \in 1..a : at[i] = pos[i]
          /\ at[a + 1] = n
    BY <2>2, Extended, ZenonT(90)
  <2> QED
    BY <2>1, <2>3
<1> HIDE DEF more, a
<1>7. RowsOK(more)
  <2>1. \A i \in 1..a : rows[i].path \in present /\ rows[i] = Recent_new(rows[i].path)
    BY DEF Merged, RowsOK, a
  <2> QED
    BY <1>1, <1>2, <1>3, <2>1 DEF RowsOK
<1>8. OneRow(more)
  <2>1. \A i, j \in 1..a : rows[i].path[1] = rows[j].path[1] /\ hasM3u(rows[i].path) => i = j
    BY DEF Merged, OneRow, a
  <2>2. ASSUME NEW i \in 1..a, rows[i].path[1] = l[n][1], hasM3u(rows[i].path) \/ hasM3u(l[n]) PROVE FALSE
    <3>1. rows[i].path \in Paths
      BY DEF Merged, RowsOK, a
    <3>2. hasM3u(rows[i].path) /\ hasM3u(l[n])
      BY <1>0, <2>2, <3>1, M3uOfGame
    <3>3. rows[i].path[1] \in acc.parents
      BY <3>2 DEF Merged, Parents, a
    <3> QED
      BY <2>2, <3>2, <3>3
  <2>3. ASSUME NEW i \in 1..(a + 1), NEW j \in 1..(a + 1),
               more[i].path[1] = more[j].path[1], hasM3u(more[i].path)
        PROVE  i = j
    <3>1. CASE i \in 1..a /\ j \in 1..a
      BY <1>2, <2>1, <2>3, <3>1
    <3>2. CASE i \in 1..a /\ j = a + 1
      <4>1. rows[i].path[1] = l[n][1] /\ hasM3u(rows[i].path)
        BY <1>1, <1>2, <2>3, <3>2
      <4> QED
        BY <2>2, <3>2, <4>1
    <3>3. CASE i = a + 1 /\ j \in 1..a
      <4>1. rows[j].path[1] = l[n][1] /\ hasM3u(l[n])
        BY <1>1, <1>2, <2>3, <3>3
      <4> QED
        BY <2>2, <3>3, <4>1
    <3> QED
      BY <1>3, <3>1, <3>2, <3>3
  <2> QED
    BY <1>2, <2>3 DEF OneRow
<1>9. Parents(more, parents)
  <2>1. /\ \A i \in 1..a : hasM3u(rows[i].path) => rows[i].path[1] \in acc.parents
        /\ \A g \in acc.parents : \E i \in 1..a : rows[i].path[1] = g
    BY DEF Merged, Parents, a
  <2>2. ASSUME NEW i \in 1..(a + 1), hasM3u(more[i].path) PROVE more[i].path[1] \in parents
    <3>1. CASE i \in 1..a
      BY <1>2, <2>1, <2>2, <3>1
    <3>2. CASE i = a + 1
      BY <1>1, <1>2, <2>2, <3>2
    <3> QED
      BY <1>3, <3>1, <3>2
  <2>3. ASSUME NEW g \in parents PROVE \E i \in 1..(a + 1) : more[i].path[1] = g
    <3>1. CASE g \in acc.parents
      BY <1>2, <2>1, <3>1
    <3>2. CASE g = l[n][1]
      BY <1>1, <1>2, <3>2
    <3> QED
      BY <3>1, <3>2
  <2> HIDE DEF parents
  <2> QED
    BY <1>2, <2>2, <2>3 DEF Parents
<1>10. From(at, more, l, n)
  <2>1. \A i \in 1..(a + 1) : at[i] = 0 => ToldDisc # <<>> /\ more[i].path = ToldDisc[1]
    BY <1>0, <1>2, <1>3, <1>5, <1>6
  <2>2. \A i \in 1..(a + 1) : at[i] # 0 => more[i].path = l[at[i]]
    BY <1>1, <1>2, <1>3, <1>5, <1>6
  <2>3. ASSUME NEW m \in 1..n, l[m] \in present
        PROVE  \E i \in 1..(a + 1) : at[i] <= m /\ more[i].path[1] = l[m][1]
    <3>1. CASE m = n
      BY <1>0, <1>1, <1>2, <1>6, <3>1
    <3>2. CASE m # n
      <4>1. m \in 1..(n - 1)
        BY <1>0, <3>2
      <4>2. PICK i \in 1..a : pos[i] <= m /\ rows[i].path[1] = l[m][1]
        BY <1>5, <2>3, <4>1
      <4> QED
        BY <1>2, <1>6, <4>2
    <3> QED
      BY <3>1, <3>2
  <2>4. ToldDisc # <<>> => 1 \in 1..(a + 1) /\ at[1] = 0
    BY <1>2, <1>5, <1>6
  <2> QED
    BY <1>2, <1>6, <2>1, <2>2, <2>3, <2>4 DEF From, Found
<1> QED
  BY <1>7, <1>8, <1>9, <1>10 DEF Merged, more

LEMMA MergeDoes ==
  ASSUME NEW X, NEW l \in Seq(X), NEW n \in 1..Len(l), NEW acc, Merged(acc, l, n - 1),
         present \subseteq Paths, MAX_RECENTS \in Nat
  PROVE  Merged(Merge(acc, l[n]), l, n)
<1>1. CASE l[n] \notin present \/ Len(acc.rows) >= MAX_RECENTS \/ (hasM3u(l[n]) /\ l[n][1] \in acc.parents)
  <2>1. Merge(acc, l[n]) = acc
    BY <1>1 DEF Merge
  <2> QED
    BY <1>1, <2>1, MergeSkips
<1>2. CASE ~(l[n] \notin present \/ Len(acc.rows) >= MAX_RECENTS \/ (hasM3u(l[n]) /\ l[n][1] \in acc.parents))
  <2>1. Merge(acc, l[n]) = [rows |-> Append(acc.rows, Recent_new(l[n])),
                            parents |-> IF hasM3u(l[n]) THEN acc.parents \cup {l[n][1]} ELSE acc.parents]
    BY <1>2 DEF Merge
  <2>2. Len(acc.rows) < MAX_RECENTS
    <3>1. Len(acc.rows) \in Nat
      BY DEF Merged, RowsOK
    <3> QED
      BY <1>2, <3>1
  <2> QED
    BY <1>2, <2>1, <2>2, MergeAdds
<1> QED
  BY <1>1, <1>2

\* The changed disc, if its file is there.
LEMMA ToldIs ==
  ASSUME change \in Seq(Paths), Len(change) <= 1
  PROVE  /\ ToldDisc = <<>> \/ (ToldDisc = <<change[1]>> /\ change # <<>> /\ change[1] \in Paths /\ change[1] \in present)
         /\ change # <<>> /\ change[1] \in present => ToldDisc # <<>>
<1>1. ToldDisc \in Seq(Paths) /\ Picks(ToldDisc, change, Len(change), present)
  BY FilterPicks DEF ToldDisc
<1>2. PICK pos : PicksAt(pos, ToldDisc, change, Len(change), present)
  BY <1>1 DEF Picks
<1>3. Len(change) \in Nat /\ Len(ToldDisc) \in Nat
  BY <1>1
<1>4. pos \in [1..Len(ToldDisc) -> 1..Len(change)] /\ \A i, j \in 1..Len(ToldDisc) : i < j => pos[i] < pos[j]
  BY <1>2 DEF PicksAt, Increasing
<1>5. Len(ToldDisc) <= 1
  <2>1. CASE Len(ToldDisc) >= 2
    <3>1. 1 \in 1..Len(ToldDisc) /\ 2 \in 1..Len(ToldDisc)
      BY <1>3, <2>1
    <3>2. pos[1] \in 1..Len(change) /\ pos[2] \in 1..Len(change) /\ pos[1] < pos[2]
      BY <1>4, <3>1
    <3> QED
      BY <1>3, <3>2
  <2> QED
    BY <1>3, <2>1
<1>6. ASSUME ToldDisc # <<>> PROVE ToldDisc = <<change[1]>> /\ change # <<>> /\ change[1] \in Paths /\ change[1] \in present
  <2>1. Len(ToldDisc) = 1
    <3> DEFINE k == Len(ToldDisc)
    <3>1. k \in Nat /\ k <= 1 /\ k # 0
      BY <1>1, <1>3, <1>5, <1>6, EmptySeq
    <3> HIDE DEF k
    <3>2. k = 1
      BY <3>1
    <3> QED
      BY <3>2 DEF k
  <2>2. pos[1] \in 1..Len(change)
    BY <1>4, <2>1
  <2>3. pos[1] = 1 /\ Len(change) = 1
    <3> DEFINE x == pos[1]
               k == Len(change)
    <3>1. k \in Nat /\ k <= 1 /\ x \in 1..k
      BY <1>3, <2>2
    <3> HIDE DEF x, k
    <3>2. x = 1 /\ k = 1
      BY <3>1
    <3> QED
      BY <3>2 DEF x, k
  <2>4. ToldDisc[1] = change[1] /\ ToldDisc[1] \in present
    BY <1>2, <2>1, <2>3 DEF PicksAt
  <2> QED
    BY <1>1, <2>1, <2>3, <2>4
<1>7. ASSUME change # <<>>, change[1] \in present PROVE ToldDisc # <<>>
  <2>1. 1 \in 1..Len(change)
    BY <1>3, <1>7
  <2>2. \E i \in 1..Len(ToldDisc) : pos[i] = 1
    BY <1>2, <1>7, <2>1 DEF PicksAt
  <2> QED
    BY <2>2
<1> QED
  BY <1>6, <1>7

First == [rows |-> [i \in DOMAIN ToldDisc |-> Recent_new(ToldDisc[i])], parents |-> {p[1] : p \in Range(ToldDisc)}]

LEMMA FirstIs ==
  ASSUME NEW l, change \in Seq(Paths), Len(change) <= 1, MAX_RECENTS \in Nat \ {0}
  PROVE  Merged(First, l, 0)
<1> DEFINE rows == [i \in DOMAIN ToldDisc |-> Recent_new(ToldDisc[i])]
           a == Len(ToldDisc)
<1>1. ToldDisc \in Seq(Paths) /\ a \in 0..1 /\ DOMAIN ToldDisc = 1..a
  <2>1. CASE ToldDisc = <<>>
    BY <2>1
  <2>2. CASE ToldDisc = <<change[1]>> /\ change[1] \in Paths
    BY <2>2
  <2> QED
    BY <2>1, <2>2, ToldIs
<1>2. \A i \in 1..a : Recent_new(ToldDisc[i]) \in Row /\ Recent_new(ToldDisc[i]).path = ToldDisc[i] /\ ToldDisc[i] \in present /\ i = 1
  BY <1>1, ToldIs DEF Recent_new, hasEmu, Row
<1>3. rows \in [1..a -> Row]
  BY <1>1, <1>2
<1>4. rows \in Seq(Row) /\ Len(rows) = a
  BY <1>1, <1>3, IsSeq
<1>5. \A i \in 1..a : rows[i] = Recent_new(ToldDisc[i]) /\ rows[i].path = ToldDisc[i]
  BY <1>1, <1>2
<1>6. {p[1] : p \in Range(ToldDisc)} = {ToldDisc[i][1] : i \in 1..a}
  BY <1>1 DEF Range
<1>7. From([i \in 1..a |-> 0], rows, l, 0)
  <2>1. ToldDisc # <<>> => 1 \in 1..a
    BY ToldIs
  <2>2. \A i \in 1..a : ToldDisc # <<>>
    BY <1>1
  <2> QED
    BY <1>1, <1>2, <1>4, <1>5, <2>1, <2>2 DEF From
<1>8. RowsOK(rows)
  BY <1>1, <1>2, <1>4, <1>5 DEF RowsOK
<1>9. OneRow(rows)
  BY <1>2, <1>4 DEF OneRow
<1>10. Parents(rows, {p[1] : p \in Range(ToldDisc)})
  <2>1. \A i \in 1..a : rows[i].path[1] \in {ToldDisc[j][1] : j \in 1..a}
    BY <1>5
  <2>2. \A g \in {ToldDisc[j][1] : j \in 1..a} : \E i \in 1..a : rows[i].path[1] = g
    BY <1>5
  <2> HIDE DEF rows
  <2> QED
    BY <1>4, <1>6, <2>1, <2>2 DEF Parents
<1> QED
  BY <1>7, <1>8, <1>9, <1>10 DEF Merged, First

\* hasRecents reads the lines one after another.
LEMMA hasRecentsSteps ==
  ASSUME NEW S, NEW l \in Seq(S)
  PROVE  \E f : /\ hasRecents(l) = f[Len(l)].rows /\ f[0] = First
                /\ \A n \in 1..Len(l) : f[n] = Merge(f[n - 1], l[n])
<1> DEFINE L == Len(l)
           first == First
           Is(g, m) == g = [n \in 0..m |-> IF n = 0 THEN first ELSE Merge(g[n - 1], l[n])]
           Some(m) == \E g : Is(g, m)
           T == {m \in 0..L : Some(m)}
           f[n \in 0..L] == IF n = 0 THEN first ELSE Merge(f[n - 1], l[n])
<1>1. L \in Nat
  OBVIOUS
<1>2. 0 \in T
  <2>1. Is([n \in 0..0 |-> first], 0)
    OBVIOUS
  <2>2. Some(0)
    BY <2>1
  <2> HIDE DEF Some
  <2> QED
    BY <1>1, <2>2
<1>3. ASSUME NEW m \in 1..L, m - 1 \in T PROVE m \in T
  <2>1. PICK g : Is(g, m - 1)
    BY <1>3
  <2>0. g = [n \in 0..(m - 1) |-> IF n = 0 THEN first ELSE Merge(g[n - 1], l[n])]
    BY <2>1
  <2> HIDE DEF first
  <2> DEFINE h == [n \in 0..m |-> IF n <= m - 1 THEN g[n] ELSE Merge(g[m - 1], l[m])]
  <2>2. ASSUME NEW n \in 0..m PROVE h[n] = IF n = 0 THEN first ELSE Merge(h[n - 1], l[n])
    <3>1. CASE n = m
      BY <1>1, <1>3, <3>1
    <3>2. CASE n # m
      <4>1. n \in 0..(m - 1) /\ (n # 0 => n - 1 \in 0..(m - 1))
        BY <1>1, <1>3, <3>2
      <4> QED
        BY <1>1, <1>3, <2>0, <4>1
    <3> QED
      BY <3>1, <3>2
  <2>3. Is(h, m)
    BY <2>2
  <2>4. Some(m)
    BY <2>3
  <2> HIDE DEF Some
  <2> QED
    BY <1>1, <1>3, <2>4
<1>4. L \in T
  <2> HIDE DEF T
  <2>1. \A n \in 0..L : n \in T
    BY <1>1, <1>2, <1>3, UpTo
  <2> QED
    BY <1>1, <2>1
<1>5. Is(f, L)
  BY <1>4
<1>6. hasRecents(l) = f[L].rows
  BY DEF hasRecents, First, ToldDisc
<1> HIDE DEF f, first
<1>7. f[0] = first /\ \A n \in 1..L : f[n] = Merge(f[n - 1], l[n])
  BY <1>1, <1>5
<1> QED
  BY <1>6, <1>7 DEF first

LEMMA hasRecentsDoes ==
  ASSUME NEW S, NEW l \in Seq(S), present \subseteq Paths, MAX_RECENTS \in Nat \ {0},
         change \in Seq(Paths), Len(change) <= 1
  PROVE  /\ RowsOK(hasRecents(l)) /\ OneRow(hasRecents(l))
         /\ \E pos : From(pos, hasRecents(l), l, Len(l))
<1>1. PICK f : /\ hasRecents(l) = f[Len(l)].rows /\ f[0] = First
               /\ \A n \in 1..Len(l) : f[n] = Merge(f[n - 1], l[n])
  BY hasRecentsSteps
<1> DEFINE T == {n \in 0..Len(l) : Merged(f[n], l, n)}
<1>0. Len(l) \in Nat
  OBVIOUS
<1>2. 0 \in T
  BY <1>0, <1>1, FirstIs
<1>3. ASSUME NEW n \in 1..Len(l), n - 1 \in T PROVE n \in T
  <2>1. Merged(f[n - 1], l, n - 1) /\ f[n] = Merge(f[n - 1], l[n])
    BY <1>1, <1>3
  <2>2. Merged(f[n], l, n)
    BY <2>1, MergeDoes
  <2> QED
    BY <2>2
<1>4. Merged(f[Len(l)], l, Len(l))
  <2> HIDE DEF T
  <2>1. \A n \in 0..Len(l) : n \in T
    BY <1>0, <1>2, <1>3, UpTo
  <2> QED
    BY <1>0, <2>1 DEF T
<1> QED
  BY <1>1, <1>4 DEF Merged

-----------------------------------------------------------------------------
(* They are as good as the lines.                                          *)

LEMMA PathIs ==
  ASSUME NEW p \in Paths, DiscCount \in [Games -> Nat]
  PROVE  p[1] \in Games /\ DiscCount[p[1]] \in Nat /\ (~Multi(p) => p = <<p[1], 0>>)
<1>1. PICK g \in Games : \E n \in 0..DiscCount[g] : p = <<g, n>>
  BY DEF Paths
<1>2. PICK n \in 0..DiscCount[g] : p = <<g, n>>
  BY <1>1
<1>3. DiscCount[g] \in Nat
  BY <1>1
<1>4. ~Multi(p) => n = 0
  BY <1>2, <1>3 DEF Multi
<1> QED
  BY <1>1, <1>2, <1>3, <1>4

\* A game that has a line has a first one.
LEMMA FirstOfGame ==
  ASSUME NEW X, NEW l \in Seq(X), NEW i \in 1..Len(l)
  PROVE  \E j \in 1..Len(l) : j <= i /\ l[j][1] = l[i][1] /\ FirstLine(l, j)
<1> DEFINE T == {k \in 1..Len(l) : l[k][1] = l[i][1]}
<1>1. T \subseteq Nat /\ T # {} /\ DOMAIN l = 1..Len(l)
  OBVIOUS
<1>2. PICK j \in T : \A k \in T : j <= k
  BY <1>1, NatMin
<1>3. j \in 1..Len(l) /\ l[j][1] = l[i][1] /\ j <= i
  BY <1>2
<1>4. FirstLine(l, j)
  <2>1. ASSUME NEW k \in 1..Len(l), k < j, l[k][1] = l[j][1] PROVE FALSE
    <3>1. k \in T
      BY <1>3, <2>1
    <3>2. j <= k
      BY <1>2, <3>1
    <3> QED
      BY <1>3, <2>1, <3>2
  <2> QED
    BY <1>1, <2>1 DEF FirstLine
<1> QED
  BY <1>3, <1>4

LEMMA LinesAre ==
  ASSUME NEW rows \in Seq(Row)
  PROVE  /\ Lines(rows) \in Seq(Paths) /\ Len(Lines(rows)) = Len(rows) /\ Len(rows) \in Nat
         /\ DOMAIN Lines(rows) = 1..Len(rows) /\ DOMAIN rows = 1..Len(rows)
         /\ \A i \in 1..Len(rows) : Lines(rows)[i] = rows[i].path /\ rows[i].path \in Paths
<1>1. DOMAIN rows = 1..Len(rows) /\ Len(rows) \in Nat /\ \A i \in 1..Len(rows) : rows[i].path \in Paths
  <2>1. DOMAIN rows = 1..Len(rows) /\ Len(rows) \in Nat /\ \A i \in 1..Len(rows) : rows[i] \in Row
    OBVIOUS
  <2>2. \A x \in Row : x.path \in Paths
    BY DEF Row
  <2> QED
    BY <2>1, <2>2
<1>2. Lines(rows) \in [1..Len(rows) -> Paths] /\ \A i \in 1..Len(rows) : Lines(rows)[i] = rows[i].path
  BY <1>1 DEF Lines
<1> QED
  BY <1>1, <1>2, IsSeq

\* While every m3u is there, a game has one row.
LEMMA RowGames ==
  ASSUME NEW rows, RowsOK(rows), OneRow(rows), Single(Lines(rows)), M3usStay, ~split, DiscCount \in [Games -> Nat],
         NEW i \in 1..Len(rows), NEW j \in 1..Len(rows), rows[i].path[1] = rows[j].path[1]
  PROVE  i = j
<1> DEFINE p == rows[i].path
           q == rows[j].path
<1>1. rows \in Seq(Row) /\ p \in Paths /\ q \in Paths /\ p[1] = q[1]
  <2>1. rows \in Seq(Row)
    BY DEF RowsOK
  <2> QED
    BY <2>1, LinesAre
<1>2. p[1] \in Games /\ DiscCount[p[1]] \in Nat
  BY <1>1, PathIs
<1>3. CASE Multi(p)
  <2>1. hasM3u(p)
    BY <1>1, <1>2, <1>3 DEF M3usStay, Multi, hasM3u
  <2> QED
    BY <2>1 DEF OneRow
<1>4. CASE ~Multi(p)
  <2>1. ~Multi(q)
    BY <1>1, <1>4 DEF Multi
  <2>2. p = q
    BY <1>1, <1>4, <2>1, PathIs
  <2>3. Lines(rows)[i] = p /\ Lines(rows)[j] = q /\ DOMAIN Lines(rows) = 1..Len(rows)
    BY <1>1, LinesAre
  <2> QED
    BY <1>1, <1>4, <2>2, <2>3 DEF Single
<1> QED
  BY <1>3, <1>4

\* What one needs of the lines, and of the disc that was changed.
Source(l, pl, gone) ==
  /\ l \in Lined /\ pl \in Seq(Games) /\ Single(l) /\ Good(l, pl, gone)
  /\ ToldDisc # <<>> => Multi(ToldDisc[1]) /\ (pl # <<>> => ToldDisc[1][1] = pl[1])

LEMMA RowsSingle ==
  ASSUME NEW rows, NEW l \in Lined, NEW pos, RowsOK(rows), From(pos, rows, l, Len(l)),
         Single(l), ToldDisc # <<>> => Multi(ToldDisc[1])
  PROVE  Single(Lines(rows))
<1>1. rows \in Seq(Row) /\ DOMAIN l = 1..Len(l) /\ Len(l) \in Nat
  BY DEF RowsOK, Lined
<1>2. DOMAIN Lines(rows) = 1..Len(rows) /\ Len(rows) \in Nat /\ \A i \in 1..Len(rows) : Lines(rows)[i] = rows[i].path
  BY <1>1, LinesAre
<1>3. ASSUME NEW i \in 1..Len(rows), NEW j \in 1..Len(rows), rows[i].path = rows[j].path,
             rows[i].path \in Paths, ~Multi(rows[i].path)
      PROVE  i = j
  <2>1. pos[i] \in 0..Len(l) /\ pos[j] \in 0..Len(l) /\ pos[i] # 0 /\ pos[j] # 0
    BY <1>3 DEF From
  <2>2. pos[i] \in DOMAIN l /\ pos[j] \in DOMAIN l /\ l[pos[i]] = l[pos[j]] /\ l[pos[i]] = rows[i].path
    BY <1>1, <1>3, <2>1 DEF From
  <2>3. pos[i] = pos[j]
    BY <1>3, <2>2 DEF Single
  <2>4. i < j => pos[i] < pos[j]
    BY DEF From
  <2>5. j < i => pos[j] < pos[i]
    BY DEF From
  <2> QED
    BY <2>1, <2>3, <2>4, <2>5
<1> QED
  BY <1>2, <1>3 DEF Single

LEMMA RowsOrdered ==
  ASSUME NEW rows, NEW l, NEW pl, NEW gone, NEW pos, RowsOK(rows), From(pos, rows, l, Len(l)), Source(l, pl, gone)
  PROVE  Ordered(Lines(rows), pl, gone)
<1>1. rows \in Seq(Row) /\ l \in Lined /\ DOMAIN l = 1..Len(l) /\ Len(l) \in Nat
  BY DEF RowsOK, Source, Lined
<1>2. DOMAIN Lines(rows) = 1..Len(rows) /\ Len(rows) \in Nat /\ \A i \in 1..Len(rows) : Lines(rows)[i] = rows[i].path
  BY <1>1, LinesAre
<1>3. pl \in Seq(Games) /\ DOMAIN pl = 1..Len(pl) /\ Len(pl) \in Nat
  BY DEF Source
<1> SUFFICES ASSUME NEW i \in 1..Len(rows), NEW j \in 1..Len(rows), NEW b \in DOMAIN pl,
                    i < j, FirstLine(Lines(rows), j), Since(pl, gone, rows[j].path[1], b)
             PROVE  \E a \in DOMAIN pl : a <= b /\ pl[a] = rows[i].path[1]
  BY <1>2 DEF Ordered
<1>4. /\ pos[i] \in 0..Len(l) /\ pos[j] \in 1..Len(l) /\ pos[i] < pos[j]
      /\ rows[j].path = l[pos[j]]
  <2>1. pos[i] \in 0..Len(l) /\ pos[j] \in 0..Len(l) /\ pos[i] < pos[j]
    BY DEF From
  <2>2. pos[j] # 0
    BY <1>1, <2>1
  <2> QED
    BY <1>1, <2>1, <2>2 DEF From
<1>5. FirstLine(l, pos[j])
  <2>1. ASSUME NEW m \in 1..Len(l), m < pos[j], l[m][1] = l[pos[j]][1] PROVE FALSE
    <3>1. l[m] \in present
      BY <1>1, <1>4, <2>1 DEF Source, Good, Here, Since
    <3>2. Found(pos, rows, l, m)
      BY <2>1, <3>1 DEF From
    <3>3. PICK k \in 1..Len(rows) : pos[k] <= m /\ rows[k].path[1] = l[m][1]
      <4>1. ~(pos[j] < m)
        BY <1>4, <2>1
      <4> QED
        BY <3>2, <4>1 DEF Found
    <3>4. k < j
      <4>1. pos[k] \in 0..Len(l) /\ (j < k => pos[j] < pos[k])
        BY DEF From
      <4>2. pos[k] < pos[j]
        BY <1>1, <1>4, <2>1, <3>3, <4>1
      <4> QED
        BY <1>1, <1>2, <1>4, <4>1, <4>2
    <3> QED
      BY <1>2, <1>4, <2>1, <3>3, <3>4 DEF FirstLine
  <2> QED
    BY <1>1, <2>1 DEF FirstLine
<1>6. CASE pos[i] = 0
  <2>1. ToldDisc # <<>> /\ rows[i].path = ToldDisc[1]
    BY <1>6 DEF From
  <2>2. pl # <<>> /\ b \in 1..Len(pl)
    BY <1>3
  <2>3. pl[1] = rows[i].path[1] /\ 1 \in DOMAIN pl /\ 1 <= b
    BY <1>3, <2>1, <2>2 DEF Source
  <2> QED
    BY <2>3
<1>7. CASE pos[i] # 0
  <2>1. pos[i] \in DOMAIN l /\ pos[j] \in DOMAIN l /\ rows[i].path = l[pos[i]]
    BY <1>1, <1>4, <1>7 DEF From
  <2>2. Since(pl, gone, l[pos[j]][1], b)
    BY <1>4
  <2> QED
    BY <1>4, <1>5, <2>1, <2>2 DEF Source, Good, Ordered
<1> QED
  BY <1>6, <1>7

LEMMA RowsHaveAll ==
  ASSUME NEW rows, NEW l, NEW pl, NEW gone, NEW pos, RowsOK(rows), OneRow(rows), From(pos, rows, l, Len(l)),
         Source(l, pl, gone), M3usStay, DiscCount \in [Games -> Nat], MAX_RECENTS \in Nat \ {0}
  PROVE  HasAll(Lines(rows), pl, gone)
<1>1. rows \in Seq(Row) /\ l \in Lined /\ DOMAIN l = 1..Len(l) /\ Len(l) \in Nat
  BY DEF RowsOK, Source, Lined
<1>2. DOMAIN Lines(rows) = 1..Len(rows) /\ Len(rows) \in Nat /\ \A i \in 1..Len(rows) : Lines(rows)[i] = rows[i].path
  BY <1>1, LinesAre
<1>3. pl \in Seq(Games) /\ DOMAIN pl = 1..Len(pl) /\ Len(pl) \in Nat
  BY DEF Source
<1> SUFFICES ASSUME ~split, NEW k \in DOMAIN pl, k < MAX_RECENTS, pl[k] \notin gone,
                    \A i \in 1..Len(rows) : rows[i].path[1] # pl[k]
             PROVE  FALSE
  BY <1>2 DEF HasAll
<1>4. PICK h \in DOMAIN l : l[h][1] = pl[k]
  BY DEF Source, Good, HasAll
<1>5. PICK m \in 1..Len(l) : l[m][1] = pl[k] /\ FirstLine(l, m)
  BY <1>1, <1>4, FirstOfGame DEF Lined
<1>6. l[m] \in present
  BY <1>1, <1>5 DEF Source, Good, Here, Since
<1>7. Found(pos, rows, l, m)
  BY <1>6 DEF From
<1>8. Len(rows) >= MAX_RECENTS /\ \A i \in 1..Len(rows) : pos[i] < m
  BY <1>5, <1>7 DEF Found
<1>9. ASSUME NEW i \in 1..Len(rows) PROVE \E a \in 1..(k - 1) : pl[a] = rows[i].path[1]
  <2>1. pos[i] \in 0..Len(l) /\ pos[i] < m
    BY <1>8 DEF From
  <2>2. CASE pos[i] = 0
    <3>1. ToldDisc # <<>> /\ rows[i].path = ToldDisc[1]
      BY <2>2 DEF From
    <3>2. pl # <<>>
      BY <1>3
    <3>3. pl[1] = rows[i].path[1]
      BY <3>1, <3>2 DEF Source
    <3>4. 1 # k
      BY <3>3
    <3> QED
      BY <1>3, <3>3, <3>4
  <2>3. CASE pos[i] # 0
    <3>1. pos[i] \in DOMAIN l /\ m \in DOMAIN l /\ rows[i].path = l[pos[i]]
      BY <1>1, <2>1, <2>3 DEF From
    <3>2. PICK a \in DOMAIN pl : a <= k /\ pl[a] = l[pos[i]][1]
      BY <1>5, <2>1, <3>1 DEF Source, Good, Ordered, Since
    <3>3. a # k
      BY <3>1, <3>2
    <3> QED
      BY <1>3, <3>1, <3>2, <3>3, SMTT(60)
  <2> QED
    BY <2>2, <2>3
<1>10. Single(Lines(rows))
  BY <1>1, RowsSingle DEF Source
<1>11. \A i, j \in 1..Len(rows) : rows[i].path[1] = rows[j].path[1] => i = j
  BY <1>10, RowGames
<1>12. Len(rows) <= k - 1
  <2> DEFINE f == [i \in 1..Len(rows) |-> CHOOSE a \in 1..(k - 1) : pl[a] = rows[i].path[1]]
  <2>1. \A i \in 1..Len(rows) : f[i] \in 1..(k - 1) /\ pl[f[i]] = rows[i].path[1]
    BY <1>9
  <2>2. f \in [1..Len(rows) -> 1..(k - 1)]
    BY <2>1
  <2> HIDE DEF f
  <2>3. \A i, j \in 1..Len(rows) : f[i] = f[j] => i = j
    BY <1>11, <2>1
  <2>4. k - 1 \in Nat
    BY <1>3
  <2> QED
    BY <1>2, <2>2, <2>3, <2>4, Fits
<1> QED
  BY <1>2, <1>3, <1>8, <1>12

LEMMA RowsGood ==
  ASSUME NEW l, NEW pl, NEW gone, Source(l, pl, gone), M3usStay,
         present \subseteq Paths, change \in Seq(Paths), Len(change) <= 1
  PROVE  LET rows == hasRecents(l)
         IN  RowsOK(rows) /\ OneRow(rows) /\ Single(Lines(rows)) /\ Good(Lines(rows), pl, gone)
<1>1. l \in Seq(Paths \cup {Junk}) /\ Single(l) /\ l \in Lined
  BY DEF Source, Lined
<1>2. MAX_RECENTS \in Nat \ {0} /\ DiscCount \in [Games -> Nat]
  BY ListsAssumption
<1>3. RowsOK(hasRecents(l)) /\ OneRow(hasRecents(l)) /\ \E pos : From(pos, hasRecents(l), l, Len(l))
  BY <1>1, <1>2, hasRecentsDoes
<1> DEFINE rows == hasRecents(l)
<1>4. PICK pos : From(pos, rows, l, Len(l))
  BY <1>3
<1> HIDE DEF rows
<1>5. RowsOK(rows) /\ OneRow(rows)
  BY <1>3 DEF rows
<1>6. Single(Lines(rows))
  BY <1>1, <1>4, <1>5, RowsSingle DEF Source
<1>7. Ordered(Lines(rows), pl, gone) /\ HasAll(Lines(rows), pl, gone)
  BY <1>2, <1>4, <1>5, RowsOrdered, RowsHaveAll
<1>8. Here(Lines(rows), pl, gone)
  <2>1. rows \in Seq(Row) /\ \A i \in 1..Len(rows) : rows[i].path \in present
    BY <1>5 DEF RowsOK
  <2> QED
    BY <2>1, LinesAre DEF Here
<1> QED
  BY <1>5, <1>6, <1>7, <1>8 DEF rows, Good

-----------------------------------------------------------------------------
(* A game launched.                                                        *)

\* s without g, after g: np; at says where its elements were.
NewPlays(np, at, pl, g) ==
  /\ np \in Seq(Games) /\ Len(np) >= 1 /\ np[1] = g
  /\ \A b \in 2..Len(np) : at[b] \in 1..Len(pl) /\ at[b] <= b /\ np[b] = pl[at[b]] /\ np[b] # g
  /\ \A b \in 2..Len(np) : \A a \in 1..Len(pl) : a <= at[b] /\ pl[a] # g => \E x \in 2..b : np[x] = pl[a]
  /\ \A a, b \in 1..Len(np) : np[a] = np[b] => a = b

LEMMA PlaysAfter ==
  ASSUME NEW pl \in Seq(Games), NEW g \in Games, \A a, b \in DOMAIN pl : pl[a] = pl[b] => a = b
  PROVE  \E at : NewPlays(<<g>> \o Filter(pl, Games \ {g}), at, pl, g)
<1> DEFINE t == Filter(pl, Games \ {g})
           np == <<g>> \o t
           L == Len(pl)
<1>1. t \in Seq(Games) /\ Picks(t, pl, L, Games \ {g})
  BY FilterPicks
<1>2. PICK pos : PicksAt(pos, t, pl, L, Games \ {g})
  BY <1>1 DEF Picks
<1>3. /\ L \in Nat /\ DOMAIN pl = 1..L /\ Len(t) \in Nat
      /\ \A a \in 1..L : pl[a] \in Games
  BY <1>1
<1>4. /\ pos \in [1..Len(t) -> 1..L] /\ \A i, j \in 1..Len(t) : i < j => pos[i] < pos[j]
      /\ \A i \in 1..Len(t) : t[i] = pl[pos[i]] /\ t[i] # g
      /\ \A m \in 1..L : pl[m] # g => \E i \in 1..Len(t) : pos[i] = m
  BY <1>2, <1>3 DEF PicksAt, Increasing
<1> HIDE DEF t, L
<1>5. /\ np \in Seq(Games) /\ Len(np) = Len(t) + 1 /\ np[1] = g
      /\ \A b \in 2..Len(np) : np[b] = t[b - 1]
  <2>1. <<g>> \in Seq(Games) /\ Len(<<g>>) = 1 /\ <<g>>[1] = g
    OBVIOUS
  <2>2. np \in Seq(Games) /\ Len(np) = 1 + Len(t)
        /\ \A i \in 1..(1 + Len(t)) : np[i] = IF i <= 1 THEN <<g>>[i] ELSE t[i - 1]
    BY <1>1, <2>1, ConcatProperties
  <2> QED
    BY <1>3, <2>1, <2>2
<1> HIDE DEF np
<1> DEFINE at == [b \in 2..Len(np) |-> pos[b - 1]]
<1>6. ASSUME NEW b \in 2..Len(np)
      PROVE  b - 1 \in 1..Len(t) /\ at[b] = pos[b - 1] /\ at[b] \in 1..L /\ np[b] = pl[at[b]] /\ np[b] # g
  <2>1. b - 1 \in 1..Len(t) /\ at[b] = pos[b - 1]
    BY <1>3, <1>5
  <2> QED
    BY <1>4, <1>5, <2>1
<1>7. ASSUME NEW b \in 2..Len(np), NEW c \in 2..Len(np), b < c PROVE at[b] < at[c]
  <2>1. b - 1 \in 1..Len(t) /\ c - 1 \in 1..Len(t) /\ b - 1 < c - 1 /\ at[b] = pos[b - 1] /\ at[c] = pos[c - 1]
    BY <1>6, <1>7
  <2> QED
    BY <1>4, <2>1
<1>8. ASSUME NEW b \in 2..Len(np), NEW a \in 1..L, a <= at[b], pl[a] # g
      PROVE  \E x \in 2..b : at[x] = a
  <2>1. PICK i \in 1..Len(t) : pos[i] = a
    BY <1>4, <1>8
  <2>2. i + 1 \in 2..Len(np) /\ (i + 1) - 1 = i
    BY <1>3, <1>5
  <2>3. at[i + 1] = a
    BY <2>1, <2>2
  <2>4. i + 1 <= b
    <3>1. CASE b < i + 1
      <4>1. at[b] < at[i + 1] /\ at[b] \in 1..L
        BY <1>6, <1>7, <2>2, <3>1
      <4> QED
        BY <1>3, <1>8, <2>3, <4>1
    <3> QED
      BY <2>2, <3>1
  <2> QED
    BY <2>2, <2>3, <2>4
<1> HIDE DEF at
<1>9. ASSUME NEW b \in 2..Len(np) PROVE at[b] <= b
  <2> DEFINE M == at[b] - 1
             h == [a \in 1..M |-> IF pl[a] = g THEN 1 ELSE CHOOSE x \in 2..(b - 1) : at[x] = a]
  <2>1. M \in Nat /\ b \in Nat /\ b >= 2 /\ \A a \in 1..M : a \in 1..L /\ a < at[b]
    BY <1>3, <1>6
  <2>2. ASSUME NEW a \in 1..M, pl[a] # g PROVE \E x \in 2..(b - 1) : at[x] = a
    <3>1. PICK x \in 2..b : at[x] = a
      <4>1. a \in 1..L /\ a <= at[b]
        BY <1>3, <1>6, <2>1
      <4> QED
        BY <1>8, <2>2, <4>1
    <3>2. x # b
      BY <1>3, <1>6, <2>1, <3>1
    <3> QED
      BY <2>1, <3>1, <3>2
  <2>3. ASSUME NEW a \in 1..M
        PROVE  h[a] \in 1..(b - 1) /\ (pl[a] = g => h[a] = 1) /\ (pl[a] # g => h[a] \in 2..(b - 1) /\ at[h[a]] = a)
    <3>1. CASE pl[a] = g
      BY <2>1, <3>1
    <3>2. CASE pl[a] # g
      <4>1. h[a] = CHOOSE x \in 2..(b - 1) : at[x] = a
        BY <3>2
      <4>2. h[a] \in 2..(b - 1) /\ at[h[a]] = a
        BY <2>2, <3>2, <4>1
      <4> QED
        BY <2>1, <3>2, <4>2
    <3> QED
      BY <3>1, <3>2
  <2>4. h \in [1..M -> 1..(b - 1)]
    BY <2>3
  <2> HIDE DEF h
  <2>5. ASSUME NEW a \in 1..M, NEW c \in 1..M, h[a] = h[c] PROVE a = c
    <3>1. CASE pl[a] = g /\ pl[c] = g
      BY <1>3, <2>1, <3>1
    <3>2. CASE pl[a] # g /\ pl[c] # g
      BY <2>3, <2>5, <3>2
    <3>3. CASE (pl[a] = g) # (pl[c] = g)
      <4>1. 1 \notin 2..(b - 1)
        BY <2>1
      <4> QED
        BY <2>3, <2>5, <3>3, <4>1
    <3> QED
      BY <3>1, <3>2, <3>3
  <2>6. b - 1 \in Nat
    BY <2>1
  <2> HIDE DEF M
  <2>7. M <= b - 1
    BY <2>1, <2>4, <2>5, <2>6, Fits
  <2> QED
    BY <1>3, <1>6, <2>1, <2>7 DEF M
<1>10. \A b \in 2..Len(np) : \A a \in 1..L : a <= at[b] /\ pl[a] # g => \E x \in 2..b : np[x] = pl[a]
  <2>1. ASSUME NEW b \in 2..Len(np), NEW a \in 1..L, a <= at[b], pl[a] # g PROVE \E x \in 2..b : np[x] = pl[a]
    <3>1. PICK x \in 2..b : at[x] = a
      BY <1>8, <2>1
    <3>2. x \in 2..Len(np)
      BY <1>3, <1>5, <3>1
    <3> QED
      BY <1>6, <3>1, <3>2
  <2> QED
    BY <2>1
<1>11. ASSUME NEW a \in 1..Len(np), NEW b \in 1..Len(np), np[a] = np[b] PROVE a = b
  <2>1. \A x \in 1..Len(np) : x = 1 \/ x \in 2..Len(np)
    BY <1>3, <1>5
  <2>2. ASSUME NEW x \in 2..Len(np), NEW y \in 2..Len(np), np[x] = np[y] PROVE x = y
    <3>1. at[x] = at[y] /\ at[x] \in 1..L
      BY <1>3, <1>6, <2>2
    <3>2. ~(x < y) /\ ~(y < x)
      BY <1>3, <1>7, <3>1
    <3> QED
      BY <3>2
  <2> QED
    BY <1>5, <1>6, <1>11, <2>1, <2>2
<1>12. NewPlays(np, at, pl, g)
  BY <1>3, <1>5, <1>6, <1>9, <1>10, <1>11 DEF NewPlays, L
<1> QED
  BY <1>12 DEF np, t

\* The rows after a launch: the one of r on top, then the others as they were,
\* but for the last when there was no room.
Added(new, pos, r) ==
  /\ new \in Seq(Row) /\ Len(new) \in 1..MAX_RECENTS
  /\ new[1].path = r /\ (new[1] = Recent_new(r) \/ \E i \in 1..Len(recents) : new[1] = recents[i])
  /\ \A j \in 2..Len(new) : pos[j] \in 1..Len(recents) /\ new[j] = recents[pos[j]]
  /\ \A i, j \in 2..Len(new) : i < j => pos[i] < pos[j]
  /\ \A j \in 2..Len(new) : recents[pos[j]].path = r => \E i \in 1..Len(recents) : i # pos[j] /\ recents[i].path = r
  /\ \A i \in 1..Len(recents) :
       \/ recents[i].path = r
       \/ \E j \in 2..Len(new) : pos[j] = i
       \/ i = Len(recents) /\ i = MAX_RECENTS

LEMMA addRecentNew ==
  ASSUME recents \in Seq(Row), Len(recents) <= MAX_RECENTS, MAX_RECENTS \in Nat \ {0}, NEW r \in Paths,
         \A i \in 1..Len(recents) : recents[i].path # r
  PROVE  \E pos : Added(addRecent(r), pos, r)
<1> DEFINE L == Len(recents)
           k == IF L < MAX_RECENTS THEN L ELSE MAX_RECENTS - 1
           top == <<Recent_new(r)>>
           rest == SubSeq(recents, 1, k)
           new == top \o rest
<1>1. L \in Nat /\ DOMAIN recents = 1..L /\ \A i \in 1..L : recents[i] \in Row
  OBVIOUS
<1>2. addRecent(r) = new
  <2>1. {i \in DOMAIN recents : recents[i].path = r} = {}
    BY <1>1
  <2> QED
    BY <2>1 DEF addRecent
<1>3. Recent_new(r) \in Row /\ Recent_new(r).path = r
  BY DEF Recent_new, hasEmu, Row
<1>0. L <= MAX_RECENTS /\ MAX_RECENTS \in Nat /\ MAX_RECENTS >= 1
  OBVIOUS
<1> HIDE DEF L
<1>4. k \in Nat /\ k <= L /\ k + 1 <= MAX_RECENTS /\ (k # L => L = MAX_RECENTS /\ k = L - 1)
  <2>1. CASE L < MAX_RECENTS
    <3>1. k = L
      BY <2>1
    <3> QED
      BY <1>0, <1>1, <2>1, <3>1
  <2>2. CASE ~(L < MAX_RECENTS)
    <3>1. L = MAX_RECENTS
      BY <1>0, <1>1, <2>2
    <3>2. k = MAX_RECENTS - 1
      BY <2>2
    <3> QED
      BY <1>0, <1>1, <3>1, <3>2
  <2> QED
    BY <2>1, <2>2
<1> HIDE DEF k
<1>5. rest \in Seq(Row) /\ Len(rest) = k /\ \A i \in 1..k : rest[i] = recents[i]
  <2>1. \A i \in 1..k : recents[i] \in Row
    BY <1>1, <1>4
  <2> QED
    BY <1>4, <2>1, SubSeqProperties
<1>6. top \in Seq(Row) /\ Len(top) = 1 /\ top[1] = Recent_new(r)
  BY <1>3
<1> HIDE DEF rest, top
<1>7. new \in Seq(Row) /\ Len(new) = 1 + k /\ \A i \in 1..(1 + k) : new[i] = IF i <= 1 THEN top[i] ELSE rest[i - 1]
  <2>1. /\ new \in Seq(Row) /\ Len(new) = Len(top) + Len(rest)
        /\ \A i \in 1..(Len(top) + Len(rest)) : new[i] = IF i <= Len(top) THEN top[i] ELSE rest[i - Len(top)]
    BY <1>5, <1>6, ConcatProperties
  <2> QED
    BY <1>5, <1>6, <2>1
<1> HIDE DEF new
<1> DEFINE pos == [j \in 2..(1 + k) |-> j - 1]
<1>8. \A j \in 2..(1 + k) : pos[j] = j - 1 /\ pos[j] \in 1..L /\ new[j] = recents[pos[j]]
  BY <1>1, <1>4, <1>5, <1>7
<1>9. new[1] = Recent_new(r)
  BY <1>4, <1>6, <1>7
<1>10. \A i \in 1..L : (\E j \in 2..(1 + k) : pos[j] = i) \/ (i = L /\ i = MAX_RECENTS)
  <2>1. ASSUME NEW i \in 1..L PROVE (\E j \in 2..(1 + k) : pos[j] = i) \/ (i = L /\ i = MAX_RECENTS)
    <3>1. CASE i <= k
      <4>1. i + 1 \in 2..(1 + k) /\ pos[i + 1] = i
        BY <1>1, <1>4, <3>1
      <4> QED
        BY <4>1
    <3>2. CASE i > k
      BY <1>1, <1>4, <3>2
    <3> QED
      BY <1>1, <1>4, <3>1, <3>2
  <2> QED
    BY <2>1
<1>11. \A i, j \in 2..(1 + k) : i < j => pos[i] < pos[j]
  BY <1>4
<1> HIDE DEF pos
<1>12. Len(new) \in 1..MAX_RECENTS
  BY <1>4, <1>7
<1>13. Added(new, pos, r)
  BY <1>3, <1>7, <1>8, <1>9, <1>10, <1>11, <1>12 DEF Added, L
<1> QED
  BY <1>2, <1>13

LEMMA addRecentOld ==
  ASSUME recents \in Seq(Row), Len(recents) <= MAX_RECENTS, MAX_RECENTS \in Nat \ {0}, NEW r \in Paths,
         ~ \A i \in 1..Len(recents) : recents[i].path # r
  PROVE  \E pos : Added(addRecent(r), pos, r)
<1> DEFINE L == Len(recents)
           at == {i \in DOMAIN recents : recents[i].path = r}
           i0 == CHOOSE j \in at : \A k \in at : j <= k
           new == <<recents[i0]>> \o SubSeq(recents, 1, i0 - 1) \o SubSeq(recents, i0 + 1, Len(recents))
<1>1. L \in Nat /\ DOMAIN recents = 1..L /\ (\A i \in 1..L : recents[i] \in Row) /\ L <= MAX_RECENTS
  OBVIOUS
<1>2. at # {} /\ at \subseteq 1..L
  BY <1>1
<1>3. addRecent(r) = new
  BY <1>2 DEF addRecent
<1>4. i0 \in 1..L /\ recents[i0].path = r
  <2>1. at \subseteq Nat
    BY <1>1, <1>2
  <2>2. \E j \in at : \A k \in at : j <= k
    BY <1>2, <2>1, NatMin
  <2> HIDE DEF at
  <2>3. i0 \in at
    BY <2>2
  <2> QED
    BY <1>2, <2>3 DEF at
<1> HIDE DEF i0, L
<1>5. <<recents[i0]>> \in Seq(Row) /\ Len(<<recents[i0]>>) = 1 /\ <<recents[i0]>>[1] = recents[i0]
  BY <1>1, <1>4
<1> DEFINE low == SubSeq(recents, 1, i0 - 1)
           high == SubSeq(recents, i0 + 1, Len(recents))
           mid == <<recents[i0]>> \o low
<1>6. low \in Seq(Row) /\ Len(low) = i0 - 1 /\ \A i \in 1..(i0 - 1) : low[i] = recents[i]
  <2>1. \A i \in 1..(i0 - 1) : recents[i] \in Row
    BY <1>1, <1>4
  <2>2. i0 - 1 \in Int /\ 1 \in Int
    BY <1>4
  <2> QED
    BY <1>1, <1>4, <2>1, <2>2, SubSeqProperties
<1>7. high \in Seq(Row) /\ Len(high) = L - i0 /\ \A i \in 1..(L - i0) : high[i] = recents[i0 + i]
  <2>0. Len(recents) = L
    BY DEF L
  <2>1. \A i \in (i0 + 1)..L : recents[i] \in Row
    BY <1>1, <1>4
  <2>2. i0 + 1 \in Int /\ L \in Int
    BY <1>1, <1>4
  <2>3. /\ high \in Seq(Row) /\ Len(high) = IF i0 + 1 <= L THEN L - (i0 + 1) + 1 ELSE 0
        /\ \A i \in 1..(L - (i0 + 1) + 1) : high[i] = recents[(i0 + 1) + i - 1]
    BY <2>0, <2>1, <2>2, SubSeqProperties
  <2> QED
    BY <1>1, <1>4, <2>3
<1> HIDE DEF low, high
<1>8. /\ mid \in Seq(Row) /\ Len(mid) = i0
      /\ \A i \in 1..i0 : mid[i] = IF i <= 1 THEN recents[i0] ELSE recents[i - 1]
  <2>1. /\ mid \in Seq(Row) /\ Len(mid) = 1 + (i0 - 1)
        /\ \A i \in 1..(1 + (i0 - 1)) : mid[i] = IF i <= 1 THEN <<recents[i0]>>[i] ELSE low[i - 1]
    BY <1>5, <1>6, ConcatProperties
  <2> QED
    BY <1>1, <1>4, <1>5, <1>6, <2>1
<1>9. new = mid \o high
  BY DEF low, high
<1> HIDE DEF mid, new
<1>10. /\ new \in Seq(Row) /\ Len(new) = L
       /\ \A i \in 1..L : new[i] = IF i <= i0 THEN mid[i] ELSE high[i - i0]
  <2>1. /\ new \in Seq(Row) /\ Len(new) = i0 + (L - i0)
        /\ \A i \in 1..(i0 + (L - i0)) : new[i] = IF i <= i0 THEN mid[i] ELSE high[i - i0]
    BY <1>7, <1>8, <1>9, ConcatProperties, SMTT(60)
  <2> QED
    BY <1>1, <1>4, <2>1
<1> DEFINE pos == [j \in 2..L |-> IF j <= i0 THEN j - 1 ELSE j]
<1>11. new[1] = recents[i0]
  BY <1>1, <1>4, <1>8, <1>10
<1>12. ASSUME NEW j \in 2..L PROVE pos[j] \in 1..L /\ pos[j] # i0 /\ new[j] = recents[pos[j]]
  <2>1. CASE j <= i0
    <3>1. pos[j] = j - 1 /\ j \in 1..i0 /\ ~(j <= 1) /\ j \in 1..L
      BY <1>1, <1>4, <2>1
    <3>2. new[j] = recents[j - 1]
      BY <1>8, <1>10, <2>1, <3>1
    <3> QED
      BY <1>1, <1>4, <2>1, <3>1, <3>2
  <2>2. CASE ~(j <= i0)
    <3>1. pos[j] = j /\ j - i0 \in 1..(L - i0) /\ i0 + (j - i0) = j /\ j \in 1..L
      BY <1>1, <1>4, <2>2
    <3>2. new[j] = recents[j]
      BY <1>7, <1>10, <2>2, <3>1
    <3> QED
      BY <1>1, <1>4, <2>2, <3>1, <3>2
  <2> QED
    BY <2>1, <2>2
<1>13. ASSUME NEW i \in 1..L, recents[i].path # r PROVE \E j \in 2..L : pos[j] = i
  <2>1. i # i0
    BY <1>4, <1>13
  <2>2. CASE i < i0
    <3>1. i + 1 \in 2..L /\ pos[i + 1] = i
      BY <1>1, <1>4, <2>2
    <3> QED
      BY <3>1
  <2>3. CASE i > i0
    <3>1. i \in 2..L /\ pos[i] = i
      BY <1>1, <1>4, <2>3
    <3> QED
      BY <3>1
  <2> QED
    BY <1>1, <1>4, <2>1, <2>2, <2>3
<1>14. \A i, j \in 2..L : i < j => pos[i] < pos[j]
  BY <1>1, <1>4
<1> HIDE DEF pos
<1>15. Len(new) \in 1..MAX_RECENTS
  BY <1>1, <1>4, <1>10
<1>16. Added(new, pos, r)
  BY <1>4, <1>10, <1>11, <1>12, <1>13, <1>14, <1>15 DEF Added, L
<1> QED
  BY <1>3, <1>16

LEMMA addRecentDoes ==
  ASSUME recents \in Seq(Row), Len(recents) <= MAX_RECENTS, MAX_RECENTS \in Nat \ {0}, NEW r \in Paths
  PROVE  \E pos : Added(addRecent(r), pos, r)
BY addRecentNew, addRecentOld

\* What the rows are before the launch.
Before(pl, gone) ==
  /\ RowsOK(recents) /\ OneRow(recents) /\ Single(Lines(recents)) /\ Good(Lines(recents), pl, gone)
  /\ pl \in Seq(Games)

FirstRow(rows, j) == \A k \in 1..Len(rows) : k < j => rows[k].path[1] # rows[j].path[1]

\* The order of the lines, said of the rows.
LEMMA RowOrder ==
  ASSUME NEW rows \in Seq(Row), NEW pl, NEW gone, Ordered(Lines(rows), pl, gone),
         NEW i \in 1..Len(rows), NEW j \in 1..Len(rows), i < j, FirstRow(rows, j),
         NEW b \in DOMAIN pl, pl[b] = rows[j].path[1], pl[b] \notin gone
  PROVE  \E a \in DOMAIN pl : a <= b /\ pl[a] = rows[i].path[1]
<1>1. /\ DOMAIN Lines(rows) = 1..Len(rows) /\ Len(rows) \in Nat
      /\ \A k \in 1..Len(rows) : Lines(rows)[k] = rows[k].path
  BY LinesAre
<1> DEFINE l == Lines(rows)
<1> HIDE DEF l
<1>2. DOMAIN l = 1..Len(rows) /\ \A k \in 1..Len(rows) : l[k][1] = rows[k].path[1]
  BY <1>1 DEF l
<1>3. FirstLine(l, j)
  BY <1>2 DEF FirstLine, FirstRow
<1>4. Since(pl, gone, l[j][1], b)
  BY <1>2 DEF Since
<1>5. Ordered(l, pl, gone)
  BY DEF l
<1>6. \E a \in DOMAIN pl : a <= b /\ pl[a] = l[i][1]
  BY <1>2, <1>3, <1>4, <1>5 DEF Ordered
<1> QED
  BY <1>2, <1>6

\* A game that has a row has a first one.
LEMMA FirstRowOfGame ==
  ASSUME NEW rows \in Seq(Row), NEW i \in 1..Len(rows)
  PROVE  \E j \in 1..Len(rows) : rows[j].path[1] = rows[i].path[1] /\ FirstRow(rows, j)
<1> DEFINE T == {k \in 1..Len(rows) : rows[k].path[1] = rows[i].path[1]}
<1>1. T \subseteq Nat /\ T # {}
  OBVIOUS
<1>2. PICK j \in T : \A k \in T : j <= k
  BY <1>1, NatMin
<1>3. j \in 1..Len(rows) /\ rows[j].path[1] = rows[i].path[1]
  BY <1>2
<1>4. ASSUME NEW k \in 1..Len(rows), k < j, rows[k].path[1] = rows[j].path[1] PROVE FALSE
  <2>1. j <= k
    BY <1>2, <1>3, <1>4
  <2> QED
    BY <1>3, <1>4, <2>1
<1> QED
  BY <1>3, <1>4 DEF FirstRow

LEMMA AddedOrdered ==
  ASSUME NEW pl, NEW gone, Before(pl, gone), NEW r, NEW new, NEW pos, Added(new, pos, r),
         NEW np, NEW at, NewPlays(np, at, pl, r[1])
  PROVE  Ordered(Lines(new), np, gone \ {r[1]})
<1>1. new \in Seq(Row) /\ recents \in Seq(Row)
  BY DEF Added, Before, RowsOK
<1>2. /\ DOMAIN Lines(new) = 1..Len(new) /\ Len(new) \in Nat /\ \A i \in 1..Len(new) : Lines(new)[i] = new[i].path
      /\ DOMAIN Lines(recents) = 1..Len(recents) /\ Len(recents) \in Nat
      /\ \A i \in 1..Len(recents) : Lines(recents)[i] = recents[i].path
  BY <1>1, LinesAre
<1>3. /\ DOMAIN pl = 1..Len(pl) /\ Len(pl) \in Nat /\ DOMAIN np = 1..Len(np) /\ Len(np) \in Nat
      /\ 1 \in DOMAIN np /\ np[1] = r[1]
  BY DEF Before, NewPlays
<1> SUFFICES ASSUME NEW i \in 1..Len(new), NEW j \in 1..Len(new), NEW b \in DOMAIN np,
                    i < j, FirstLine(Lines(new), j), Since(np, gone \ {r[1]}, new[j].path[1], b)
             PROVE  \E a \in DOMAIN np : a <= b /\ np[a] = new[i].path[1]
  BY <1>2 DEF Ordered
<1>4. new[1].path = r /\ 1 \in 1..Len(new) /\ j # 1 /\ j \in 2..Len(new)
  BY <1>2 DEF Added
<1>8. \A k \in 1..Len(new) : k < j => new[k].path[1] # new[j].path[1]
  BY <1>2 DEF FirstLine
<1>5. new[j].path[1] # r[1]
  BY <1>4, <1>8, <1>2
<1>6. CASE new[i].path[1] = r[1]
  BY <1>3, <1>6
<1>7. CASE new[i].path[1] # r[1]
  <2>1. i # 1 /\ i \in 2..Len(new)
    BY <1>2, <1>4, <1>7
  <2>2. np[b] = new[j].path[1] /\ b \in 2..Len(np) /\ new[j].path[1] \notin gone
    BY <1>3, <1>5 DEF Since
  <2>3. /\ pos[i] \in 1..Len(recents) /\ pos[j] \in 1..Len(recents) /\ pos[i] < pos[j]
        /\ new[i] = recents[pos[i]] /\ new[j] = recents[pos[j]]
    BY <1>4, <2>1 DEF Added
  <2>4. FirstRow(recents, pos[j])
    <3>1. ASSUME NEW k \in 1..Len(recents), k < pos[j], recents[k].path[1] = recents[pos[j]].path[1] PROVE FALSE
      <4>1. recents[k].path # r /\ k # Len(recents)
        BY <1>2, <1>5, <2>3, <3>1
      <4>2. PICK x \in 2..Len(new) : pos[x] = k
        BY <4>1 DEF Added
      <4>3. new[x] = recents[k] /\ x \in 1..Len(new)
        BY <1>2, <4>2 DEF Added
      <4>4. ~(x < j)
        BY <1>8, <2>3, <3>1, <4>3
      <4>5. j < x => pos[j] < pos[x]
        BY <1>4 DEF Added
      <4> QED
        BY <1>2, <2>3, <3>1, <4>2, <4>4, <4>5
    <3> QED
      BY <3>1 DEF FirstRow
  <2>5. at[b] \in 1..Len(pl) /\ at[b] <= b /\ np[b] = pl[at[b]]
    BY <2>2 DEF NewPlays
  <2>6. PICK a \in DOMAIN pl : a <= at[b] /\ pl[a] = new[i].path[1]
    <3>1. /\ at[b] \in DOMAIN pl /\ pl[at[b]] = recents[pos[j]].path[1] /\ pl[at[b]] \notin gone
          /\ Ordered(Lines(recents), pl, gone)
      BY <1>3, <2>2, <2>3, <2>5 DEF Before, Good
    <3>2. \E a \in DOMAIN pl : a <= at[b] /\ pl[a] = recents[pos[i]].path[1]
      BY <1>1, <2>3, <2>4, <3>1, RowOrder
    <3> QED
      BY <2>3, <3>2
  <2>7. PICK x \in 2..b : np[x] = pl[a]
    BY <1>3, <1>7, <2>2, <2>6 DEF NewPlays
  <2>8. x \in DOMAIN np /\ x <= b
    BY <1>3, <2>2, <2>7
  <2> QED
    BY <2>6, <2>7, <2>8
<1> QED
  BY <1>6, <1>7

LEMMA AddedHasAll ==
  ASSUME NEW pl, NEW gone, Before(pl, gone), NEW r, NEW new, NEW pos, Added(new, pos, r),
         NEW np, NEW at, NewPlays(np, at, pl, r[1]), M3usStay, DiscCount \in [Games -> Nat], MAX_RECENTS \in Nat \ {0}
  PROVE  HasAll(Lines(new), np, gone \ {r[1]})
<1>1. new \in Seq(Row) /\ recents \in Seq(Row)
  BY DEF Added, Before, RowsOK
<1>2. /\ DOMAIN Lines(new) = 1..Len(new) /\ Len(new) \in Nat /\ \A i \in 1..Len(new) : Lines(new)[i] = new[i].path
      /\ DOMAIN Lines(recents) = 1..Len(recents) /\ Len(recents) \in Nat
      /\ \A i \in 1..Len(recents) : Lines(recents)[i] = recents[i].path
  BY <1>1, LinesAre
<1>3. /\ DOMAIN pl = 1..Len(pl) /\ Len(pl) \in Nat /\ DOMAIN np = 1..Len(np) /\ Len(np) \in Nat
      /\ 1 \in DOMAIN np /\ np[1] = r[1]
  BY DEF Before, NewPlays
<1> SUFFICES ASSUME ~split, NEW k \in DOMAIN np, k < MAX_RECENTS, np[k] \notin gone \ {r[1]},
                    \A i \in 1..Len(new) : new[i].path[1] # np[k]
             PROVE  FALSE
  <2>1. ASSUME ~split, NEW k \in DOMAIN np, k < MAX_RECENTS, np[k] \notin gone \ {r[1]}
        PROVE  \E i \in 1..Len(new) : new[i].path[1] = np[k]
    BY <2>1
  <2> QED
    BY <1>2, <2>1, SMTT(60) DEF HasAll
<1>4. new[1].path = r /\ 1 \in 1..Len(new)
  <2>1. Len(new) \in 1..MAX_RECENTS /\ new[1].path = r
    BY DEF Added
  <2> QED
    BY <1>2, <2>1
<1>5. np[k] # r[1] /\ k \in 2..Len(np) /\ np[k] \notin gone
  BY <1>3, <1>4
<1>6. at[k] \in 1..Len(pl) /\ at[k] <= k /\ np[k] = pl[at[k]]
  BY <1>5 DEF NewPlays
<1>7. at[k] \in DOMAIN pl /\ at[k] < MAX_RECENTS
  BY <1>3, <1>6
<1>8. PICK h \in 1..Len(recents) : recents[h].path[1] = np[k]
  <2>1. \E i \in DOMAIN Lines(recents) : Lines(recents)[i][1] = pl[at[k]]
    BY <1>5, <1>6, <1>7 DEF Before, Good, HasAll
  <2> QED
    BY <1>2, <1>6, <2>1, SMTT(60)
<1>9. PICK m \in 1..Len(recents) : recents[m].path[1] = np[k] /\ FirstRow(recents, m)
  <2>1. \E j \in 1..Len(recents) : recents[j].path[1] = recents[h].path[1] /\ FirstRow(recents, j)
    BY <1>1, FirstRowOfGame
  <2> QED
    BY <1>8, <2>1
<1>10. m = Len(recents) /\ m = MAX_RECENTS
  <2>1. recents[m].path # r
    BY <1>5, <1>9
  <2>2. ASSUME NEW j \in 2..Len(new), pos[j] = m PROVE FALSE
    <3>1. new[j] = recents[pos[j]]
      BY DEF Added
    <3>2. j \in 1..Len(new)
      BY <1>2
    <3> QED
      BY <1>9, <2>2, <3>1, <3>2
  <2> QED
    BY <2>1, <2>2 DEF Added
<1> DEFINE K == at[k] - 1
           M == MAX_RECENTS - 1
<1>11. K \in Nat /\ M \in Nat /\ K < M /\ \A i \in 1..M : i \in 1..Len(recents) /\ i < m
  BY <1>3, <1>6, <1>7, <1>10
<1>12. ASSUME NEW i \in 1..M PROVE \E a \in 1..K : pl[a] = recents[i].path[1]
  <2>1. i \in 1..Len(recents) /\ i < m
    BY <1>11
  <2>2. /\ pl[at[k]] = recents[m].path[1] /\ pl[at[k]] \notin gone
        /\ Ordered(Lines(recents), pl, gone)
    BY <1>5, <1>6, <1>9 DEF Before, Good
  <2>3. PICK a \in DOMAIN pl : a <= at[k] /\ pl[a] = recents[i].path[1]
    BY <1>1, <1>7, <1>9, <2>1, <2>2, RowOrder
  <2>4. a # at[k]
    BY <1>6, <1>9, <2>1, <2>3 DEF FirstRow
  <2> QED
    BY <1>3, <1>6, <2>3, <2>4
<1>13. \A i, j \in 1..Len(recents) : recents[i].path[1] = recents[j].path[1] => i = j
  BY RowGames DEF Before
<1>14. M <= K
  <2> DEFINE f == [i \in 1..M |-> CHOOSE a \in 1..K : pl[a] = recents[i].path[1]]
  <2> HIDE DEF M, K
  <2>1. \A i \in 1..M : f[i] \in 1..K /\ pl[f[i]] = recents[i].path[1]
    BY <1>12
  <2>2. f \in [1..M -> 1..K]
    BY <2>1
  <2> HIDE DEF f
  <2>3. \A i, j \in 1..M : f[i] = f[j] => i = j
    BY <1>11, <1>13, <2>1
  <2> QED
    BY <1>11, <2>2, <2>3, Fits
<1> QED
  BY <1>11, <1>14

LEMMA AddedSingle ==
  ASSUME NEW pl, NEW gone, Before(pl, gone), NEW r, NEW new, NEW pos, Added(new, pos, r)
  PROVE  Single(Lines(new))
<1>1. new \in Seq(Row) /\ recents \in Seq(Row)
  BY DEF Added, Before, RowsOK
<1>2. /\ DOMAIN Lines(new) = 1..Len(new) /\ Len(new) \in Nat /\ \A i \in 1..Len(new) : Lines(new)[i] = new[i].path
      /\ DOMAIN Lines(recents) = 1..Len(recents) /\ Len(recents) \in Nat
      /\ \A i \in 1..Len(recents) : Lines(recents)[i] = recents[i].path
  BY <1>1, LinesAre
<1>3. \A i \in 1..Len(new) : i = 1 \/ i \in 2..Len(new)
  BY <1>2
<1>4. new[1].path = r
  BY DEF Added
<1>5. \A i, j \in 1..Len(recents) :
        recents[i].path = recents[j].path /\ recents[i].path \in Paths /\ ~Multi(recents[i].path) => i = j
  BY <1>2 DEF Before, Single
<1>6. ASSUME NEW j \in 2..Len(new), new[j].path = r, r \in Paths, ~Multi(r) PROVE FALSE
  <2>1. pos[j] \in 1..Len(recents) /\ recents[pos[j]].path = r
    BY <1>6 DEF Added
  <2>2. PICK i \in 1..Len(recents) : i # pos[j] /\ recents[i].path = r
    BY <1>6, <2>1 DEF Added
  <2> QED
    BY <1>5, <1>6, <2>1, <2>2
<1>7. ASSUME NEW i \in 2..Len(new), NEW j \in 2..Len(new), new[i].path = new[j].path, new[i].path \in Paths,
             ~Multi(new[i].path)
      PROVE  i = j
  <2>1. /\ pos[i] \in 1..Len(recents) /\ pos[j] \in 1..Len(recents)
        /\ new[i] = recents[pos[i]] /\ new[j] = recents[pos[j]]
    BY DEF Added
  <2>2. pos[i] = pos[j]
    BY <1>5, <1>7, <2>1
  <2>3. (i < j => pos[i] < pos[j]) /\ (j < i => pos[j] < pos[i])
    BY DEF Added
  <2> QED
    BY <1>2, <2>1, <2>2, <2>3
<1> QED
  BY <1>2, <1>3, <1>4, <1>6, <1>7 DEF Single

LEMMA AddedGood ==
  ASSUME NEW pl, NEW gone, Before(pl, gone), NEW r \in present, NEW new, NEW pos, Added(new, pos, r),
         NEW np, NEW at, NewPlays(np, at, pl, r[1]), M3usStay, DiscCount \in [Games -> Nat], MAX_RECENTS \in Nat \ {0}
  PROVE  Single(Lines(new)) /\ Good(Lines(new), np, gone \ {r[1]})
<1>1. Ordered(Lines(new), np, gone \ {r[1]})
  BY AddedOrdered
<1>2. HasAll(Lines(new), np, gone \ {r[1]})
  BY AddedHasAll
<1>3. Here(Lines(new), np, gone \ {r[1]})
  <2>1. new \in Seq(Row) /\ recents \in Seq(Row)
    BY DEF Added, Before, RowsOK
  <2>2. DOMAIN Lines(new) = 1..Len(new) /\ Len(new) \in Nat /\ \A i \in 1..Len(new) : Lines(new)[i] = new[i].path
    BY <2>1, LinesAre
  <2>3. ASSUME NEW i \in 1..Len(new) PROVE new[i].path \in present
    <3>1. i = 1 \/ i \in 2..Len(new)
      BY <2>2
    <3>2. \A k \in 1..Len(recents) : recents[k].path \in present
      BY DEF Before, RowsOK
    <3> QED
      BY <3>1, <3>2 DEF Added
  <2> QED
    BY <2>2, <2>3 DEF Here
<1>4. Single(Lines(new))
  BY AddedSingle
<1> QED
  BY <1>1, <1>2, <1>3, <1>4 DEF Good

-----------------------------------------------------------------------------
(* One lemma for each action.                                              *)

\* The parts about what is kept hold while nothing they speak of changes.
LEMMA KeptSame ==
  ASSUME ListsInv, UNCHANGED <<present, recent, plays, touched, split, lost>>
  PROVE  Stored' /\ Distinct' /\ M3usStay' /\ Single(recent)' /\ \A g : LastOne(g) => LastOne(g)'
<1>1. Stored'
  BY DEF ListsInv, Stored, Good, Ordered, Here, HasAll, Since, FirstLine
<1>2. Distinct' /\ M3usStay'
  BY DEF ListsInv, Distinct, M3usStay
<1>3. Single(recent)'
  BY DEF ListsInv, Singles, Single, Multi
<1>4. \A g : LastOne(g) => LastOne(g)'
  BY DEF LastOne, Top
<1> QED
  BY <1>1, <1>2, <1>3, <1>4

Rewrites == [Names -> {"kept", "renamed", "cut"}]

LEMMA KeptAllType == KeptAll \in Rewrites
BY DEF KeptAll, Rewrites

LEMMA autoResumeKeeps == ListsInv /\ autoResume => ListsInv'
<1> SUFFICES ASSUME ListsInv, autoResume PROVE ListsInv'
  OBVIOUS
<1> USE DEF autoResume, card, past
<1>1. Stored' /\ Distinct' /\ M3usStay' /\ Single(recent)' /\ \A g : LastOne(g) => LastOne(g)'
  BY KeptSame
<1>2. marker # <<>> /\ marker \in Seq(Paths) /\ Head(marker) = marker[1] /\ marker[1] \in Paths
  BY DEF ListsInv, ListsTypeOK, Resumable
<1>3. ListsTypeOK'
  <2>1. disk' \in [recent : Lined, coll : Collections] /\ rewrite' \in Rewrites
    BY KeptAllType DEF ListsInv, ListsTypeOK
  <2> QED
    BY <1>2, <2>1 DEF ListsInv, ListsTypeOK, Rewrites
<1>4. Shown' /\ Notes'
  BY DEF ListsInv, Shown, Notes
<1>5. Playing'
  BY <1>1, <1>2 DEF ListsInv, Playing
<1>6. Singles'
  BY <1>1 DEF Singles, Single, Multi
<1>7. PickerTells'
  BY DEF ListsInv, Notes, PickerTells, Closed
<1> QED
  BY <1>1, <1>3, <1>4, <1>5, <1>6, <1>7 DEF ListsInv

LEMMA PowerOffKeeps == ListsInv /\ PowerOff => ListsInv'
<1> SUFFICES ASSUME ListsInv, PowerOff PROVE ListsInv'
  OBVIOUS
<1> USE DEF PowerOff, card, past
<1>1. Stored' /\ Distinct' /\ M3usStay' /\ Single(recent)' /\ \A g : LastOne(g) => LastOne(g)'
  BY KeptSame
<1>2. proc = "game" => playing \in Paths /\ LastOne(playing[1])
  BY DEF ListsInv, Playing
<1>3. ListsTypeOK'
  <2>1. disk' \in [recent : Lined, coll : Collections] /\ rewrite' \in Rewrites
    BY KeptAllType DEF ListsInv, ListsTypeOK
  <2>2. marker' \in Seq(Paths)
    BY <1>2
  <2>3. Len(recents') <= MAX_RECENTS /\ recents' \in Seq([path : Paths, available : BOOLEAN])
    <3>1. recents' = <<>> /\ MAX_RECENTS \in Nat
      BY ListsAssumption
    <3> QED
      BY <3>1
  <2>4. DOMAIN picker' \subseteq Names
    BY DEF Closed
  <2> QED
    BY <2>1, <2>2, <2>3, <2>4 DEF ListsInv, ListsTypeOK, Rewrites
<1>4. Shown' /\ Notes'
  BY DEF ListsInv, Shown, Notes, Closed
<1>5. Playing'
  <2>1. marker' # <<>> => proc = "game" /\ marker'[1][1] = playing[1]
    BY <1>2
  <2> QED
    BY <1>1, <1>2, <2>1 DEF Playing
<1>6. Singles'
  BY <1>1 DEF Singles, Single, Multi
<1>7. PickerTells'
  BY DEF PickerTells, Closed
<1> QED
  BY <1>1, <1>3, <1>4, <1>5, <1>6, <1>7 DEF ListsInv

LEMMA WritebackKeeps == ListsInv /\ Writeback => ListsInv'
<1> SUFFICES ASSUME ListsInv, Writeback PROVE ListsInv'
  OBVIOUS
<1> USE DEF Writeback, card, past
<1>1. Stored' /\ Distinct' /\ M3usStay' /\ Single(recent)' /\ \A g : LastOne(g) => LastOne(g)'
  BY KeptSame
<1>2. disk' \in [recent : Lined, coll : Collections] /\ disk'.recent \in {recent, disk.recent}
  BY DEF ListsInv, ListsTypeOK
<1>3. ListsTypeOK'
  <2>1. rewrite' \in Rewrites
    BY KeptAllType DEF ListsInv, ListsTypeOK, Rewrites
  <2> QED
    BY <1>2, <2>1 DEF ListsInv, ListsTypeOK, Rewrites
<1>4. Shown'
  BY DEF ListsInv, Shown, OneRowPerGame, GamesOf, hasM3u, Single, Multi, Lines, Good, Ordered, Here, HasAll,
         Since, FirstLine, Recent_new, hasEmu
<1>5. Notes' /\ PickerTells' /\ Playing'
  BY <1>1 DEF ListsInv, Notes, Closed, PickerTells, Menu_inCollection, Playing
<1>6. Singles'
  BY <1>1, <1>2 DEF ListsInv, Singles, Single, Multi
<1> QED
  BY <1>1, <1>3, <1>4, <1>5, <1>6 DEF ListsInv

LEMMA PakChangeKeeps == ListsInv /\ (\E g \in Games : PakChange(g)) => ListsInv'
<1> SUFFICES ASSUME ListsInv, NEW g \in Games, PakChange(g) PROVE ListsInv'
  OBVIOUS
<1> USE DEF PakChange, files, past, Act
<1>1. Stored' /\ Distinct' /\ M3usStay' /\ Single(recent)' /\ \A x : LastOne(x) => LastOne(x)'
  BY KeptSame
<1>2. acts' \in 0..MaxActs /\ able' \subseteq Games
  BY ListsAssumption DEF ListsInv, ListsTypeOK
<1>3. ListsTypeOK'
  BY <1>2 DEF ListsInv, ListsTypeOK
<1>4. Shown' /\ Notes' /\ PickerTells' /\ Playing'
  BY <1>1 DEF ListsInv, Shown, Notes, Closed, PickerTells, Menu_inCollection, Playing
<1>5. Singles'
  BY <1>1 DEF ListsInv, Singles, Single, Multi
<1> QED
  BY <1>1, <1>2, <1>3, <1>4, <1>5 DEF ListsInv

\* A collection's file keeps its type whatever is done to it.
CollFile == [on : BOOLEAN, lines : Lined, ended : BOOLEAN]

LEMMA CollectionTypes ==
  ASSUME NEW file \in CollFile, playing \in Paths \cup {Junk}
  PROVE  /\ Without(file) \in CollFile
         /\ Appended(file) \in CollFile
         /\ NoFile \in CollFile
         /\ AppendedPart(file) \subseteq CollFile
<1>1. file.lines \in Seq(Paths \cup {Junk})
  BY DEF Lined, CollFile
<1>2. Filter(file.lines, Range(file.lines) \ {playing}) \in Lined
  BY <1>1, FilterPicks DEF Lined
<1>3. Append(file.lines, playing) \in Lined
  BY <1>1 DEF Lined
<1>4. Append(Front(file.lines), Junk) \in Lined
  <2>1. Front(file.lines) \in Seq(Paths \cup {Junk})
    <3>1. \A i \in 1..(Len(file.lines) - 1) : file.lines[i] \in Paths \cup {Junk}
      BY <1>1
    <3>2. Len(file.lines) - 1 \in Int /\ 1 \in Int
      BY <1>1
    <3> QED
      BY <1>1, <3>1, <3>2, SubSeqProperties DEF Front
  <2> QED
    BY <2>1 DEF Lined
<1>5. <<>> \in Lined
  BY DEF Lined
<1>6. Append(file.lines, Junk) \in Lined
  BY <1>1 DEF Lined
<1>7. [file EXCEPT !.on = TRUE] \in CollFile
  BY DEF CollFile
<1>8. Unended(Append(IF file.ended THEN file.lines ELSE Front(file.lines), Junk)) \in CollFile
  BY <1>4, <1>6 DEF Unended, CollFile
<1>9. AppendedPart(file) \subseteq CollFile
  BY <1>7, <1>8 DEF AppendedPart
<1> QED
  BY <1>2, <1>3, <1>4, <1>5, <1>9 DEF Without, Appended, NoFile, File, CollFile

\* A file cut short.
LEMMA CutShortOf ==
  ASSUME NEW l \in Lined, NEW t \in CutShort(l), Junk \notin Paths
  PROVE  t \in Lined /\ (Single(l) => Single(t))
<1>1. l \in Seq(Paths \cup {Junk}) /\ Len(l) \in Nat
  BY DEF Lined
<1>2. ASSUME NEW n \in 0..Len(l)
      PROVE  SubSeq(l, 1, n) \in Lined /\ Len(SubSeq(l, 1, n)) = n /\ \A i \in 1..n : SubSeq(l, 1, n)[i] = l[i]
  <2>1. \A i \in 1..n : l[i] \in Paths \cup {Junk}
    BY <1>1
  <2> QED
    BY <1>1, <2>1, SubSeqProperties DEF Lined
<1>3. CASE \E n \in 0..Len(l) : t = SubSeq(l, 1, n)
  <2>1. PICK n \in 0..Len(l) : t = SubSeq(l, 1, n)
    BY <1>3
  <2>2. t \in Lined /\ DOMAIN t = 1..n /\ \A i \in 1..n : t[i] = l[i] /\ i \in DOMAIN l
    BY <1>1, <1>2, <2>1 DEF Lined
  <2> QED
    BY <2>2 DEF Single
<1>4. CASE \E n \in 0..(Len(l) - 1) : t = Append(SubSeq(l, 1, n), Junk)
  <2>1. PICK n \in 0..(Len(l) - 1) : t = Append(SubSeq(l, 1, n), Junk)
    BY <1>4
  <2> DEFINE s == SubSeq(l, 1, n)
  <2>2. s \in Seq(Paths \cup {Junk}) /\ Len(s) = n /\ n \in Nat /\ \A i \in 1..n : s[i] = l[i] /\ i \in DOMAIN l
    BY <1>1, <1>2 DEF Lined
  <2>3. t = Append(s, Junk)
    BY <2>1
  <2> HIDE DEF s
  <2>4. /\ t \in Seq(Paths \cup {Junk}) /\ DOMAIN t = 1..(n + 1) /\ t[n + 1] = Junk
        /\ \A i \in 1..n : t[i] = l[i]
    BY <2>2, <2>3
  <2>5. \A i \in 1..(n + 1) : i \in 1..n \/ i = n + 1
    BY <2>2
  <2>6. ASSUME Single(l), NEW i \in 1..(n + 1), NEW j \in 1..(n + 1), t[i] = t[j], t[i] \in Paths, ~Multi(t[i])
        PROVE  i = j
    <3>1. i \in 1..n /\ j \in 1..n
      BY <2>4, <2>5, <2>6
    <3> QED
      BY <2>2, <2>4, <2>6, <3>1 DEF Single
  <2> QED
    BY <2>4, <2>6 DEF Single, Lined
<1> QED
  BY <1>3, <1>4 DEF CutShort

LEMMA JunkIsNone == Junk \notin Paths
<1>1. ASSUME Junk \in Paths PROVE FALSE
  <2>1. Junk[1] \in Games
    BY <1>1, ListsAssumption, PathIs
  <2> QED
    BY <2>1, ListsAssumption
<1> QED
  BY <1>1

LEMMA WithoutPartTypes == ASSUME NEW file \in CollFile PROVE WithoutPart(file) \subseteq CollFile
<1> SUFFICES ASSUME NEW l \in CutShort(file.lines)
             PROVE  [on |-> TRUE, lines |-> l, ended |-> l = <<>> \/ Last(l) # Junk] \in CollFile
  BY DEF WithoutPart
<1>1. l \in Lined
  BY CutShortOf, JunkIsNone DEF CollFile
<1>2. (l = <<>> \/ Last(l) # Junk) \in BOOLEAN
  OBVIOUS
<1> HIDE DEF Last
<1> QED
  BY <1>1, <1>2 DEF CollFile

LEMMA SurvivesType ==
  ASSUME NEW old \in CollFile, NEW new \in CollFile, NEW how, NEW f \in Survives(old, new, how)
  PROVE  f \in CollFile
<1>1. old.lines \in Seq(Paths \cup {Junk})
  BY DEF Lined, CollFile
<1>2. Append(old.lines, Junk) \in Lined
  BY <1>1 DEF Lined
<1>3. Unended(Append(old.lines, Junk)) \in CollFile
  BY <1>2 DEF Unended, CollFile
<1>4. f = old \/ f = new \/ f = Unended(Append(old.lines, Junk)) \/ f \in WithoutPart(new)
  BY DEF Survives
<1> QED
  BY <1>3, <1>4, WithoutPartTypes

\* What the picker does to a collection's file.
LEMMA EditTypes ==
  ASSUME ListsInv, NEW c \in Names, AppendTo(c) \/ RemoveFrom(c)
  PROVE  /\ coll' \in Collections /\ \A d \in Names : d # c => coll'[d] = coll[d]
         /\ rewrite' \in Rewrites /\ acts' \in 0..MaxActs
<1>1. coll \in [Names -> CollFile] /\ playing \in Paths \cup {Junk} /\ rewrite \in Rewrites
      /\ acts \in 0..MaxActs /\ MaxActs \in Nat
  BY ListsAssumption DEF ListsInv, ListsTypeOK, Collections, CollFile, Rewrites
<1>2. /\ Without(coll[c]) \in CollFile /\ Appended(coll[c]) \in CollFile
      /\ AppendedPart(coll[c]) \subseteq CollFile
  BY <1>1, CollectionTypes
<1>3. WithoutPart(Without(coll[c])) \subseteq CollFile
  BY <1>2, WithoutPartTypes
<1>4. PICK f \in CollFile : coll' = [coll EXCEPT ![c] = f]
  BY <1>2, <1>3 DEF AppendTo, RemoveFrom
<1>5. coll' \in [Names -> CollFile] /\ \A d \in Names : d # c => coll'[d] = coll[d]
  BY <1>1, <1>4
<1>6. \E h \in {"kept", "renamed", "cut"} : rewrite' = [rewrite EXCEPT ![c] = h]
  BY DEF AppendTo, RemoveFrom
<1>7. rewrite' \in Rewrites
  BY <1>1, <1>6 DEF Rewrites
<1>8. acts' \in 0..MaxActs
  BY <1>1 DEF AppendTo, RemoveFrom, Act, FailingAct
<1> QED
  BY <1>5, <1>7, <1>8 DEF Collections, CollFile

LEMMA ClosePickerKeeps == ListsInv /\ (Menu_collections \/ ClosePicker) => ListsInv'
<1> SUFFICES ASSUME ListsInv, Menu_collections \/ ClosePicker PROVE ListsInv'
  OBVIOUS
<1> USE DEF Menu_collections, ClosePicker, card, files, past
<1>1. Stored' /\ Distinct' /\ M3usStay' /\ Single(recent)' /\ \A x : LastOne(x) => LastOne(x)'
  BY KeptSame
<1>2. DOMAIN picker' \subseteq Names /\ PickerTells'
  <2>1. CASE Menu_collections
    <3>1. "Favorites" \in Names /\ coll' = coll /\ playing' = playing
      BY <2>1, ListsAssumption
    <3>2. \A c \in DOMAIN picker' : picker'[c] = Menu_inCollection(coll'[c])
      BY <2>1, <3>1 DEF Rows
    <3> QED
      BY <2>1, <3>1, <3>2 DEF PickerTells, Rows, Menu_inCollection
  <2>2. CASE ClosePicker
    BY <2>2 DEF PickerTells, Closed
  <2> QED
    BY <2>1, <2>2
<1>3. ListsTypeOK'
  BY <1>2 DEF ListsInv, ListsTypeOK
<1>4. Shown' /\ Notes' /\ Playing'
  BY <1>1 DEF ListsInv, Shown, Notes, Playing
<1>5. Singles'
  BY <1>1 DEF ListsInv, Singles, Single, Multi
<1> QED
  BY <1>1, <1>2, <1>3, <1>4, <1>5 DEF ListsInv

LEMMA deleteKeeps == ListsInv /\ (\E c \in Names : Menu_deleteSelectedCollection(c)) => ListsInv'
<1> SUFFICES ASSUME ListsInv, NEW c \in Names, Menu_deleteSelectedCollection(c) PROVE ListsInv'
  OBVIOUS
<1> USE DEF Menu_deleteSelectedCollection, card, past, Act
<1>1. Stored' /\ Distinct' /\ M3usStay' /\ Single(recent)' /\ \A x : LastOne(x) => LastOne(x)'
  BY KeptSame
<1>2. coll' \in Collections
  <2>1. NoFile \in [on : BOOLEAN, lines : Lined, ended : BOOLEAN]
    BY DEF NoFile, Lined
  <2> QED
    BY <2>1 DEF ListsInv, ListsTypeOK, Collections
<1>3. ListsTypeOK'
  <2>1. acts' \in 0..MaxActs /\ rewrite' \in Rewrites
    BY ListsAssumption DEF ListsInv, ListsTypeOK, Rewrites
  <2> QED
    BY <1>2, <2>1 DEF ListsInv, ListsTypeOK, Rewrites
<1>4. PickerTells' /\ Notes' /\ Playing'
  BY <1>1 DEF ListsInv, PickerTells, Notes, Playing, Closed
<1>5. Shown'
  BY DEF ListsInv, Shown, OneRowPerGame, GamesOf, hasM3u, Single, Multi, Lines, Good, Ordered, Here, HasAll,
         Since, FirstLine, Recent_new, hasEmu
<1>6. Singles'
  BY <1>1 DEF ListsInv, Singles, Single, Multi
<1> QED
  BY <1>1, <1>2, <1>3, <1>4, <1>5, <1>6 DEF ListsInv

LEMMA changeDiscKeeps == ListsInv /\ (\E n \in 1..9 : Game_changeDisc(n)) => ListsInv'
<1> SUFFICES ASSUME ListsInv, NEW n \in 1..9, Game_changeDisc(n) PROVE ListsInv'
  OBVIOUS
<1> USE DEF Game_changeDisc, card, files, past, Act
<1>1. Stored' /\ Distinct' /\ M3usStay' /\ Single(recent)' /\ \A x : LastOne(x) => LastOne(x)'
  BY KeptSame
<1>2. playing' \in Paths /\ playing'[1] = playing[1] /\ Multi(playing')
  BY DEF ListsInv, ListsTypeOK, hasM3u, Multi
<1>3. change' \in Seq(Paths)
  <2>1. change \in Seq(Paths) /\ <<playing'>> \in Seq(Paths)
    BY <1>2 DEF ListsInv, ListsTypeOK
  <2>2. change' = change \/ change' = <<playing'>>
    OBVIOUS
  <2> QED
    BY <2>1, <2>2
<1>4. ListsTypeOK'
  <2>1. acts' \in 0..MaxActs
    BY ListsAssumption DEF ListsInv, ListsTypeOK
  <2> QED
    BY <1>2, <1>3, <2>1 DEF ListsInv, ListsTypeOK
<1>5. PickerTells'
  BY DEF PickerTells, Closed
<1>6. Notes'
  <2>1. change' # <<>> => Len(change') = 1 /\ change'[1][1] = playing'[1] /\ Multi(change'[1])
    <3>1. CASE change' = change
      BY <1>2, <3>1 DEF ListsInv, Notes
    <3>2. CASE change' = <<playing'>>
      BY <1>2, <3>2
    <3> QED
      BY <3>1, <3>2
  <2> QED
    BY <2>1 DEF ListsInv, Notes, Multi
<1>7. Playing'
  BY <1>1, <1>2 DEF ListsInv, Playing
<1>8. Shown' /\ Singles'
  BY <1>1 DEF ListsInv, Shown, Singles, Single, Multi
<1> QED
  BY <1>1, <1>4, <1>5, <1>6, <1>7, <1>8 DEF ListsInv

LEMMA toggleKeeps == ListsInv /\ (\E c \in Names : Menu_toggleCollection(c)) => ListsInv'
<1> SUFFICES ASSUME ListsInv, NEW c \in Names, Menu_toggleCollection(c) PROVE ListsInv'
  OBVIOUS
<1> USE DEF Menu_toggleCollection, card, past
<1>1. Stored' /\ Distinct' /\ M3usStay' /\ Single(recent)' /\ \A x : LastOne(x) => LastOne(x)'
  BY KeptSame
<1>2. /\ coll' \in Collections /\ \A d \in Names : d # c => coll'[d] = coll[d]
      /\ rewrite' \in Rewrites /\ acts' \in 0..MaxActs
  <2>1. CASE UNCHANGED <<coll, rewrite>> /\ Act
    BY <2>1, ListsAssumption DEF ListsInv, ListsTypeOK, Rewrites, Act
  <2>2. CASE AppendTo(c) \/ RemoveFrom(c)
    BY <2>2, EditTypes
  <2> QED
    BY <2>1, <2>2
<1>3. ListsTypeOK'
  <2>2. DOMAIN picker' \subseteq Names
    BY DEF ListsInv, ListsTypeOK
  <2> QED
    BY <1>2, <2>2 DEF ListsInv, ListsTypeOK, Rewrites
<1>4. PickerTells'
  <2>1. ASSUME NEW d \in DOMAIN picker' PROVE picker'[d] = Menu_inCollection(coll'[d])
    <3>1. d \in DOMAIN picker /\ d \in Names
      BY DEF ListsInv, ListsTypeOK
    <3>2. CASE d = c
      BY <3>1, <3>2
    <3>3. CASE d # c
      BY <1>2, <3>1, <3>3 DEF ListsInv, PickerTells
    <3> QED
      BY <3>2, <3>3
  <2> QED
    BY <2>1 DEF PickerTells, Menu_inCollection
<1>5. Shown' /\ Notes' /\ Playing'
  BY <1>1 DEF ListsInv, Shown, Notes, Playing, Closed, Multi
<1>6. Singles'
  BY <1>1 DEF ListsInv, Singles, Single, Multi
<1> QED
  BY <1>1, <1>3, <1>4, <1>5, <1>6 DEF ListsInv

LEMMA newCollectionKeeps == ListsInv /\ (\E c \in Names : Menu_newCollection(c)) => ListsInv'
<1> SUFFICES ASSUME ListsInv, NEW c \in Names, Menu_newCollection(c) PROVE ListsInv'
  OBVIOUS
<1> USE DEF Menu_newCollection, card, past
<1>1. Stored' /\ Distinct' /\ M3usStay' /\ Single(recent)' /\ \A x : LastOne(x) => LastOne(x)'
  BY KeptSame
<1>2. coll' \in Collections /\ rewrite' \in Rewrites /\ acts' \in 0..MaxActs
  BY EditTypes
<1>3. DOMAIN picker' \subseteq Names /\ PickerTells'
  BY ListsAssumption DEF PickerTells, Rows, Menu_inCollection
<1>4. ListsTypeOK'
  BY <1>2, <1>3 DEF ListsInv, ListsTypeOK, Rewrites
<1>5. Shown' /\ Notes' /\ Playing'
  BY <1>1 DEF ListsInv, Shown, Notes, Playing, Closed, Multi
<1>6. Singles'
  BY <1>1 DEF ListsInv, Singles, Single, Multi
<1> QED
  BY <1>1, <1>3, <1>4, <1>5, <1>6 DEF ListsInv

LEMMA CardChangeKeeps == ListsInv /\ (\E p \in Paths : CardChange(p)) => ListsInv'
<1> SUFFICES ASSUME ListsInv, NEW p \in Paths, CardChange(p) PROVE ListsInv'
  OBVIOUS
<1> USE DEF CardChange, files, Act
<1>1. /\ \A q : q # p => (q \in present' <=> q \in present)
      /\ touched' = touched \cup {p[1]} /\ present' \subseteq Paths
  BY DEF ListsInv, ListsTypeOK
<1>2. \A q : q[1] \notin touched' => q[1] \notin touched /\ (q \in present => q \in present')
  BY <1>1
<1>3. p[1] \in Games
  BY ListsAssumption, PathIs
<1>4. ListsTypeOK'
  <2>1. acts' \in 0..MaxActs
    BY ListsAssumption DEF ListsInv, ListsTypeOK
  <2>2. split' \in BOOLEAN /\ touched' \subseteq Games
    BY <1>3 DEF ListsInv, ListsTypeOK
  <2> QED
    BY <1>1, <2>1, <2>2 DEF ListsInv, ListsTypeOK
<1>5. Stored'
  <2> SUFFICES ASSUME ~lost PROVE Good(recent, plays, touched)'
    BY DEF Stored
  <2>1. Ordered(recent, plays, touched)'
    BY <1>1 DEF ListsInv, Stored, Good, Ordered, Since, FirstLine
  <2>2. Here(recent, plays, touched)'
    <3>1. ASSUME NEW i \in DOMAIN recent, NEW b \in DOMAIN plays, plays[b] = recent[i][1], recent[i][1] \notin touched'
          PROVE  recent[i] \in present'
      <4>1. recent[i] \in present
        BY <1>2, <3>1 DEF ListsInv, Stored, Good, Here, Since
      <4> QED
        BY <1>2, <3>1, <4>1
    <3> QED
      BY <3>1 DEF Here, Since
  <2>3. HasAll(recent, plays, touched)'
    BY <1>1 DEF ListsInv, Stored, Good, HasAll
  <2> QED
    BY <2>1, <2>2, <2>3 DEF Good
<1>6. Playing'
  <2>1. \A g : LastOne(g) => LastOne(g)'
    BY <1>1, <1>2 DEF LastOne, Top
  <2> QED
    BY <2>1 DEF ListsInv, Playing
<1>7. M3usStay'
  <2> SUFFICES ASSUME ~split', NEW g \in Games, DiscCount[g] > 0 PROVE <<g, 0>> \in present'
    BY DEF M3usStay
  <2>1. ~split /\ ~(p[2] = 0 /\ DiscCount[p[1]] > 0)
    OBVIOUS
  <2>2. <<g, 0>> # p
    BY <2>1
  <2> QED
    BY <1>1, <2>1, <2>2 DEF ListsInv, M3usStay
<1>8. Distinct' /\ Notes' /\ PickerTells' /\ Shown'
  BY DEF ListsInv, Distinct, Notes, PickerTells, Shown, Menu_inCollection, Closed, Multi
<1>9. Singles'
  BY DEF ListsInv, Singles, Single, Multi
<1> QED
  BY <1>4, <1>5, <1>6, <1>7, <1>8, <1>9 DEF ListsInv

\* With no game launched there is nothing to be good about.
LEMMA NothingLaunched == \A l, gone : Good(l, <<>>, gone)
BY DEF Good, Ordered, Here, HasAll

LEMMA PowerCutKeeps == ListsInv /\ PowerCut => ListsInv'
<1> SUFFICES ASSUME ListsInv, PowerCut PROVE ListsInv'
  OBVIOUS
<1>0. /\ recent' \in {disk.recent, recent} \cup (IF recent = disk.recent THEN {} ELSE CutShort(recent))
      /\ coll' \in [Names -> UNION {SurvivesOf(c) : c \in Names}]
      /\ \A c \in Names : coll'[c] \in SurvivesOf(c)
      /\ rewrite' = KeptAll
      /\ disk' = [recent |-> recent', coll |-> coll']
      /\ proc' = "off" /\ marker' = <<>> /\ change' = <<>> /\ picker' = Closed /\ recents' = <<>>
      /\ plays' = IF recent' = recent /\ ~lost THEN plays ELSE <<>>
      /\ lost' = FALSE /\ acts' \in 0..MaxActs
      /\ present' = present /\ able' = able /\ playing' = playing /\ touched' = touched /\ split' = split
  <2>1. acts' \in 0..MaxActs
    BY ListsAssumption DEF PowerCut, Act, ListsInv, ListsTypeOK
  <2> QED
    BY <2>1 DEF PowerCut, card
<1>1. recent' \in Lined /\ Single(recent')
  <2>1. recent \in Lined /\ disk.recent \in Lined /\ Single(recent) /\ Single(disk.recent)
    BY DEF ListsInv, ListsTypeOK, Singles
  <2>2. recent' = recent \/ recent' = disk.recent \/ recent' \in CutShort(recent)
    BY <1>0
  <2> QED
    BY <2>1, <2>2, CutShortOf, JunkIsNone
<1>2. coll' \in Collections
  <2>1. ASSUME NEW c \in Names PROVE coll'[c] \in CollFile
    <3>1. disk.coll[c] \in CollFile /\ coll[c] \in CollFile
      BY DEF ListsInv, ListsTypeOK, Collections, CollFile
    <3> QED
      BY <1>0, <3>1, SurvivesType DEF SurvivesOf
  <2> QED
    BY <1>0, <2>1 DEF Collections, CollFile
<1>3. ListsTypeOK'
  <2>1. plays' \in Seq(Games) /\ disk' \in [recent : Lined, coll : Collections]
    BY <1>0, <1>1, <1>2 DEF ListsInv, ListsTypeOK
  <2>2. Len(recents') <= MAX_RECENTS /\ recents' \in Seq([path : Paths, available : BOOLEAN])
        /\ change' \in Seq(Paths) /\ marker' \in Seq(Paths)
    <3>1. MAX_RECENTS \in Nat
      BY ListsAssumption
    <3> QED
      BY <1>0, <3>1
  <2>3. DOMAIN picker' \subseteq Names /\ rewrite' \in Rewrites
    BY <1>0, KeptAllType DEF Closed
  <2> QED
    BY <1>0, <1>1, <1>2, <2>1, <2>2, <2>3 DEF ListsInv, ListsTypeOK, Rewrites
<1>4. Stored'
  <2>1. CASE recent' = recent /\ ~lost
    BY <1>0, <2>1 DEF ListsInv, Stored, Good, Ordered, Here, HasAll, Since, FirstLine
  <2>2. CASE ~(recent' = recent /\ ~lost)
    BY <1>0, <2>2 DEF Stored, Good, Ordered, Here, HasAll
  <2> QED
    BY <2>1, <2>2
<1>5. Singles'
  BY <1>0, <1>1 DEF Singles, Single, Multi
<1>6. Distinct' /\ M3usStay'
  BY <1>0 DEF ListsInv, Distinct, M3usStay
<1>7. Shown' /\ Playing' /\ Notes' /\ PickerTells'
  BY <1>0 DEF Shown, Playing, Notes, PickerTells, Closed
<1> QED
  BY <1>3, <1>4, <1>5, <1>6, <1>7 DEF ListsInv

LEMMA ChangeIsShort == ASSUME ListsInv PROVE change \in Seq(Paths) /\ Len(change) <= 1
<1>1. change \in Seq(Paths)
  BY DEF ListsInv, ListsTypeOK
<1>2. CASE change = <<>>
  <2>1. Len(change) = 0
    BY <1>2
  <2> QED
    BY <1>1, <2>1
<1>3. CASE change # <<>>
  <2>1. Len(change) = 1
    BY <1>3 DEF ListsInv, Notes
  <2> QED
    BY <1>1, <2>1
<1> QED
  BY <1>2, <1>3

\* What saving rows leaves of recent.txt.
SavedAs(rows) ==
  \/ recent' = Lines(rows) /\ lost' = FALSE
  \/ /\ lost' = TRUE
     /\ recent' = recent \/ \E k \in 0..Len(rows) : recent' = SubSeq(Lines(rows), 1, k)

LEMMA SavesAs ==
  ASSUME NEW rows, NEW n \in 0..1, saveRecents(rows, n), acts \in 0..MaxActs, acts + n <= MaxActs
  PROVE  SavedAs(rows) /\ acts' \in 0..MaxActs
<1>1. MaxActs \in Nat
  BY ListsAssumption
<1>2. acts' \in 0..MaxActs
  BY <1>1 DEF saveRecents
<1> QED
  BY <1>2 DEF saveRecents, SavedAs

LEMMA SavedType ==
  ASSUME NEW rows \in Seq(Row), SavedAs(rows), recent \in Lined, Single(recent), Single(Lines(rows))
  PROVE  recent' \in Lined /\ Single(recent')
<1>1. Lines(rows) \in Seq(Paths) /\ Len(Lines(rows)) = Len(rows)
  BY LinesAre
<1>2. Lines(rows) \in Lined
  BY <1>1 DEF Lined
<1>3. ASSUME NEW k \in 0..Len(rows), recent' = SubSeq(Lines(rows), 1, k) PROVE recent' \in CutShort(Lines(rows))
  BY <1>1, <1>3 DEF CutShort
<1>4. CASE recent' \in CutShort(Lines(rows))
  BY <1>2, <1>4, CutShortOf, JunkIsNone
<1>5. CASE recent' = Lines(rows)
  BY <1>2, <1>5
<1>6. CASE recent' = recent
  BY <1>6
<1> QED
  BY <1>3, <1>4, <1>5, <1>6 DEF SavedAs

\* minui starts: the rows it makes are as good as the file, and it writes them.
LEMMA ShowsKeeps ==
  ASSUME ListsInv, Shows, UNCHANGED <<present, able, coll, disk, rewrite, touched, split, picker>>,
         marker' = <<>>, playing' \in Paths \cup {Junk}, picker = Closed
  PROVE  ListsInv'
<1> DEFINE rows == hasRecents(recent)
<1>0. /\ proc' = "minui" /\ recents' = rows /\ change' = <<>>
      /\ plays' = IF lost THEN <<>> ELSE plays
      /\ SavedAs(rows) /\ acts' \in 0..MaxActs
  <2>1. saveRecents(rows, 0)
    BY DEF Shows
  <2>2. SavedAs(rows) /\ acts' \in 0..MaxActs
    BY <2>1, SavesAs DEF ListsInv, ListsTypeOK
  <2> QED
    BY <2>2 DEF Shows
<1>1. Source(recent, plays', touched)
  <2>1. recent \in Lined /\ plays' \in Seq(Games) /\ Single(recent)
    BY <1>0 DEF ListsInv, ListsTypeOK, Singles
  <2>2. Good(recent, plays', touched)
    <3>1. CASE lost
      BY <1>0, <3>1, NothingLaunched
    <3>2. CASE ~lost
      BY <1>0, <3>2 DEF ListsInv, Stored
    <3> QED
      BY <3>1, <3>2
  <2>3. ASSUME ToldDisc # <<>> PROVE Multi(ToldDisc[1]) /\ (plays' # <<>> => ToldDisc[1][1] = plays'[1])
    <3>1. ToldDisc = <<change[1]>> /\ change # <<>>
      BY <2>3, ChangeIsShort, ToldIs
    <3>2. proc = "game" /\ change[1][1] = playing[1] /\ Multi(change[1])
      BY <3>1 DEF ListsInv, Notes
    <3>3. plays' # <<>> => plays' = plays
      BY <1>0
    <3>4. plays # <<>> => plays[1] = playing[1]
      BY <3>2 DEF ListsInv, Playing, LastOne
    <3> QED
      BY <3>1, <3>2, <3>3, <3>4
  <2> QED
    BY <2>1, <2>2, <2>3 DEF Source
<1>2. RowsOK(rows) /\ OneRow(rows) /\ Single(Lines(rows)) /\ Good(Lines(rows), plays', touched)
  <2>1. present \subseteq Paths /\ M3usStay
    BY DEF ListsInv, ListsTypeOK
  <2> QED
    BY <1>1, <2>1, ChangeIsShort, RowsGood
<1> HIDE DEF rows
<1>3. /\ rows \in Seq(Row) /\ Len(rows) <= MAX_RECENTS /\ Lines(rows) \in Lined
      /\ DOMAIN rows = 1..Len(rows) /\ DOMAIN Lines(rows) = 1..Len(rows)
  <2>1. rows \in Seq(Row) /\ Len(rows) <= MAX_RECENTS
    BY <1>2 DEF RowsOK
  <2>2. Lines(rows) \in Seq(Paths) /\ DOMAIN rows = 1..Len(rows) /\ DOMAIN Lines(rows) = 1..Len(rows)
    BY <2>1, LinesAre
  <2>3. Lines(rows) \in Lined
    BY <2>2 DEF Lined
  <2> QED
    BY <2>1, <2>2, <2>3
<1>10. recent' \in Lined /\ Single(recent')
  <2>1. recent \in Lined /\ Single(recent)
    BY DEF ListsInv, ListsTypeOK, Singles
  <2> QED
    BY <1>0, <1>2, <1>3, <2>1, SavedType
<1>4. ListsTypeOK'
  <2>1. plays' \in Seq(Games)
    BY <1>1 DEF Source
  <2>2. recent' \in Lined /\ lost' \in BOOLEAN
    <3>1. lost' \in BOOLEAN
      BY <1>0 DEF SavedAs
    <3> QED
      BY <1>10, <3>1
  <2>3. DOMAIN picker' \subseteq Names /\ change' \in Seq(Paths) /\ marker' \in Seq(Paths)
    BY <1>0 DEF ListsInv, ListsTypeOK
  <2> QED
    BY <1>0, <1>3, <2>1, <2>2, <2>3 DEF ListsInv, ListsTypeOK, Row
<1>5. Shown'
  <2>1. OneRowPerGame'
    BY <1>0, <1>2, <1>3 DEF OneRow, OneRowPerGame, GamesOf, hasM3u
  <2>2. Single(Lines(recents))'
    BY <1>0, <1>2 DEF Single, Multi, Lines
  <2>3. Good(Lines(recents), plays, touched)'
    BY <1>0, <1>2 DEF Good, Ordered, Here, HasAll, Since, FirstLine, Lines
  <2>4. (\A i \in DOMAIN recents : recents[i].path \in present /\ recents[i] = Recent_new(recents[i].path))'
    BY <1>0, <1>2, <1>3 DEF RowsOK, Recent_new, hasEmu
  <2> QED
    BY <2>1, <2>2, <2>3, <2>4 DEF Shown
<1>6. Stored'
  <2> SUFFICES ASSUME ~lost' PROVE Good(recent, plays, touched)'
    BY DEF Stored
  <2>1. recent' = Lines(rows)
    BY <1>0 DEF SavedAs
  <2> QED
    BY <1>2, <2>1 DEF Good, Ordered, Here, HasAll, Since, FirstLine
<1>7. Singles'
  BY <1>10 DEF ListsInv, Singles, Single, Multi
<1>8. Distinct' /\ M3usStay'
  BY <1>0 DEF ListsInv, Distinct, M3usStay
<1>9. Playing' /\ Notes' /\ PickerTells'
  BY <1>0 DEF Playing, Notes, PickerTells, Closed
<1> QED
  BY <1>4, <1>5, <1>6, <1>7, <1>8, <1>9 DEF ListsInv

LEMMA ShowKeeps == ListsInv /\ (Boot \/ GameOver \/ Restart) => ListsInv'
<1> SUFFICES ASSUME ListsInv, Boot \/ GameOver \/ Restart PROVE ListsInv'
  OBVIOUS
<1>1. /\ Shows /\ UNCHANGED <<present, able, coll, disk, rewrite, touched, split, picker>>
  BY DEF Boot, GameOver, Restart, card
<1>2. marker' = <<>> /\ playing' \in Paths \cup {Junk} /\ picker = Closed
  BY DEF Boot, GameOver, Restart, ListsInv, ListsTypeOK, Notes
<1> QED
  BY <1>1, <1>2, ShowsKeeps

\* The launcher lists files that are there.
LEMMA ListedIsThere ==
  ASSUME ListsInv, proc = "minui", NEW p \in Listed
  PROVE  p \in present /\ p \in Paths
<1>1. present \subseteq Paths
  BY DEF ListsInv, ListsTypeOK
<1>2. CASE \E g \in Games : Launches(g) /\ p = getFirstDisc(g)
  BY <1>1, <1>2 DEF Launches
<1>3. CASE p \in {r.path : r \in Range(getRecents)}
  <2>1. recents \in Seq(Row)
    BY DEF ListsInv, ListsTypeOK, Row
  <2>2. PICK r \in Range(getRecents) : p = r.path
    BY <1>3
  <2> DEFINE S == {x \in Range(recents) : x.available}
             t == Filter(recents, S)
  <2>3. t \in Seq(Row) /\ Picks(t, recents, Len(recents), S)
    BY <2>1, FilterPicks
  <2>4. PICK pos : PicksAt(pos, t, recents, Len(recents), S)
    BY <2>3 DEF Picks
  <2>5. PICK i \in 1..Len(t) : r = t[i]
    BY <2>2, <2>3 DEF Range, getRecents
  <2>6. t[i] \in S
    BY <2>4 DEF PicksAt
  <2>7. r \in Range(recents)
    BY <2>5, <2>6
  <2>8. PICK k \in DOMAIN recents : r = recents[k]
    BY <2>7 DEF Range
  <2>9. recents[k].path \in present
    BY DEF ListsInv, Shown
  <2> QED
    BY <1>1, <2>2, <2>8, <2>9
<1>4. CASE p \in UNION {getCollection(c) : c \in Names}
  BY <1>1, <1>4 DEF getCollection
<1>5. CASE p \in present
  BY <1>1, <1>5
<1> QED
  BY <1>2, <1>3, <1>4, <1>5 DEF Listed

LEMMA openRomKeeps == ListsInv /\ (\E p, sd \in Paths : openRom(p, sd)) => ListsInv'
<1> SUFFICES ASSUME ListsInv, NEW p \in Paths, NEW sd \in Paths, openRom(p, sd) PROVE ListsInv'
  OBVIOUS
<1> DEFINE g == p[1]
           r == IF hasM3u(p) THEN <<g, 0>> ELSE p
           new == addRecent(r)
           np == <<g>> \o Filter(plays, Games \ {g})
<1>0. /\ proc = "minui" /\ p \in Listed /\ sd \in Given(p)
      /\ recents' = new /\ proc' = "game" /\ playing' = sd /\ plays' = np /\ touched' = touched \ {g}
      /\ SavedAs(new) /\ acts' \in 0..MaxActs
      /\ present' = present /\ able' = able /\ coll' = coll /\ disk' = disk /\ change' = change
      /\ rewrite' = rewrite
      /\ marker' = marker /\ picker' = picker /\ split' = split
  <2>1. saveRecents(new, 1) /\ acts < MaxActs
    BY DEF openRom
  <2>2. acts \in 0..MaxActs /\ MaxActs \in Nat
    BY ListsAssumption DEF ListsInv, ListsTypeOK
  <2>3. SavedAs(new) /\ acts' \in 0..MaxActs
    <3>1. acts + 1 <= MaxActs /\ 1 \in 0..1
      BY <2>1, <2>2
    <3> HIDE DEF new
    <3> QED
      BY <2>1, <2>2, <3>1, SavesAs
  <2> HIDE DEF new, np
  <2>4. /\ proc = "minui" /\ p \in Listed /\ sd \in Given(p)
        /\ recents' = new /\ proc' = "game" /\ playing' = sd /\ plays' = np /\ touched' = touched \ {g}
        /\ present' = present /\ able' = able /\ coll' = coll /\ disk' = disk /\ change' = change
        /\ rewrite' = rewrite
        /\ marker' = marker /\ picker' = picker /\ split' = split
    BY DEF openRom, card, new, np
  <2> QED
    BY <2>3, <2>4
<1>1. MAX_RECENTS \in Nat \ {0} /\ DiscCount \in [Games -> Nat]
  BY ListsAssumption
<1>2. g \in Games
  BY <1>1, PathIs
<1>3. r \in present /\ r[1] = g /\ r \in Paths
  <2>1. p \in present /\ present \subseteq Paths
    BY <1>0, ListedIsThere DEF ListsInv, ListsTypeOK
  <2>2. hasM3u(p) => <<g, 0>> \in present
    BY DEF hasM3u
  <2> QED
    BY <2>1, <2>2
<1>4. sd[1] = g
  BY <1>0 DEF Given, getFirstDisc
<1> HIDE DEF g, r
<1>5. Before(plays, touched)
  <2>1. /\ OneRowPerGame /\ Single(Lines(recents)) /\ Good(Lines(recents), plays, touched)
        /\ \A i \in DOMAIN recents : recents[i].path \in present /\ recents[i] = Recent_new(recents[i].path)
    BY <1>0 DEF ListsInv, Shown
  <2>2. recents \in Seq(Row) /\ Len(recents) <= MAX_RECENTS /\ DOMAIN recents = 1..Len(recents) /\ plays \in Seq(Games)
    BY DEF ListsInv, ListsTypeOK, Row
  <2>3. RowsOK(recents)
    BY <2>1, <2>2 DEF RowsOK
  <2>4. OneRow(recents)
    BY <1>0, <2>1, <2>2 DEF OneRow, OneRowPerGame, GamesOf
  <2> QED
    BY <2>1, <2>2, <2>3, <2>4 DEF Before
<1>6. PICK pos : Added(new, pos, r)
  <2>1. recents \in Seq(Row) /\ Len(recents) <= MAX_RECENTS
    BY <1>5 DEF Before, RowsOK
  <2> QED
    BY <1>1, <1>3, <2>1, addRecentDoes
<1>7. PICK at : NewPlays(np, at, plays, g)
  <2>1. plays \in Seq(Games) /\ \A a, b \in DOMAIN plays : plays[a] = plays[b] => a = b
    BY <1>5 DEF Before, ListsInv, Distinct
  <2> QED
    BY <1>2, <2>1, PlaysAfter
<1> HIDE DEF np, new
<1>8. Single(Lines(new)) /\ Good(Lines(new), np, touched \ {g})
  <2>1. M3usStay /\ NewPlays(np, at, plays, r[1])
    BY <1>3, <1>7 DEF ListsInv
  <2> QED
    BY <1>1, <1>3, <1>5, <1>6, <2>1, AddedGood
<1>9. /\ new \in Seq(Row) /\ Len(new) <= MAX_RECENTS /\ Len(new) >= 1 /\ new[1].path = r
      /\ Lines(new) \in Lined /\ Lines(new) # <<>> /\ Lines(new)[1] = r
  <2>1. new \in Seq(Row) /\ Len(new) \in 1..MAX_RECENTS /\ new[1].path = r
    BY <1>6 DEF Added
  <2>2. Len(new) <= MAX_RECENTS /\ Len(new) >= 1 /\ 1 \in 1..Len(new)
    BY <1>1, <2>1
  <2>3. Lines(new) \in Seq(Paths) /\ Len(Lines(new)) = Len(new) /\ Lines(new)[1] = new[1].path
    BY <2>1, <2>2, LinesAre
  <2>4. Lines(new) \in Lined /\ Lines(new) # <<>>
    BY <2>2, <2>3 DEF Lined
  <2> QED
    BY <2>1, <2>2, <2>3, <2>4
<1>10. np \in Seq(Games) /\ np # <<>> /\ np[1] = g /\ \A a, b \in DOMAIN np : np[a] = np[b] => a = b
  <2>1. np \in Seq(Games) /\ Len(np) >= 1 /\ np[1] = g /\ \A a, b \in 1..Len(np) : np[a] = np[b] => a = b
    BY <1>7 DEF NewPlays
  <2> QED
    BY <2>1
<1>17. recent' \in Lined /\ Single(recent')
  <2>1. recent \in Lined /\ Single(recent)
    BY DEF ListsInv, ListsTypeOK, Singles
  <2> QED
    BY <1>0, <1>8, <1>9, <2>1, SavedType
<1>11. ListsTypeOK'
  <2>1. recent' \in Lined /\ lost' \in BOOLEAN
    BY <1>0, <1>17 DEF SavedAs
  <2> QED
    BY <1>0, <1>9, <1>10, <2>1 DEF ListsInv, ListsTypeOK, Row
<1>12. Stored'
  <2> SUFFICES ASSUME ~lost' PROVE Good(recent, plays, touched)'
    BY DEF Stored
  <2>1. recent' = Lines(new)
    BY <1>0 DEF SavedAs
  <2> QED
    BY <1>0, <1>8, <2>1 DEF Good, Ordered, Here, HasAll, Since, FirstLine
<1>13. Singles'
  <2>1. Single(recent')
    BY <1>17
  <2> QED
    BY <1>0, <2>1 DEF ListsInv, Singles, Single, Multi
<1>14. Playing'
  <2>1. marker' = <<>>
    BY <1>0 DEF ListsInv, Notes
  <2>2. ~lost' => recent' = Lines(new)
    BY <1>0 DEF SavedAs
  <2> QED
    BY <1>0, <1>3, <1>4, <1>9, <1>10, <2>1, <2>2 DEF Playing, LastOne, Top
<1>15. Notes'
  <2>1. marker' = <<>> /\ change' = <<>> /\ picker' = Closed
    BY <1>0 DEF ListsInv, Notes
  <2> QED
    BY <2>1 DEF Notes
<1>16. PickerTells' /\ Shown' /\ Distinct' /\ M3usStay'
  BY <1>0, <1>10 DEF ListsInv, Notes, PickerTells, Closed, Shown, Distinct, M3usStay
<1> QED
  BY <1>11, <1>12, <1>13, <1>14, <1>15, <1>16 DEF ListsInv

LEMMA ListsInvInit == ListsInit => ListsInv
<1> SUFFICES ASSUME ListsInit PROVE ListsInv
  OBVIOUS
<1> USE DEF ListsInit
<1>1. coll \in Collections
  <2>1. Seq(Paths) \subseteq Lined
    BY DEF Lined
  <2>2. coll \in [Names -> [on : BOOLEAN, lines : Seq(Paths), ended : BOOLEAN]]
    BY ListsAssumption
  <2>3. \A c \in Names : coll[c] \in [on : BOOLEAN, lines : Lined, ended : BOOLEAN]
    BY <2>1, <2>2
  <2> QED
    BY <2>2, <2>3 DEF Collections
<1>2. ListsTypeOK
  <2>1. /\ recent \in Lined /\ recents \in Seq([path : Paths, available : BOOLEAN]) /\ Len(recents) <= MAX_RECENTS
        /\ change \in Seq(Paths) /\ marker \in Seq(Paths) /\ plays \in Seq(Games) /\ acts \in 0..MaxActs
    BY ListsAssumption DEF Lined
  <2>2. DOMAIN picker \subseteq Names /\ rewrite \in Rewrites
    BY KeptAllType DEF Closed
  <2> QED
    BY <1>1, <2>1, <2>2 DEF ListsTypeOK, Rewrites
<1>3. Shown /\ PickerTells /\ Playing /\ Notes /\ Distinct
  BY DEF Shown, PickerTells, Closed, Playing, Notes, Distinct
<1>4. Stored /\ Singles
  BY NothingLaunched DEF Stored, Singles, Single
<1>5. M3usStay
  <2>1. ASSUME NEW g \in Games PROVE <<g, 0>> \in Paths
    <3>1. 0 \in 0..DiscCount[g]
      BY ListsAssumption
    <3> QED
      BY <3>1 DEF Paths
  <2> QED
    BY <2>1 DEF M3usStay
<1> QED
  BY <1>1, <1>2, <1>3, <1>4, <1>5 DEF ListsInv

LEMMA ListsInvStutter == ListsInv /\ UNCHANGED listVars => ListsInv'
<1> SUFFICES ASSUME ListsInv, UNCHANGED listVars PROVE ListsInv'
  OBVIOUS
<1> USE DEF listVars, card, files, past
<1>1. Stored' /\ Distinct' /\ M3usStay' /\ Single(recent)' /\ \A x : LastOne(x) => LastOne(x)'
  BY KeptSame
<1>2. ListsTypeOK'
  BY DEF ListsInv, ListsTypeOK
<1>3. Shown'
  BY DEF ListsInv, Shown, OneRowPerGame, GamesOf, hasM3u, Single, Multi, Lines, Good, Ordered, Here, HasAll,
         Since, FirstLine, Recent_new, hasEmu
<1>4. Notes' /\ PickerTells' /\ Playing'
  BY <1>1 DEF ListsInv, Notes, Closed, PickerTells, Menu_inCollection, Playing, Multi
<1>5. Singles'
  BY <1>1 DEF ListsInv, Singles, Single, Multi
<1> QED
  BY <1>1, <1>2, <1>3, <1>4, <1>5 DEF ListsInv

LEMMA ListsInvStep == ListsInv /\ [ListsNext]_listVars => ListsInv'
BY ShowKeeps, autoResumeKeeps, openRomKeeps, deleteKeeps, toggleKeeps, newCollectionKeeps, changeDiscKeeps,
   ClosePickerKeeps, CardChangeKeeps, PakChangeKeeps, PowerOffKeeps, WritebackKeeps, PowerCutKeeps, ListsInvStutter
   DEF ListsNext

\* What minui shows is what it should.
LEMMA ListsInvIsRight == ListsInv => ListsAreRight
<1> SUFFICES ASSUME ListsInv PROVE ListsAreRight
  OBVIOUS
<1>1. ListsTypeOK /\ PickerTells
  BY DEF ListsInv
<1>2. OneRowPerGame
  BY DEF ListsInv, Shown, OneRowPerGame
<1>3. recents \in Seq(Row) /\ plays \in Seq(Games)
  BY <1>1 DEF ListsTypeOK, Row
<1>4. /\ DOMAIN recents = 1..Len(recents) /\ DOMAIN Lines(recents) = 1..Len(recents)
      /\ \A i \in 1..Len(recents) : Lines(recents)[i] = recents[i].path /\ GamesOf(recents)[i] = recents[i].path[1]
      /\ DOMAIN GamesOf(recents) = 1..Len(recents)
  BY <1>3, LinesAre DEF GamesOf
<1>5. NewestFirst
  <2> SUFFICES ASSUME proc = "minui", NEW i \in 1..Len(recents), NEW j \in 1..Len(recents),
                      NEW a \in DOMAIN plays, NEW b \in DOMAIN plays,
                      i < j, plays[a] = GamesOf(recents)[i], plays[b] = GamesOf(recents)[j],
                      FirstOf(j), plays[b] \notin touched
               PROVE  a <= b
    BY <1>4 DEF NewestFirst
  <2>1. FirstRow(recents, j) /\ plays[b] = recents[j].path[1]
    BY <1>4 DEF FirstOf, FirstRow
  <2>2. Ordered(Lines(recents), plays, touched)
    BY DEF ListsInv, Shown, Good
  <2>3. PICK c \in DOMAIN plays : c <= b /\ plays[c] = recents[i].path[1]
    BY <1>3, <2>1, <2>2, RowOrder
  <2>4. c = a
    BY <1>4, <2>3 DEF ListsInv, Distinct
  <2> QED
    BY <2>3, <2>4
<1>6. Remembered
  <2> SUFFICES ASSUME proc = "minui", ~split, NEW k \in DOMAIN plays, k < MAX_RECENTS, plays[k] \notin touched
               PROVE  plays[k] \in Range(GamesOf(recents))
    BY DEF Remembered
  <2>1. PICK i \in DOMAIN Lines(recents) : Lines(recents)[i][1] = plays[k]
    BY DEF ListsInv, Shown, Good, HasAll
  <2> QED
    BY <1>4, <2>1 DEF Range
<1> QED
  BY <1>1, <1>2, <1>5, <1>6 DEF ListsAreRight

-----------------------------------------------------------------------------
(* What a step keeps.                                                      *)

\* The first row is the game that ran.
LEMMA FirstRowIs ==
  ASSUME NEW rows, NEW l, NEW pos, NEW g, RowsOK(rows), From(pos, rows, l, Len(l)), MAX_RECENTS \in Nat \ {0},
         1 \in 1..Len(l), l[1] \in present, l[1][1] = g, ToldDisc # <<>> => ToldDisc[1][1] = g
  PROVE  1 \in 1..Len(rows) /\ rows[1].path[1] = g
<1>1. Len(rows) \in Nat /\ (1 \in 1..Len(rows) => pos[1] \in Nat)
  BY DEF RowsOK, From
<1>2. Found(pos, rows, l, 1)
  BY DEF From
<1>3. ASSUME 1 \in 1..Len(rows), pos[1] = 0 PROVE rows[1].path[1] = g
  BY <1>3 DEF From
<1>4. CASE \E i \in 1..Len(rows) : pos[i] <= 1 /\ rows[i].path[1] = l[1][1]
  <2>1. PICK i \in 1..Len(rows) : pos[i] <= 1 /\ rows[i].path[1] = l[1][1]
    BY <1>4
  <2>2. 1 \in 1..Len(rows)
    BY <1>1
  <2>3. CASE i = 1
    BY <2>1, <2>2, <2>3
  <2>4. CASE i # 1
    <3>1. pos[1] < pos[i]
      BY <1>1, <2>2, <2>4 DEF From
    <3>2. pos[1] \in Nat /\ pos[i] \in Nat
      BY <1>1, <2>2 DEF From
    <3>3. pos[1] = 0
      BY <2>1, <3>1, <3>2
    <3> QED
      BY <1>3, <2>2, <3>3
  <2> QED
    BY <2>3, <2>4
<1>5. CASE Len(rows) >= MAX_RECENTS /\ \A i \in 1..Len(rows) : pos[i] < 1
  <2>1. 1 \in 1..Len(rows)
    BY <1>1, <1>5
  <2>2. pos[1] = 0
    BY <1>1, <1>5, <2>1
  <2> QED
    BY <1>3, <2>1, <2>2
<1> QED
  BY <1>2, <1>4, <1>5 DEF Found

\* The head of a list is the first of what is picked, when it is picked.
LEMMA FilterHead ==
  ASSUME NEW S, NEW s \in Seq(S), NEW set, 1 \in 1..Len(s), s[1] \in set
  PROVE  Filter(s, set) # <<>> /\ Filter(s, set)[1] = s[1]
<1> DEFINE t == Filter(s, set)
<1>1. t \in Seq(S) /\ Picks(t, s, Len(s), set)
  BY FilterPicks
<1>2. PICK pos : PicksAt(pos, t, s, Len(s), set)
  BY <1>1 DEF Picks
<1> HIDE DEF t
<1>3. PICK i \in 1..Len(t) : pos[i] = 1
  BY <1>2 DEF PicksAt
<1>4. Len(t) \in Nat /\ Len(s) \in Nat /\ 1 \in 1..Len(t)
  BY <1>1
<1>5. pos \in [1..Len(t) -> 1..Len(s)] /\ \A a, b \in 1..Len(t) : a < b => pos[a] < pos[b]
  BY <1>2 DEF PicksAt, Increasing
<1>6. i = 1
  <2>1. CASE i # 1
    <3>1. 1 < i
      BY <1>4, <2>1
    <3>2. pos[1] \in 1..Len(s) /\ pos[1] < pos[i]
      BY <1>4, <1>5, <3>1
    <3> QED
      BY <1>3, <1>4, <3>2
  <2> QED
    BY <2>1
<1>7. t[1] = s[1]
  BY <1>2, <1>3, <1>4, <1>6 DEF PicksAt
<1>8. t # <<>>
  BY <1>4
<1> QED
  BY <1>7, <1>8 DEF t

LEMMA GameOverShows == ListsInv /\ GameOver => LastPlayedFirst
<1> SUFFICES ASSUME ListsInv, GameOver, ~lost, playing[1] \in able \ touched
             PROVE  getRecents' # <<>> /\ getRecents'[1].path[1] = playing[1]
  BY DEF LastPlayedFirst
<1> DEFINE rows == hasRecents(recent)
           g == playing[1]
<1>1. proc = "game" /\ recents' = rows /\ present' = present /\ able' = able
  BY DEF GameOver, Shows, card
<1>2. MAX_RECENTS \in Nat \ {0} /\ DiscCount \in [Games -> Nat]
  BY ListsAssumption
<1>3. recent \in Seq(Paths \cup {Junk}) /\ present \subseteq Paths
  BY DEF ListsInv, ListsTypeOK, Lined
<1>4. RowsOK(rows) /\ \E pos : From(pos, rows, recent, Len(recent))
  BY <1>2, <1>3, ChangeIsShort, hasRecentsDoes
<1> HIDE DEF rows
<1>5. PICK pos : From(pos, rows, recent, Len(recent))
  BY <1>4
<1>6. recent # <<>> /\ recent[1] \in present /\ recent[1][1] = g
  BY <1>1 DEF ListsInv, Playing, LastOne, Top
<1>7. 1 \in 1..Len(recent)
  BY <1>3, <1>6
<1>8. ToldDisc # <<>> => ToldDisc[1][1] = g
  <2>1. ASSUME ToldDisc # <<>> PROVE ToldDisc = <<change[1]>> /\ change # <<>>
    BY <2>1, ChangeIsShort, ToldIs
  <2>2. change # <<>> => change[1][1] = g
    BY DEF ListsInv, Notes
  <2> QED
    BY <2>1, <2>2
<1>9. 1 \in 1..Len(rows) /\ rows[1].path[1] = g
  BY <1>2, <1>4, <1>5, <1>6, <1>7, <1>8, FirstRowIs
<1>10. rows \in Seq(Row) /\ rows[1] = Recent_new(rows[1].path)
  BY <1>4, <1>9 DEF RowsOK
<1>11. rows[1].available
  <2>1. rows[1].available = hasEmu(rows[1].path[1])
    BY <1>10 DEF Recent_new
  <2> QED
    BY <1>9, <2>1 DEF hasEmu
<1> DEFINE S == {r \in Range(rows) : r.available}
<1>12. rows[1] \in S
  BY <1>9, <1>10, <1>11 DEF Range
<1> HIDE DEF S
<1>13. Filter(rows, S) # <<>> /\ Filter(rows, S)[1] = rows[1]
  BY <1>9, <1>10, <1>12, FilterHead
<1>14. getRecents' = Filter(rows, S)
  BY <1>1 DEF getRecents, S
<1> QED
  BY <1>9, <1>13, <1>14

LEMMA AppendKeeps ==
  ASSUME NEW l \in Seq(Paths \cup {Junk}), NEW x, NEW p \in Range(l)
  PROVE  p \in Range(Append(l, x))
<1>1. PICK k \in DOMAIN l : l[k] = p
  BY DEF Range
<1>2. k \in DOMAIN Append(l, x) /\ Append(l, x)[k] = p
  BY <1>1
<1> QED
  BY <1>2 DEF Range

\* A collection keeps the games that are not edited.
LEMMA CollectionKeeps ==
  ASSUME NEW file \in CollFile, file.lines \in Seq(Paths \cup {Junk}), NEW p \in Range(file.lines), p # playing,
         file.ended \/ p # Last(file.lines)
  PROVE  /\ p \in Range(Without(file).lines) /\ p \in Range(Appended(file).lines)
         /\ \A f \in AppendedPart(file) : p \in Range(f.lines)
<1> DEFINE l == file.lines
<1>1. l \in Seq(Paths \cup {Junk}) /\ Len(l) \in Nat /\ DOMAIN l = 1..Len(l)
  OBVIOUS
<1>2. PICK k \in 1..Len(l) : l[k] = p
  BY <1>1 DEF Range
<1>3. p \in Range(Filter(l, Range(l) \ {playing}))
  <2> DEFINE t == Filter(l, Range(l) \ {playing})
             set == Range(l) \ {playing}
  <2>1. t \in Seq(Paths \cup {Junk}) /\ Picks(t, l, Len(l), set)
    BY <1>1, FilterPicks
  <2>2. PICK pos : PicksAt(pos, t, l, Len(l), set)
    BY <2>1 DEF Picks
  <2>3. l[k] \in set
    BY <1>1, <1>2 DEF Range
  <2> HIDE DEF t, set
  <2>4. PICK i \in 1..Len(t) : pos[i] = k
    BY <1>2, <2>2, <2>3 DEF PicksAt
  <2>5. t[i] = p /\ i \in DOMAIN t
    BY <1>2, <2>1, <2>2, <2>4 DEF PicksAt
  <2>6. p \in Range(t)
    BY <2>5 DEF Range
  <2> QED
    BY <2>6 DEF t, set
<1> HIDE DEF l
<1>4. p \in Range(Append(l, playing)) /\ p \in Range(Append(l, Junk))
  BY <1>1, AppendKeeps DEF l
<1>5. ASSUME p # Last(l) PROVE p \in Range(Append(Front(l), Junk))
  <2>1. k # Len(l)
    BY <1>2, <1>5 DEF Last
  <2>5. 1 <= k /\ k <= Len(l) - 1
    <3> DEFINE L == Len(l)
    <3>1. L \in Nat /\ k \in 1..L /\ k # L
      BY <1>1, <1>2, <2>1
    <3> HIDE DEF L
    <3>2. 1 <= k /\ k <= L - 1
      BY <3>1
    <3> QED
      BY <3>2 DEF L
  <2> DEFINE f == Front(l)
  <2>2. f \in Seq(Paths \cup {Junk}) /\ k \in 1..Len(f) /\ f[k] = p
    <3>1. \A i \in 1..(Len(l) - 1) : l[i] \in Paths \cup {Junk}
      BY <1>1
    <3>2. Len(l) - 1 \in Int /\ 1 \in Int /\ 1 <= Len(l) - 1
      <4>1. Len(l) \in Nat /\ k \in Nat
        BY <1>1, <1>2
      <4> QED
        BY <2>5, <4>1
    <3>3. /\ f \in Seq(Paths \cup {Junk}) /\ Len(f) = (Len(l) - 1) - 1 + 1
          /\ \A i \in 1..((Len(l) - 1) - 1 + 1) : f[i] = l[1 + i - 1]
      BY <3>1, <3>2, SubSeqProperties DEF Front
    <3>4. k \in 1..((Len(l) - 1) - 1 + 1) /\ 1 + k - 1 = k
      <4>1. Len(l) \in Nat /\ k \in Nat
        BY <1>1, <1>2
      <4> QED
        BY <2>5, <4>1
    <3> QED
      BY <1>2, <3>3, <3>4
  <2> HIDE DEF f
  <2>3. k \in DOMAIN Append(f, Junk) /\ Append(f, Junk)[k] = p
    BY <2>2
  <2>4. p \in Range(Append(f, Junk))
    BY <2>3 DEF Range
  <2> QED
    BY <2>4 DEF f
<1>6. ASSUME NEW f \in AppendedPart(file) PROVE p \in Range(f.lines)
  <2>1. CASE f = [file EXCEPT !.on = TRUE]
    BY <2>1 DEF CollFile
  <2>2. CASE f = Unended(Append(IF file.ended THEN file.lines ELSE Front(file.lines), Junk))
    BY <1>4, <1>5, <2>2 DEF Unended, l
  <2> QED
    BY <1>6, <2>1, <2>2 DEF AppendedPart
<1> QED
  BY <1>3, <1>4, <1>5, <1>6 DEF Without, Appended, File, l

LEMMA SurvivesKeeps ==
  ASSUME NEW old, NEW new, old.lines \in Seq(Paths \cup {Junk}), NEW p \in Range(old.lines), p \in Range(new.lines),
         NEW f \in Survives(old, new, "kept")
  PROVE  p \in Range(f.lines)
<1>1. CASE f = old \/ f = new
  BY <1>1
<1>2. CASE f = Unended(Append(old.lines, Junk))
  BY <1>2, AppendKeeps DEF Unended
<1>3. f = old \/ f = new \/ f = Unended(Append(old.lines, Junk))
  BY DEF Survives
<1> QED
  BY <1>1, <1>2, <1>3

\* Each collection is as it was, edited, or what a power cut leaves of it, or
\* else a removal has cut it short.
LEMMA EditedOrKept ==
  ASSUME ListsInv, ListsNext, NEW c \in Names
  PROVE  \/ coll'[c] \in {coll[c], NoFile, Without(coll[c]), Appended(coll[c])} \cup AppendedPart(coll[c])
         \/ proc' # "off" /\ rewrite'[c] = "cut"
         \/ proc' = "off" /\ coll'[c] \in SurvivesOf(c)
<1>0. coll \in Collections /\ rewrite \in Rewrites
  BY DEF ListsInv, ListsTypeOK, Rewrites
<1>1. CASE coll' = coll
  BY <1>1
<1>2. CASE \E d \in Names : Menu_deleteSelectedCollection(d)
  <2>1. PICK d \in Names : coll' = [coll EXCEPT ![d] = NoFile]
    BY <1>2 DEF Menu_deleteSelectedCollection
  <2> QED
    BY <1>0, <2>1 DEF Collections
<1>3. CASE proc' # "off" /\ \E d \in Names : AppendTo(d) \/ RemoveFrom(d)
  <2>1. PICK d \in Names : AppendTo(d) \/ RemoveFrom(d)
    BY <1>3
  <2>2. CASE \E f \in {Without(coll[d]), Appended(coll[d])} \cup AppendedPart(coll[d]) : coll' = [coll EXCEPT ![d] = f]
    BY <1>0, <2>2 DEF Collections
  <2>3. CASE coll' \in {[coll EXCEPT ![d] = f] : f \in WithoutPart(Without(coll[d]))} /\ rewrite' = [rewrite EXCEPT ![d] = "cut"]
    <3>1. CASE c = d
      BY <1>0, <1>3, <2>3, <3>1 DEF Rewrites
    <3>2. CASE c # d
      BY <1>0, <2>3, <3>2 DEF Collections
    <3> QED
      BY <3>1, <3>2
  <2> QED
    BY <2>1, <2>2, <2>3 DEF AppendTo, RemoveFrom
<1>4. CASE PowerCut
  BY <1>4 DEF PowerCut
<1>5. \/ coll' = coll \/ (\E d \in Names : Menu_deleteSelectedCollection(d)) \/ PowerCut
      \/ proc' # "off" /\ \E d \in Names : AppendTo(d) \/ RemoveFrom(d)
  BY DEF ListsNext, Boot, autoResume, GameOver, Restart, Shows, openRom, Game_changeDisc, Menu_toggleCollection,
     Menu_newCollection, Menu_collections, ClosePicker, CardChange, PakChange, PowerOff, Writeback, files
<1> QED
  BY <1>1, <1>2, <1>3, <1>4, <1>5

LEMMA StepKeepsOthers == ListsInv /\ ListsNext => OthersKept
<1> SUFFICES ASSUME ListsInv, ListsNext, NEW c \in Names,
                    NEW p \in (Range(coll[c].lines) \cap Range(disk.coll[c].lines)) \ {playing, Junk},
                    coll'[c].on, Spared(c), coll[c].ended \/ p # Last(coll[c].lines)
             PROVE  p \in Range(coll'[c].lines)
  BY DEF OthersKept
<1>1. coll[c].lines \in Seq(Paths \cup {Junk}) /\ disk.coll[c].lines \in Seq(Paths \cup {Junk})
      /\ coll[c] \in CollFile
  BY DEF ListsInv, ListsTypeOK, Collections, Lined, CollFile
<1>2. /\ p \in Range(Without(coll[c]).lines) /\ p \in Range(Appended(coll[c]).lines)
      /\ \A f \in AppendedPart(coll[c]) : p \in Range(f.lines)
  BY <1>1, CollectionKeeps
<1>3. CASE coll'[c] \in {coll[c], NoFile, Without(coll[c]), Appended(coll[c])} \cup AppendedPart(coll[c])
  BY <1>2, <1>3 DEF NoFile
<1>4. CASE proc' # "off" /\ rewrite'[c] = "cut"
  BY <1>4 DEF Spared
<1>5. CASE proc' = "off" /\ coll'[c] \in SurvivesOf(c)
  <2>1. rewrite[c] = "kept"
    BY <1>5 DEF Spared
  <2> QED
    BY <1>1, <1>5, <2>1, SurvivesKeeps DEF SurvivesOf
<1> QED
  BY <1>3, <1>4, <1>5, EditedOrKept

\* Of the steps that bring minui up, one comes out of a game.
LEMMA StepShowsLast == ListsInv /\ ListsNext => LastPlayedFirst
<1> SUFFICES ASSUME ListsInv, ListsNext PROVE LastPlayedFirst
  OBVIOUS
<1>1. CASE GameOver
  BY <1>1, GameOverShows
<1>2. CASE ~GameOver
  <2>1. ~(proc = "game" /\ proc' = "minui")
    BY <1>2 DEF ListsNext, Boot, autoResume, Restart, openRom, Menu_deleteSelectedCollection,
       Menu_toggleCollection, Menu_newCollection, Game_changeDisc, Menu_collections, ClosePicker, CardChange,
       PakChange, PowerOff, Writeback, PowerCut
  <2> QED
    BY <2>1 DEF LastPlayedFirst
<1> QED
  BY <1>1, <1>2

\* What minui and the picker show is right at every moment: one row for a
\* game, the newest at the top, none of the last ones missing, and the ticks
\* what the files hold (hasRecents, addRecent, Menu_collections).
THEOREM ListsAlwaysRight == ListsSpec => []ListsAreRight
<1>1. ListsInit => ListsInv
  BY ListsInvInit
<1>2. ListsInv /\ [ListsNext]_listVars => ListsInv'
  BY ListsInvStep
<1>3. ListsInv => ListsAreRight
  BY ListsInvIsRight
<1> QED
  BY <1>1, <1>2, <1>3, PTL DEF ListsSpec

\* Out of a game, the game is the first in Recently Played; and whoever edits a
\* collection, or loses power on the way, leaves the other games in it, except where
\* a removal could not be written or its renaming was not synced, and the last line
\* of a file that does not end in a newline (hasRecents, Menu_toggleCollection).
THEOREM ListsAlwaysKept == ListsSpec => ListsAreKept
<1>1. ListsInit => ListsInv
  BY ListsInvInit
<1>2. ListsInv /\ [ListsNext]_listVars => ListsInv'
  BY ListsInvStep
<1>3. ListsInv /\ [ListsNext]_listVars => [LastPlayedFirst /\ OthersKept]_listVars
  BY StepShowsLast, StepKeepsOthers
<1> QED
  BY <1>1, <1>2, <1>3, PTL DEF ListsSpec, ListsAreKept

=============================================================================
