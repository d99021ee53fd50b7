--------------------------- MODULE OptionsProofs ----------------------------
(***************************************************************************)
(* Proofs about minarch's options, controls and shortcuts, for any games,  *)
(* any options of the core and any contents of system.cfg and default.cfg: *)
(* a launch and a restore give the precedence the files promise, what was  *)
(* saved is found again, and what the menu shows is in force.              *)
(***************************************************************************)
EXTENDS Options, TLAPS

-----------------------------------------------------------------------------
(* The inductive invariant.                                                *)

Bindings == {Unbound} \cup [local : 0 .. LOCAL_BUTTON_COUNT - 1, mod : BOOLEAN]
Labels == 0 .. 2 * LOCAL_BUTTON_COUNT
Base(n) == IF n \in Controls THEN [local |-> 0, mod |-> FALSE] ELSE Unbound

LinesOK(l) ==
  /\ \A k \in Keys \cap DOMAIN l : l[k] \in Nat
  /\ \A n \in Names \cap DOMAIN l : l[n] \in Labels

\* The card's files are well formed, whatever was written, cut or removed.
CardOK(c) ==
  /\ c = [system |-> c.system, default |-> c.default, console |-> c.console, game |-> c.game]
  /\ c.game = [g \in Games |-> c.game[g]]
  /\ LinesOK(c.system.lines) /\ LinesOK(c.default.lines) /\ LinesOK(c.console.lines)
  /\ \A g \in Games : LinesOK(c.game[g].lines)

\* The running program and its values.
RunOK(r) == r = [phase |-> r.phase, game |-> r.game] /\ (r.phase # "off" => r.game \in Games)
ValueOK(v) == v = [k \in Keys |-> v[k]] /\ \A k \in Keys : v[k] \in 0 .. Count(k) - 1
BindOK(b) == b = [n \in Names |-> b[n]] /\ \A n \in Names : b[n] \in Bindings
LoadedOK == loaded \in {"none", "console", "game"}
ChangedOK == changed \in BOOLEAN

\* The sharpness in effect is that of the two options.
FeOK(f, a, b) == f = [scaling |-> a, sharpness |-> b, gfx |-> IF a = SCALE_NATIVE THEN SHARPNESS_SHARP ELSE b]
Sharp == FeOK(fe, value["scaling"], value["sharpness"])

\* Before the files are read the values are the built-in ones.
Unread == run.phase \in {"off", "open", "opened"} => value = Memory.value

\* What the files say of an option and of a binding, under a user's file.
Told(user, c, k) == k \in DOMAIN user \/ k \in DOMAIN c.default.lines \/ k \in DOMAIN c.system.lines
Bound(user, c, n) == n \in DOMAIN user \/ n \in DOMAIN c.default.lines
Says(user, c, k) ==
  IF k \in DOMAIN user THEN ValueIndex(k, user[k])
  ELSE IF k \in DOMAIN c.default.lines THEN ValueIndex(k, c.default.lines[k])
  ELSE IF k \in DOMAIN c.system.lines THEN ValueIndex(k, c.system.lines[k])
  ELSE DefaultValue(k)
Binds(user, c, n) ==
  IF n \in DOMAIN user THEN Mapping(user[n])
  ELSE IF n \in DOMAIN c.default.lines THEN Mapping(c.default.lines[n])
  ELSE Base(n)
User(c, g) == UserCfg(c, g).lines
Agrees(user, c, v, b) ==
  /\ \A k \in Keys : v[k] = Says(user, c, k)
  /\ \A n \in Names : b[n] = Binds(user, c, n)

\* Between the two reads, what no file names still has its built-in value.
Between ==
  run.phase \in {"load", "reported", "read"} =>
    /\ \A k \in Keys : Told(User(card, run.game), card, k) \/ value[k] = DefaultValue(k)
    /\ \A n \in Names : Bound(User(card, run.game), card, n) \/ bind[n] = Base(n)

\* The default a restore gives a control default.cfg does not name.
Begun == {"load", "reported", "read", "ready", "play", "menu", "restored"}
DefaultsKept ==
  run.phase \in Begun =>
    \A n \in Controls : n \in DOMAIN card.default.lines \/ default_[n] = Base(n)

\* config.loaded is not behind the card: a game whose own file is there has it loaded.
LoadedIsCurrent == run.phase \in Begun => (loaded = "game" \/ ~ card.game[run.game].on)

\* The core has reported its options by the time it has read them.
Listed == run.phase \in {"read", "ready", "play", "menu", "restored"} => listed

\* The core has read the values, or is about to be told.
Sees ==
  /\ run.phase = "read" => \A k \in CoreKeys : seen[k] = value[k]
  /\ CoreSees

\* The precedence of the files.  After a restore the console's file is what is
\* left, and a game's file written since agrees with it.
Ready == run.phase = "ready" => Agrees(User(card, run.game), card, value, bind)
Restored ==
  run.phase = "restored" =>
    /\ Agrees(card.console.lines, card, value, bind)
    /\ Agrees(User(card, run.game), card, value, bind)

\* What was saved for a game is what the file it will find says, line by line.
Holds(s, user) ==
  /\ \A k \in Keys \cup Names : k \in DOMAIN user
  /\ s = [v |-> [k \in Keys |-> ValueIndex(k, user[k])], b |-> [n \in Names |-> Mapping(user[n])]]
SavedIsThere(s, c) ==
  /\ s = [g \in Games |-> s[g]]
  /\ \A g \in Games : s[g] = Nothing \/ Holds(s[g], User(c, g))

OptionsInv ==
  /\ CardOK(card) /\ RunOK(run) /\ ValueOK(value) /\ BindOK(bind) /\ LoadedOK /\ ChangedOK
  /\ Sharp /\ Unread /\ Between /\ DefaultsKept /\ LoadedIsCurrent /\ Listed /\ Sees
  /\ Ready /\ Restored /\ SavedIsThere(saved, card)

-----------------------------------------------------------------------------
(* Labels and files.                                                       *)

\* A label read from a file is a value the option has.
LEMMA IndexIsValue ==
  ASSUME NEW k, NEW label \in Nat
  PROVE  ValueIndex(k, label) \in 0 .. Count(k) - 1
BY DEF ValueIndex, Count

\* A value written as its label is read back as itself.
LEMMA IndexOfValue ==
  ASSUME NEW k, NEW v \in 0 .. Count(k) - 1
  PROVE  v \in Nat /\ ValueIndex(k, v) = v
BY DEF ValueIndex, Count

\* A button's label is read as a binding.
LEMMA MappingIsBinding ==
  ASSUME NEW label \in Labels
  PROVE  Mapping(label) \in Bindings
<1>1. CASE label = 0
  BY <1>1 DEF Mapping, Bindings, Labels, LOCAL_BUTTON_COUNT, Unbound, BTN_ID_NONE
<1>2. CASE label \in 1 .. 2
  BY <1>2 DEF Mapping, Bindings, Labels, LOCAL_BUTTON_COUNT
<1>3. CASE label \in 3 .. 4
  BY <1>3 DEF Mapping, Bindings, Labels, LOCAL_BUTTON_COUNT
<1> QED
  BY <1>1, <1>2, <1>3 DEF Labels, LOCAL_BUTTON_COUNT

\* A binding written as its label is read back as itself.
LEMMA MappingOfLabel ==
  ASSUME NEW m \in Bindings
  PROVE  Label(m) \in Labels /\ Mapping(Label(m)) = m
<1>1. CASE m = Unbound
  BY <1>1 DEF Mapping, Label, Labels, LOCAL_BUTTON_COUNT, Unbound, BTN_ID_NONE
<1>2. CASE m \in [local : 0 .. LOCAL_BUTTON_COUNT - 1, mod : BOOLEAN]
  <2> DEFINE i == m.local
             x == m.mod
  <2>0. m = [local |-> i, mod |-> x] /\ i \in 0 .. 1 /\ x \in BOOLEAN
    BY <1>2 DEF LOCAL_BUTTON_COUNT
  <2> HIDE DEF i, x
  <2>1. CASE x = TRUE
    BY <2>0, <2>1 DEF Mapping, Label, Labels, LOCAL_BUTTON_COUNT
  <2>2. CASE x = FALSE
    <3>1. Label(m) = i + 1
      BY <2>0, <2>2 DEF Label
    <3>2. Mapping(i + 1) = [local |-> i, mod |-> FALSE]
      BY <2>0 DEF Mapping, LOCAL_BUTTON_COUNT
    <3>3. i + 1 \in Labels
      BY <2>0 DEF Labels, LOCAL_BUTTON_COUNT
    <3>4. m = [local |-> i, mod |-> FALSE]
      BY <2>0, <2>2
    <3> QED
      BY <3>1, <3>2, <3>3, <3>4
  <2> QED
    BY <2>0, <2>1, <2>2
<1> QED
  BY <1>1, <1>2 DEF Bindings

\* The built-in binding is one.
LEMMA BaseIsBinding == \A n : Base(n) \in Bindings
BY DEF Base, Bindings, LOCAL_BUTTON_COUNT

\* Every file a launch may read is well formed.
LEMMA UserIsFile ==
  ASSUME NEW c, CardOK(c), NEW g \in Games
  PROVE  LinesOK(User(c, g))
BY DEF CardOK, User, UserCfg

\* What the files say of an option is a value it has; of a button, a binding.
LEMMA SaysValue ==
  ASSUME NEW c, CardOK(c), NEW user, LinesOK(user), NEW k \in Keys
  PROVE  Says(user, c, k) \in 0 .. Count(k) - 1
<1>1. \A j, l \in Nat : ValueIndex(j, l) \in 0 .. Count(j) - 1
  BY IndexIsValue
<1>2. DefaultValue(k) \in 0 .. Count(k) - 1
  BY DEF DefaultValue, Count
<1> QED
  BY <1>1, <1>2, IndexIsValue DEF CardOK, LinesOK, Says
LEMMA BindsBinding ==
  ASSUME NEW c, CardOK(c), NEW user, LinesOK(user), NEW n \in Names
  PROVE  Binds(user, c, n) \in Bindings
BY MappingIsBinding, BaseIsBinding DEF CardOK, LinesOK, Binds

-----------------------------------------------------------------------------
(* Reading.                                                                *)

\* One file read over the values v.
LEMMA ReadOne ==
  ASSUME NEW v, ValueOK(v), NEW lines, LinesOK(lines)
  PROVE  ValueOK(ReadLines(v, lines))
<1>1. \A k \in Keys : ReadLines(v, lines)[k] \in 0 .. Count(k) - 1
  <2> SUFFICES ASSUME NEW k \in Keys PROVE ReadLines(v, lines)[k] \in 0 .. Count(k) - 1
    OBVIOUS
  <2>1. CASE k \in Live /\ HasLine(lines, k)
    BY <2>1, IndexIsValue DEF LinesOK, HasLine, ReadLines
  <2>2. CASE ~ (k \in Live /\ HasLine(lines, k))
    BY <2>2 DEF ValueOK, ReadLines
  <2> QED
    BY <2>1, <2>2
<1> QED
  BY <1>1 DEF ReadLines, ValueOK

\* Config_syncFrontend keeps the sharpness in step, whichever option it is told of.
LEMMA SyncSharp ==
  ASSUME NEW f, NEW a, NEW b, FeOK(f, a, b), NEW v
  PROVE  FeOK(Sync(f, "scaling", v), v, b) /\ FeOK(Sync(f, "sharpness", v), a, v)
BY DEF FeOK, Sync

\* Reading a file keeps the sharpness in step with the values read.
LEMMA ReadSharp ==
  ASSUME NEW v, NEW f, FeOK(f, v["scaling"], v["sharpness"]), NEW lines
  PROVE  FeOK(SyncLines(f, ReadLines(v, lines), lines), ReadLines(v, lines)["scaling"], ReadLines(v, lines)["sharpness"])
<1> DEFINE w == ReadLines(v, lines)
           s == IF HasLine(lines, "scaling") THEN Sync(f, "scaling", w["scaling"]) ELSE f
           t == IF HasLine(lines, "sharpness") THEN Sync(s, "sharpness", w["sharpness"]) ELSE s
<1>1. ~ HasLine(lines, "scaling") => w["scaling"] = v["scaling"]
  BY DEF ReadLines, Keys, Frontend
<1>2. ~ HasLine(lines, "sharpness") => w["sharpness"] = v["sharpness"]
  BY DEF ReadLines, Keys, Frontend
<1> HIDE DEF w
<1>3. FeOK(s, w["scaling"], v["sharpness"])
  BY <1>1, SyncSharp
<1> HIDE DEF s
<1>4. FeOK(t, w["scaling"], w["sharpness"])
  BY <1>2, <1>3, SyncSharp
<1> QED
  BY <1>4 DEF SyncLines, w, s, t

\* Config_readOptions: the values stay in range and the sharpness in step.
LEMMA ReadIsSound ==
  ASSUME NEW c, CardOK(c), NEW g \in Games, NEW v, ValueOK(v), NEW f, FeOK(f, v["scaling"], v["sharpness"])
  PROVE  LET r == ReadOptions(c, g, v, f) IN
         ValueOK(r.value) /\ FeOK(r.fe, r.value["scaling"], r.value["sharpness"]) /\ r.told \in BOOLEAN
<1> DEFINE u == User(c, g)
           v1 == ReadLines(v, c.system.lines)
           v2 == ReadLines(v1, c.default.lines)
           v3 == ReadLines(v2, u)
           f1 == SyncLines(f, v1, c.system.lines)
           f2 == SyncLines(f1, v2, c.default.lines)
           f3 == SyncLines(f2, v3, u)
<1>0. LinesOK(c.system.lines) /\ LinesOK(c.default.lines) /\ LinesOK(u)
  BY UserIsFile DEF CardOK
<1>1. ReadOptions(c, g, v, f).value = v3 /\ ReadOptions(c, g, v, f).fe = f3 /\ ReadOptions(c, g, v, f).told \in BOOLEAN
  BY DEF ReadOptions, User
<1>2. ValueOK(v1) /\ FeOK(f1, v1["scaling"], v1["sharpness"])
  BY <1>0, ReadOne, ReadSharp
<1> HIDE DEF v1, f1, u
<1>3. ValueOK(v2) /\ FeOK(f2, v2["scaling"], v2["sharpness"])
  BY <1>0, <1>2, ReadOne, ReadSharp
<1> HIDE DEF v2, f2
<1>4. ValueOK(v3) /\ FeOK(f3, v3["scaling"], v3["sharpness"])
  BY <1>0, <1>3, ReadOne, ReadSharp
<1> QED
  BY <1>1, <1>4

\* Config_readOptions: an option of the lists takes what the files say, or keeps its value.
LEMMA ReadIsSays ==
  ASSUME NEW c, NEW g, NEW v, NEW f, NEW k \in Keys
  PROVE  ReadOptions(c, g, v, f).value[k] =
           IF k \in Live /\ Told(User(c, g), c, k) THEN Says(User(c, g), c, k) ELSE v[k]
BY DEF ReadOptions, ReadLines, HasLine, User, Told, Says

\* Config_readControls over the bindings b.
Reads(c, g, b) == ReadBinds(ReadBinds(b, c.default.lines), User(c, g))
LEMMA ReadsBinds ==
  ASSUME NEW c, NEW g, NEW b, NEW n \in Names
  PROVE  Reads(c, g, b)[n] = IF Bound(User(c, g), c, n) THEN Binds(User(c, g), c, n) ELSE b[n]
BY DEF Reads, ReadBinds, HasLine, Bound, Binds

\* The bindings read are bindings.
LEMMA ReadsIsSound ==
  ASSUME NEW c, CardOK(c), NEW g \in Games, NEW b,
         \A n \in Names : Bound(User(c, g), c, n) \/ b[n] \in Bindings
  PROVE  BindOK(Reads(c, g, b))
<1>1. \A n \in Names : Reads(c, g, b)[n] \in Bindings
  BY ReadsBinds, BindsBinding, UserIsFile
<1>2. Reads(c, g, b) = [n \in Names |-> Reads(c, g, b)[n]]
  BY DEF Reads, ReadBinds
<1> QED
  BY <1>1, <1>2 DEF BindOK

\* The program starts with the values it was built with.
LEMMA LaunchKeeps ==
  ASSUME OptionsInv, NEW g \in Games, Launch(g)
  PROVE  OptionsInv'
<1>1. /\ run.phase = "off"
      /\ run'.phase = "open" /\ run'.game = g
      /\ RunOK(run')
  BY DEF OptionsInv, RunOK, Launch
<1>2. UNCHANGED <<card, value, lock, listed, fe, bind, default_, ignore, loaded, changed, seen, saved>>
  BY DEF Launch
<1>3. (CardOK(card))' /\ (ValueOK(value))' /\ (BindOK(bind))' /\ LoadedOK' /\ ChangedOK' /\ Sharp' /\ (SavedIsThere(saved, card))'
  BY <1>2 DEF OptionsInv, LoadedOK, ChangedOK, Sharp
<1>4. Unread' /\ Between' /\ DefaultsKept' /\ LoadedIsCurrent'
  BY <1>1, <1>2 DEF OptionsInv, Launch, Unread, Between, DefaultsKept, LoadedIsCurrent, Begun
<1>5. Listed' /\ Sees' /\ Ready' /\ Restored'
  BY <1>1, <1>2 DEF OptionsInv, Launch, Listed, Sees, Ready, Restored, CoreSees
<1> QED
  BY <1>1, <1>3, <1>4, <1>5 DEF OptionsInv

\* A new list has the built-in values; what the files said is read again later.
LEMMA ReportKeeps ==
  ASSUME OptionsInv, Report
  PROVE  OptionsInv'
<1>1. /\ run.phase \in {"open", "load"}
      /\ run'.phase \in {"opened", "reported"} /\ run'.game = run.game /\ (run'.phase = "opened" <=> run.phase = "open")
      /\ RunOK(run')
  BY DEF OptionsInv, RunOK, Report
<1>2. UNCHANGED <<card, fe, bind, default_, ignore, loaded, changed, saved>>
  BY DEF Report
<1>3. ~ ("scaling" \in CoreKeys) /\ ~ ("sharpness" \in CoreKeys) /\ "scaling" \in Keys /\ "sharpness" \in Keys
  BY OptionsAssumption DEF Keys, Frontend
<1>4. \A k \in Keys : DefaultValue(k) \in 0 .. Count(k) - 1
  BY DEF DefaultValue, Count
<1>5. value' = [k \in Keys |-> IF k \in CoreKeys THEN DefaultValue(k) ELSE value[k]]
  BY DEF Report
<1>6. (CardOK(card))' /\ (BindOK(bind))' /\ LoadedOK' /\ ChangedOK' /\ (SavedIsThere(saved, card))'
  BY <1>2 DEF OptionsInv, LoadedOK, ChangedOK
<1>7. (ValueOK(value))'
  BY <1>4, <1>5 DEF OptionsInv, ValueOK
<1>8. Sharp'
  BY <1>2, <1>3, <1>5 DEF OptionsInv, Sharp
<1>9. Unread'
  BY <1>1, <1>5 DEF OptionsInv, Unread, Memory
<1>10. Between' /\ DefaultsKept' /\ LoadedIsCurrent' /\ Listed'
  BY <1>1, <1>2 DEF OptionsInv, Report, Between, DefaultsKept, LoadedIsCurrent, Listed, Begun
<1>11. Sees' /\ Ready' /\ Restored'
  BY <1>1, <1>2 DEF OptionsInv, Report, Sees, Ready, Restored, CoreSees
<1> QED
  BY <1>1, <1>6, <1>7, <1>8, <1>9, <1>10, <1>11 DEF OptionsInv

\* What the core reads is what is shown.
LEMMA CoreReadKeeps ==
  ASSUME OptionsInv, CoreRead
  PROVE  OptionsInv'
<1>1. /\ run.phase \in {"load", "reported"} /\ listed
      /\ run'.phase = "read" /\ run'.game = run.game
      /\ RunOK(run')
  BY DEF OptionsInv, RunOK, CoreRead
<1>2. UNCHANGED <<card, value, lock, listed, fe, bind, default_, ignore, loaded, changed, saved>>
  BY DEF CoreRead
<1>3. (CardOK(card))' /\ (ValueOK(value))' /\ (BindOK(bind))' /\ LoadedOK' /\ ChangedOK' /\ Sharp' /\ (SavedIsThere(saved, card))'
  BY <1>2 DEF OptionsInv, LoadedOK, ChangedOK, Sharp
<1>4. Unread' /\ Between' /\ DefaultsKept' /\ LoadedIsCurrent'
  BY <1>1, <1>2 DEF OptionsInv, CoreRead, Unread, Between, DefaultsKept, LoadedIsCurrent, Begun
<1>5. Listed' /\ Sees' /\ Ready' /\ Restored'
  BY <1>1, <1>2 DEF OptionsInv, CoreRead, Listed, Sees, Ready, Restored, CoreSees
<1> QED
  BY <1>1, <1>3, <1>4, <1>5 DEF OptionsInv

\* A frame.
LEMMA CoreRunKeeps ==
  ASSUME OptionsInv, CoreRun
  PROVE  OptionsInv'
<1>1. /\ run.phase \in {"ready", "play"}
      /\ run'.phase = "play" /\ run'.game = run.game
      /\ RunOK(run')
  BY DEF OptionsInv, RunOK, CoreRun, Playing, Play
<1>2. UNCHANGED <<card, value, lock, listed, fe, bind, default_, ignore, loaded, saved>>
  BY DEF CoreRun
<1>3. (CardOK(card))' /\ (ValueOK(value))' /\ (BindOK(bind))' /\ LoadedOK' /\ Sharp' /\ (SavedIsThere(saved, card))'
  BY <1>2 DEF OptionsInv, LoadedOK, Sharp
<1>4. ChangedOK'
  BY <1>1, <1>2 DEF OptionsInv, CoreRun, ChangedOK
<1>5. Unread' /\ Between' /\ DefaultsKept' /\ LoadedIsCurrent'
  BY <1>1, <1>2 DEF OptionsInv, CoreRun, Unread, Between, DefaultsKept, LoadedIsCurrent, Begun
<1>6. Listed' /\ Sees' /\ Ready' /\ Restored'
  BY <1>1, <1>2 DEF OptionsInv, CoreRun, Listed, Sees, Ready, Restored, CoreSees
<1> QED
  BY <1>1, <1>3, <1>4, <1>5, <1>6 DEF OptionsInv

\* The core changes an option.
LEMMA CoreSetKeeps ==
  ASSUME OptionsInv, NEW k \in CoreKeys, CoreSet(k)
  PROVE  OptionsInv'
<1>1. /\ run.phase \in {"ready", "play"}
      /\ run'.phase = "play" /\ run'.game = run.game
      /\ RunOK(run')
  BY DEF OptionsInv, RunOK, CoreSet, Playing, Play
<1>2. UNCHANGED <<card, lock, listed, fe, bind, default_, ignore, loaded, seen, saved>>
  BY DEF CoreSet
<1>3. k \in Keys /\ k # "scaling" /\ k # "sharpness" /\ "scaling" \in Keys /\ "sharpness" \in Keys
  BY OptionsAssumption DEF Keys, Frontend
<1>4. PICK v \in 0 .. Count(k) - 1 : value' = [value EXCEPT ![k] = v]
  <2> PICK label \in 0 .. Count(k) : value' = [value EXCEPT ![k] = ValueIndex(k, label)]
    BY DEF CoreSet
  <2>1. label \in Nat
    BY DEF Count
  <2> QED
    BY <2>1, IndexIsValue
<1>5. (CardOK(card))' /\ (BindOK(bind))' /\ LoadedOK' /\ (SavedIsThere(saved, card))'
  BY <1>2 DEF OptionsInv, LoadedOK
<1>6. (ValueOK(value))'
  BY <1>3, <1>4 DEF OptionsInv, ValueOK
<1>7. ChangedOK'
  BY <1>1, <1>2 DEF OptionsInv, CoreSet, ChangedOK
<1>8. Sharp'
  BY <1>2, <1>3, <1>4 DEF OptionsInv, ValueOK, Sharp
<1>9. Unread' /\ Between' /\ DefaultsKept' /\ LoadedIsCurrent'
  BY <1>1, <1>2 DEF OptionsInv, CoreSet, Unread, Between, DefaultsKept, LoadedIsCurrent, Begun
<1>10. Listed' /\ Sees' /\ Ready' /\ Restored'
  BY <1>1, <1>2 DEF OptionsInv, CoreSet, Listed, Sees, Ready, Restored, CoreSees
<1> QED
  BY <1>1, <1>5, <1>6, <1>7, <1>8, <1>9, <1>10 DEF OptionsInv

\* The shortcut.
LEMMA CycleScaleKeeps ==
  ASSUME OptionsInv, CycleScale
  PROVE  OptionsInv'
<1>1. /\ run.phase \in {"ready", "play"}
      /\ run'.phase = "play" /\ run'.game = run.game
      /\ RunOK(run')
  BY DEF OptionsInv, RunOK, CycleScale, Playing, Play
<1>2. UNCHANGED <<card, lock, listed, bind, default_, ignore, loaded, changed, seen, saved>>
  BY DEF CycleScale
<1>3. ~ ("scaling" \in CoreKeys) /\ "scaling" \in Keys /\ "sharpness" \in Keys
  BY OptionsAssumption DEF Keys, Frontend
<1>4. PICK v \in 0 .. Count("scaling") - 1 : value' = [value EXCEPT !["scaling"] = v] /\ fe' = Sync(fe, "scaling", v)
  <2>1. fe.scaling \in 0 .. Count("scaling") - 1
    BY <1>3 DEF OptionsInv, Sharp, FeOK, ValueOK
  <2>2. (fe.scaling + 1) % Count("scaling") \in 0 .. Count("scaling") - 1
    BY <2>1 DEF Count
  <2> QED
    BY <2>2 DEF CycleScale
<1>5. (CardOK(card))' /\ (BindOK(bind))' /\ LoadedOK' /\ ChangedOK' /\ (SavedIsThere(saved, card))'
  BY <1>2 DEF OptionsInv, LoadedOK, ChangedOK
<1>6. (ValueOK(value))'
  BY <1>3, <1>4 DEF OptionsInv, ValueOK
<1>7. Sharp'
  BY <1>3, <1>4, SyncSharp DEF OptionsInv, ValueOK, Sharp
<1>8. Sees'
  BY <1>1, <1>2, <1>3, <1>4 DEF OptionsInv, ValueOK, Sees, CoreSees
<1>9. Unread' /\ Between' /\ DefaultsKept' /\ LoadedIsCurrent'
  BY <1>1, <1>2 DEF OptionsInv, CycleScale, Unread, Between, DefaultsKept, LoadedIsCurrent, Begun
<1>10. Listed' /\ Ready' /\ Restored'
  BY <1>1, <1>2 DEF OptionsInv, CycleScale, Listed, Ready, Restored
<1> QED
  BY <1>1, <1>5, <1>6, <1>7, <1>8, <1>9, <1>10 DEF OptionsInv

\* The menu opens.
LEMMA OpenMenuKeeps ==
  ASSUME OptionsInv, OpenMenu
  PROVE  OptionsInv'
<1>1. /\ run.phase \in {"ready", "play"}
      /\ run'.phase = "menu" /\ run'.game = run.game
      /\ RunOK(run')
  BY DEF OptionsInv, RunOK, OpenMenu, Playing
<1>2. UNCHANGED <<card, value, lock, listed, fe, bind, default_, ignore, loaded, changed, seen, saved>>
  BY DEF OpenMenu
<1>3. (CardOK(card))' /\ (ValueOK(value))' /\ (BindOK(bind))' /\ LoadedOK' /\ ChangedOK' /\ Sharp' /\ (SavedIsThere(saved, card))'
  BY <1>2 DEF OptionsInv, LoadedOK, ChangedOK, Sharp
<1>4. Unread' /\ Between' /\ DefaultsKept' /\ LoadedIsCurrent'
  BY <1>1, <1>2 DEF OptionsInv, OpenMenu, Unread, Between, DefaultsKept, LoadedIsCurrent, Begun
<1>5. Listed' /\ Sees' /\ Ready' /\ Restored'
  BY <1>1, <1>2 DEF OptionsInv, OpenMenu, Listed, Sees, Ready, Restored, CoreSees
<1> QED
  BY <1>1, <1>3, <1>4, <1>5 DEF OptionsInv

\* The menu closes.
LEMMA CloseMenuKeeps ==
  ASSUME OptionsInv, CloseMenu
  PROVE  OptionsInv'
<1>1. /\ run.phase \in {"menu", "restored"}
      /\ run'.phase = "play" /\ run'.game = run.game
      /\ RunOK(run')
  BY DEF OptionsInv, RunOK, CloseMenu, InMenu, Play
<1>2. UNCHANGED <<card, value, lock, listed, fe, bind, default_, ignore, loaded, changed, seen, saved>>
  BY DEF CloseMenu
<1>3. (CardOK(card))' /\ (ValueOK(value))' /\ (BindOK(bind))' /\ LoadedOK' /\ ChangedOK' /\ Sharp' /\ (SavedIsThere(saved, card))'
  BY <1>2 DEF OptionsInv, LoadedOK, ChangedOK, Sharp
<1>4. Unread' /\ Between' /\ DefaultsKept' /\ LoadedIsCurrent'
  BY <1>1, <1>2 DEF OptionsInv, CloseMenu, Unread, Between, DefaultsKept, LoadedIsCurrent, Begun
<1>5. Listed' /\ Sees' /\ Ready' /\ Restored'
  BY <1>1, <1>2 DEF OptionsInv, CloseMenu, Listed, Sees, Ready, Restored, CoreSees
<1> QED
  BY <1>1, <1>3, <1>4, <1>5 DEF OptionsInv

\* An option is changed in the menu.
LEMMA MenuChangeKeeps ==
  ASSUME OptionsInv, NEW k \in Keys, MenuChange(k)
  PROVE  OptionsInv'
<1>1. /\ run.phase \in {"menu", "restored"}
      /\ run'.phase = "menu" /\ run'.game = run.game
      /\ RunOK(run')
  BY DEF OptionsInv, RunOK, MenuChange, InMenu
<1>2. UNCHANGED <<card, lock, listed, bind, default_, ignore, loaded, seen, saved>>
  BY DEF MenuChange
<1>3. "scaling" \in Keys /\ "sharpness" \in Keys /\ (k \in CoreKeys => k # "scaling" /\ k # "sharpness")
       /\ (k \in Frontend <=> k \in {"scaling", "sharpness"}) /\ (k \in Frontend \/ k \in CoreKeys)
       /\ (k \in Frontend => ~ (k \in CoreKeys))
  BY OptionsAssumption DEF Keys, Frontend
<1>4. PICK v \in 0 .. Count(k) - 1 :
        value' = [value EXCEPT ![k] = v] /\ fe' = IF k \in Frontend THEN Sync(fe, k, v) ELSE fe
  <2> PICK step \in {1, Count(k) - 1} :
        LET v == (value[k] + step) % Count(k) IN
        value' = [value EXCEPT ![k] = v] /\ fe' = IF k \in Frontend THEN Sync(fe, k, v) ELSE fe
    BY DEF MenuChange
  <2>1. value[k] \in Nat /\ step \in Nat
    BY DEF OptionsInv, ValueOK, Count
  <2>2. (value[k] + step) % Count(k) \in 0 .. Count(k) - 1
    BY <2>1 DEF Count
  <2> QED
    BY <2>2
<1>5. (CardOK(card))' /\ (BindOK(bind))' /\ LoadedOK' /\ (SavedIsThere(saved, card))'
  BY <1>2 DEF OptionsInv, LoadedOK
<1>6. (ValueOK(value))'
  BY <1>3, <1>4 DEF OptionsInv, ValueOK
<1>7. ChangedOK'
  BY <1>1, <1>2 DEF OptionsInv, MenuChange, ChangedOK
<1>8. Sharp'
  BY <1>3, <1>4, SyncSharp DEF OptionsInv, ValueOK, Sharp
<1>9. Sees'
  <2>1. changed' <=> changed \/ k \in CoreKeys
    BY DEF MenuChange, OptionsInv, ChangedOK
  <2>2. k \in Frontend => \A j \in CoreKeys : value'[j] = value[j]
    BY <1>3, <1>4 DEF OptionsInv, ValueOK, Keys
  <2> QED
    BY <1>1, <1>2, <1>3, <2>1, <2>2 DEF OptionsInv, Sees, CoreSees
<1>10. Unread' /\ Between' /\ DefaultsKept' /\ LoadedIsCurrent'
  BY <1>1, <1>2 DEF OptionsInv, MenuChange, Unread, Between, DefaultsKept, LoadedIsCurrent, Begun
<1>11. Listed' /\ Ready' /\ Restored'
  BY <1>1, <1>2 DEF OptionsInv, MenuChange, Listed, Ready, Restored
<1> QED
  BY <1>1, <1>5, <1>6, <1>7, <1>8, <1>9, <1>10, <1>11 DEF OptionsInv

\* A button is bound.
LEMMA MenuBindKeeps ==
  ASSUME OptionsInv, NEW n \in Names, MenuBind(n)
  PROVE  OptionsInv'
<1>1. /\ run.phase \in {"menu", "restored"}
      /\ run'.phase = "menu" /\ run'.game = run.game
      /\ RunOK(run')
  BY DEF OptionsInv, RunOK, MenuBind, InMenu
<1>2. UNCHANGED <<card, value, lock, listed, fe, default_, ignore, loaded, changed, seen, saved>>
  BY DEF MenuBind
<1>3. PICK m \in Bindings : bind' = [bind EXCEPT ![n] = m]
  BY DEF MenuBind, Bindings
<1>4. (CardOK(card))' /\ (ValueOK(value))' /\ LoadedOK' /\ ChangedOK' /\ Sharp' /\ (SavedIsThere(saved, card))'
  BY <1>2 DEF OptionsInv, LoadedOK, ChangedOK, Sharp
<1>5. (BindOK(bind))'
  BY <1>3 DEF OptionsInv, BindOK
<1>6. Unread' /\ Between' /\ DefaultsKept' /\ LoadedIsCurrent'
  BY <1>1, <1>2 DEF OptionsInv, MenuBind, Unread, Between, DefaultsKept, LoadedIsCurrent, Begun
<1>7. Listed' /\ Sees' /\ Ready' /\ Restored'
  BY <1>1, <1>2 DEF OptionsInv, MenuBind, Listed, Sees, Ready, Restored, CoreSees
<1> QED
  BY <1>1, <1>4, <1>5, <1>6, <1>7 DEF OptionsInv

\* A new default.cfg, with nothing running.
LEMMA UpdateKeeps ==
  ASSUME OptionsInv, Update
  PROVE  OptionsInv'
<1>1. run.phase = "off" /\ RunOK(run')
  BY DEF OptionsInv, RunOK, Update
<1>2. UNCHANGED <<run, value, lock, listed, fe, bind, default_, ignore, loaded, changed, seen, saved>>
  BY DEF Update
<1>3. PICK d \in Defaults : card' = [card EXCEPT !.default = d]
  BY DEF Update
<1>4. LinesOK(d.lines)
  BY FilesAssumption DEF LinesOK, Labels
<1>5. card'.game = card.game /\ card'.console = card.console
  BY <1>3 DEF OptionsInv, CardOK
<1>6. (ValueOK(value))' /\ (BindOK(bind))' /\ LoadedOK' /\ ChangedOK' /\ Sharp'
  BY <1>2 DEF OptionsInv, LoadedOK, ChangedOK, Sharp
<1>7. (CardOK(card))'
  BY <1>3, <1>4 DEF OptionsInv, CardOK
<1>8. (SavedIsThere(saved, card))'
  BY <1>2, <1>5 DEF OptionsInv, SavedIsThere, User, UserCfg
<1>9. Unread' /\ Between' /\ DefaultsKept' /\ LoadedIsCurrent'
  BY <1>1, <1>2 DEF OptionsInv, Update, Unread, Between, DefaultsKept, LoadedIsCurrent, Begun
<1>10. Listed' /\ Sees' /\ Ready' /\ Restored'
  BY <1>1, <1>2 DEF OptionsInv, Update, Listed, Sees, Ready, Restored, CoreSees
<1> QED
  BY <1>1, <1>6, <1>7, <1>8, <1>9, <1>10 DEF OptionsInv

\* The core is to be told of the options of its own that some file names.
LEMMA ToldOfCore ==
  ASSUME NEW c, NEW g, NEW v, NEW f, NEW k \in CoreKeys, k \in Live, Told(User(c, g), c, k)
  PROVE  ReadOptions(c, g, v, f).told
<1>1. k \in Live \cap CoreKeys \cap UNION {DOMAIN c.system.lines, DOMAIN c.default.lines, DOMAIN UserCfg(c, g).lines}
  BY DEF Told, User
<1> QED
  BY <1>1 DEF ReadOptions

\* The first read: what no file names keeps its built-in value.
LEMMA EarlyReadKeeps ==
  ASSUME OptionsInv, EarlyRead
  PROVE  OptionsInv'
<1> DEFINE r == ReadOptions(card, run.game, value, fe)
           u == User(card, run.game)
<1>1. /\ run.phase \in {"open", "opened"}
      /\ run'.phase = "load" /\ run'.game = run.game /\ run.game \in Games
      /\ RunOK(run')
  BY DEF OptionsInv, RunOK, EarlyRead
<1>2. UNCHANGED <<card, listed, ignore, seen, saved>>
  BY DEF EarlyRead
<1>3. value' = r.value /\ fe' = r.fe /\ changed' = (changed \/ r.told)
  BY DEF EarlyRead, Set
<1>4. ValueOK(r.value) /\ FeOK(r.fe, r.value["scaling"], r.value["sharpness"]) /\ r.told \in BOOLEAN
  BY <1>1, ReadIsSound DEF OptionsInv, Sharp
<1>5. \A k \in Keys : Told(u, card, k) \/ r.value[k] = DefaultValue(k)
  <2>1. \A k \in Keys : value[k] = DefaultValue(k)
    BY <1>1 DEF OptionsInv, Unread, Memory
  <2> QED
    BY <2>1, ReadIsSays
<1> HIDE DEF r, u
<1>6. \A n \in Controls : default_'[n] \in Bindings /\ (n \in DOMAIN card.default.lines \/ default_'[n] = Base(n))
  <2> SUFFICES ASSUME NEW n \in Controls
               PROVE  default_'[n] \in Bindings /\ (n \in DOMAIN card.default.lines \/ default_'[n] = Base(n))
    OBVIOUS
  <2>1. n \in Names
    BY DEF Names
  <2>2. CASE n \in DOMAIN card.default.lines
    <3>1. Mapping(card.default.lines[n]) \in Bindings
      BY <2>1, <2>2, MappingIsBinding DEF OptionsInv, CardOK, LinesOK
    <3>2. default_'[n] \in {Unbound, Mapping(card.default.lines[n])}
      BY <2>2 DEF EarlyRead
    <3> QED
      BY <2>2, <3>1, <3>2 DEF Bindings
  <2>3. CASE n \notin DOMAIN card.default.lines
    BY <2>3, BaseIsBinding DEF EarlyRead, Base
  <2> QED
    BY <2>2, <2>3
<1>7. bind' = [n \in Names |-> IF n \in Controls THEN default_'[n] ELSE Unbound]
  BY DEF EarlyRead
<1>8. (CardOK(card))' /\ (SavedIsThere(saved, card))'
  BY <1>2 DEF OptionsInv
<1>9. (ValueOK(value))' /\ Sharp'
  BY <1>3, <1>4 DEF Sharp
<1>10. ChangedOK'
  BY <1>3, <1>4 DEF OptionsInv, ChangedOK
<1>11. (BindOK(bind))'
  BY <1>6, <1>7 DEF BindOK, Bindings
<1>12. LoadedOK' /\ LoadedIsCurrent'
  BY <1>1, <1>2 DEF EarlyRead, Loaded, LoadedOK, LoadedIsCurrent
<1>13. Between'
  <2>1. \A n \in Names : Bound(u, card, n) \/ bind'[n] = Base(n)
    BY <1>6, <1>7 DEF Bound, Base
  <2> QED
    BY <1>1, <1>2, <1>3, <1>5, <2>1 DEF Between, u
<1>14. DefaultsKept'
  BY <1>2, <1>6 DEF DefaultsKept
<1>15. Unread' /\ Listed' /\ Sees' /\ Ready' /\ Restored'
  BY <1>1 DEF Unread, Listed, Sees, CoreSees, Ready, Restored
<1> QED
  BY <1>1, <1>8, <1>9, <1>10, <1>11, <1>12, <1>13, <1>14, <1>15 DEF OptionsInv

\* The second read: every option and every button takes what the files say, and
\* a core whose options any file names is told.
LEMMA LateReadKeeps ==
  ASSUME OptionsInv, LateRead
  PROVE  OptionsInv'
<1> DEFINE r == ReadOptions(card, run.game, value, fe)
           u == User(card, run.game)
<1>1. /\ run.phase = "read" /\ run.game \in Games
      /\ run'.phase = "ready" /\ run'.game = run.game
      /\ RunOK(run')
  BY DEF OptionsInv, RunOK, LateRead
<1>2. UNCHANGED <<card, listed, default_, loaded, seen, saved>>
  BY DEF LateRead
<1>3. value' = r.value /\ fe' = r.fe /\ changed' = (changed \/ r.told) /\ bind' = Reads(card, run.game, bind)
  BY DEF LateRead, Set, ReadControls, Reads, User
<1>4. ValueOK(r.value) /\ FeOK(r.fe, r.value["scaling"], r.value["sharpness"]) /\ r.told \in BOOLEAN
  BY <1>1, ReadIsSound DEF OptionsInv, Sharp
<1>5. listed /\ Live = Keys
  BY <1>1 DEF OptionsInv, Listed, Live
<1>6. \A k \in Keys : r.value[k] = IF Told(u, card, k) THEN Says(u, card, k) ELSE value[k]
  BY <1>5, ReadIsSays
<1>7. \A k \in CoreKeys : Told(u, card, k) => r.told
  BY <1>5, ToldOfCore DEF Keys
<1>8. \A n \in Names : bind'[n] = IF Bound(u, card, n) THEN Binds(u, card, n) ELSE bind[n]
  BY <1>3, ReadsBinds
<1> HIDE DEF r
<1>9. \A k \in Keys : r.value[k] = Says(u, card, k)
  BY <1>1, <1>6 DEF OptionsInv, Between, Told, Says
<1>10. \A n \in Names : bind'[n] = Binds(u, card, n)
  BY <1>1, <1>8 DEF OptionsInv, Between, Bound, Binds
<1>11. (CardOK(card))' /\ (SavedIsThere(saved, card))' /\ LoadedOK'
  BY <1>2 DEF OptionsInv, LoadedOK
<1>12. (ValueOK(value))' /\ Sharp'
  BY <1>3, <1>4 DEF Sharp
<1>13. ChangedOK'
  BY <1>3, <1>4 DEF OptionsInv, ChangedOK
<1>14. (BindOK(bind))'
  BY <1>1, <1>3, ReadsIsSound DEF OptionsInv, BindOK
<1>15. Ready'
  BY <1>1, <1>2, <1>3, <1>9, <1>10 DEF Ready, Agrees
<1>16. Sees'
  <2>1. CASE changed'
    BY <1>1, <2>1 DEF Sees, CoreSees
  <2>2. CASE ~ changed'
    <3>1. \A k \in CoreKeys : r.value[k] = value[k]
      BY <1>3, <1>4, <1>6, <1>7, <2>2 DEF Keys
    <3>2. \A k \in CoreKeys : seen[k] = value[k]
      BY <1>1 DEF OptionsInv, Sees
    <3> QED
      BY <1>1, <1>2, <1>3, <3>1, <3>2 DEF Sees, CoreSees
  <2> QED
    BY <2>1, <2>2
<1>17. Unread' /\ Between' /\ Restored' /\ Listed'
  BY <1>1, <1>2, <1>5 DEF Unread, Between, Restored, Listed
<1>18. DefaultsKept' /\ LoadedIsCurrent'
  BY <1>1, <1>2 DEF OptionsInv, DefaultsKept, LoadedIsCurrent, Begun
<1> QED
  BY <1>1, <1>11, <1>12, <1>13, <1>14, <1>15, <1>16, <1>17, <1>18 DEF OptionsInv

-----------------------------------------------------------------------------
(* Saving, restoring and ending.                                           *)

\* What Config_write writes is read back as it was.
LEMMA WrittenReadsBack ==
  ASSUME OptionsInv, listed
  PROVE  /\ LinesOK(AllLines)
         /\ \A c : Agrees(AllLines, c, value, bind)
         /\ Holds(Snapshot, AllLines)
<1>1. Live = Keys /\ DOMAIN AllLines = Keys \cup Names
  BY DEF Live, AllLines
<1>2. \A k \in Keys : k \in DOMAIN AllLines /\ AllLines[k] \in Nat /\ ValueIndex(k, AllLines[k]) = value[k]
  <2> SUFFICES ASSUME NEW k \in Keys
               PROVE  k \in DOMAIN AllLines /\ AllLines[k] \in Nat /\ ValueIndex(k, AllLines[k]) = value[k]
    OBVIOUS
  <2>1. AllLines[k] = value[k]
    BY <1>1, OptionsAssumption DEF AllLines
  <2>2. value[k] \in 0 .. Count(k) - 1
    BY DEF OptionsInv, ValueOK
  <2> QED
    BY <1>1, <2>1, <2>2, IndexOfValue
<1>3. \A n \in Names : n \in DOMAIN AllLines /\ AllLines[n] \in Labels /\ Mapping(AllLines[n]) = bind[n]
  <2> SUFFICES ASSUME NEW n \in Names
               PROVE  n \in DOMAIN AllLines /\ AllLines[n] \in Labels /\ Mapping(AllLines[n]) = bind[n]
    OBVIOUS
  <2>1. AllLines[n] = Label(bind[n])
    BY DEF AllLines
  <2>2. bind[n] \in Bindings
    BY DEF OptionsInv, BindOK
  <2> QED
    BY <1>1, <2>1, <2>2, MappingOfLabel
<1>4. LinesOK(AllLines)
  BY <1>2, <1>3 DEF LinesOK
<1>5. \A c : Agrees(AllLines, c, value, bind)
  BY <1>2, <1>3 DEF Agrees, Says, Binds
<1>6. Holds(Snapshot, AllLines)
  <2>1. Values = [k \in Keys |-> ValueIndex(k, AllLines[k])]
    BY <1>1, <1>2 DEF Values
  <2>2. bind = [n \in Names |-> Mapping(AllLines[n])]
    BY <1>3 DEF OptionsInv, BindOK
  <2> QED
    BY <1>2, <1>3, <2>1, <2>2 DEF Holds, Snapshot
<1> QED
  BY <1>4, <1>5, <1>6

\* What a cut leaves of a file is still a file, if a short one.
LEMMA TornIsFile ==
  ASSUME OptionsInv, listed, NEW c \in Torn
  PROVE  LinesOK(c.lines)
<1>1. CASE c = [on |-> TRUE, lines |-> Nothing]
  BY <1>1 DEF LinesOK, Nothing
<1>2. CASE c # [on |-> TRUE, lines |-> Nothing]
  <2> PICK k \in Live, odd \in BOOLEAN :
        c = [on |-> TRUE, lines |-> [j \in Upto(k) |-> IF j = k /\ odd THEN Count(k) ELSE AllLines[j]]]
    BY <1>2 DEF Torn
  <2>1. Upto(k) \subseteq Keys
    BY DEF Upto, Live, Keys, Frontend
  <2>2. Count(k) \in Nat
    BY DEF Count
  <2>3. \A j \in Keys : j \in DOMAIN AllLines /\ AllLines[j] \in Nat
    BY WrittenReadsBack DEF LinesOK, AllLines, Live
  <2>4. \A n \in Names : n \notin Upto(k)
    BY <2>1, OptionsAssumption
  <2> QED
    BY <2>1, <2>2, <2>3, <2>4 DEF LinesOK
<1> QED
  BY <1>1, <1>2

\* A card with the file of one game, or that and the console's, replaced.
WithGame(c, h, f) == [c EXCEPT !.game[h] = f]
WithBoth(c, h, f, d) == [c EXCEPT !.console = d, !.game[h] = f]
LEMMA CardWithGame ==
  ASSUME NEW c, CardOK(c), NEW h \in Games, NEW f, LinesOK(f.lines), NEW y, y = WithGame(c, h, f)
  PROVE  /\ CardOK(y) /\ y.game[h] = f /\ \A g \in Games : g # h => y.game[g] = c.game[g]
         /\ y.console = c.console /\ y.system = c.system /\ y.default = c.default
BY DEF CardOK, WithGame
LEMMA CardWithBoth ==
  ASSUME NEW c, CardOK(c), NEW h \in Games, NEW f, LinesOK(f.lines), NEW d, LinesOK(d.lines),
         NEW y, y = WithBoth(c, h, f, d)
  PROVE  /\ CardOK(y) /\ y.game[h] = f /\ \A g \in Games : g # h => y.game[g] = c.game[g]
         /\ y.console = d /\ y.system = c.system /\ y.default = c.default
BY DEF CardOK, WithBoth

\* No file has no lines.
LEMMA AbsentIsFile == LinesOK(Absent.lines) /\ Absent.on = FALSE
BY DEF LinesOK, Absent, Nothing

\* A program that has ended has its initial memory.
LEMMA OffIsClean ==
  ASSUME Off
  PROVE  /\ (RunOK(run))' /\ (ValueOK(value))' /\ (BindOK(bind))' /\ LoadedOK' /\ ChangedOK' /\ Sharp'
         /\ Unread' /\ Between' /\ DefaultsKept' /\ LoadedIsCurrent' /\ Listed' /\ Sees' /\ Ready' /\ Restored'
<1>1. run'.phase = "off" /\ (RunOK(run))'
  BY DEF Off, RunOK
<1>2. (ValueOK(value))' /\ Sharp'
  BY DEF Off, Memory, ValueOK, Sharp, FeOK, DefaultValue, Count, Keys, Frontend, SCALE_NATIVE
<1>3. (BindOK(bind))'
  BY DEF Off, Memory, BindOK, Bindings
<1>4. LoadedOK' /\ ChangedOK'
  BY DEF Off, LoadedOK, ChangedOK
<1>5. Unread'
  BY DEF Off, Unread
<1>6. Between' /\ DefaultsKept' /\ LoadedIsCurrent' /\ Listed' /\ Sees' /\ Ready' /\ Restored'
  BY <1>1 DEF Between, DefaultsKept, LoadedIsCurrent, Begun, Listed, Sees, CoreSees, Ready, Restored
<1> QED
  BY <1>1, <1>2, <1>3, <1>4, <1>5, <1>6

LEMMA QuitKeeps ==
  ASSUME OptionsInv, Quit
  PROVE  OptionsInv'
<1>1. (CardOK(card))' /\ (SavedIsThere(saved, card))'
  BY DEF OptionsInv, Quit
<1> QED
  BY <1>1, OffIsClean DEF Quit, OptionsInv

\* Writing leaves the program's memory alone.
LEMMA MemoryKept ==
  ASSUME OptionsInv, InMenu, UNCHANGED <<run, value, lock, listed, fe, bind, default_, changed, seen>>,
         card'.default = card.default
  PROVE  /\ (RunOK(run))' /\ (ValueOK(value))' /\ (BindOK(bind))' /\ ChangedOK' /\ Sharp'
         /\ Unread' /\ Between' /\ DefaultsKept' /\ Listed' /\ Sees' /\ Ready'
<1>1. run.phase \in {"menu", "restored"}
  BY DEF InMenu
<1>2. (RunOK(run))' /\ (ValueOK(value))' /\ (BindOK(bind))' /\ ChangedOK' /\ Sharp'
  BY DEF OptionsInv, ChangedOK, Sharp
<1>3. Unread' /\ Between' /\ Ready'
  BY <1>1 DEF Unread, Between, Ready
<1>4. DefaultsKept' /\ Listed' /\ Sees'
  BY <1>1 DEF OptionsInv, DefaultsKept, Begun, Listed, Sees, CoreSees
<1> QED
  BY <1>2, <1>3, <1>4

\* The game's own file is gone once the console's is written, as Config_write leaves it.
Gone == IF loaded = "game" THEN Absent ELSE card.game[run.game]
LEMMA GoneIsOff ==
  ASSUME OptionsInv, InMenu
  PROVE  run.game \in Games /\ listed /\ LinesOK(Gone.lines) /\ ~ Gone.on
BY AbsentIsFile DEF OptionsInv, InMenu, RunOK, Listed, LoadedIsCurrent, Begun, CardOK, Gone

\* Saving for the console: every game without a file of its own finds it.
LEMMA SaveConsoleKeeps ==
  ASSUME OptionsInv, SaveConsole
  PROVE  OptionsInv'
<1> DEFINE h == run.game
<1>1. InMenu /\ h \in Games /\ listed /\ LinesOK(Gone.lines) /\ ~ Gone.on
  BY GoneIsOff DEF SaveConsole
<1>2. UNCHANGED <<run, value, lock, listed, fe, bind, default_, changed, seen>> /\ loaded' = "console"
  BY DEF SaveConsole
<1>3. LinesOK(AllLines) /\ Agrees(AllLines, card', value, bind) /\ Holds(Snapshot, AllLines)
  BY <1>1, WrittenReadsBack
<1>4. Written.lines = AllLines /\ LinesOK(Written.lines)
  BY <1>3 DEF Written
<1>5. card' = WithBoth(card, h, Gone, Written)
  BY DEF SaveConsole, Gone, WithBoth
<1>6. /\ CardOK(card') /\ card'.game[h] = Gone /\ \A g \in Games : g # h => card'.game[g] = card.game[g]
      /\ card'.console = Written /\ card'.default = card.default
  <2>1. CardOK(card)
    BY DEF OptionsInv
  <2> HIDE DEF h
  <2> QED
    BY <1>1, <1>4, <1>5, <2>1, CardWithBoth, SMTT(30)
<1>7. User(card', h) = AllLines /\ card'.console.lines = AllLines
  BY <1>1, <1>4, <1>6 DEF User, UserCfg
<1>8. (SavedIsThere(saved, card))'
  <2>1. saved' = [g \in Games |-> IF g = h \/ ~ card.game[g].on THEN Snapshot ELSE saved[g]]
    BY DEF SaveConsole
  <2>2. \A g \in Games : g = h \/ ~ card.game[g].on => User(card', g) = AllLines
    BY <1>4, <1>6, <1>7 DEF User, UserCfg
  <2>3. \A g \in Games : g # h /\ card.game[g].on => User(card', g) = User(card, g)
    BY <1>6 DEF User, UserCfg
  <2> QED
    BY <1>3, <2>1, <2>2, <2>3 DEF OptionsInv, SavedIsThere
<1>9. LoadedOK' /\ LoadedIsCurrent'
  BY <1>1, <1>2, <1>6 DEF LoadedOK, LoadedIsCurrent
<1>10. Restored'
  BY <1>2, <1>3, <1>7 DEF Restored
<1> QED
  BY <1>1, <1>2, <1>6, <1>8, <1>9, <1>10, MemoryKept DEF OptionsInv

\* Saving for the game: only it finds the file.
LEMMA SaveGameKeeps ==
  ASSUME OptionsInv, SaveGame
  PROVE  OptionsInv'
<1> DEFINE h == run.game
<1>1. InMenu /\ h \in Games /\ listed
  BY GoneIsOff DEF SaveGame
<1>2. UNCHANGED <<run, value, lock, listed, fe, bind, default_, changed, seen>> /\ loaded' = "game"
  BY DEF SaveGame
<1>3. LinesOK(AllLines) /\ Agrees(AllLines, card', value, bind) /\ Holds(Snapshot, AllLines)
  BY <1>1, WrittenReadsBack
<1>4. Written.lines = AllLines /\ Written.on
  BY DEF Written
<1>5. card' = WithGame(card, h, Written)
  BY DEF SaveGame, WithGame
<1>6. /\ CardOK(card') /\ card'.game[h] = Written /\ \A g \in Games : g # h => card'.game[g] = card.game[g]
      /\ card'.console = card.console /\ card'.default = card.default /\ card'.system = card.system
  BY <1>1, <1>3, <1>4, <1>5, CardWithGame DEF OptionsInv
<1>7. User(card', h) = AllLines /\ \A g \in Games : g # h => User(card', g) = User(card, g)
  BY <1>1, <1>4, <1>6 DEF User, UserCfg
<1>8. (SavedIsThere(saved, card))'
  <2>1. saved' = [saved EXCEPT ![h] = Snapshot]
    BY DEF SaveGame
  <2> QED
    BY <1>1, <1>3, <1>7, <2>1 DEF OptionsInv, SavedIsThere
<1>9. LoadedOK' /\ LoadedIsCurrent'
  BY <1>2 DEF LoadedOK, LoadedIsCurrent
<1>10. Restored'
  <2>1. run.phase = "restored" => Agrees(card'.console.lines, card', value, bind)
    BY <1>6 DEF OptionsInv, Restored, Agrees, Says, Binds
  <2> QED
    BY <1>2, <1>3, <1>7, <2>1 DEF Restored
<1> QED
  BY <1>1, <1>2, <1>6, <1>8, <1>9, <1>10, MemoryKept DEF OptionsInv

\* A save that could not open its file: the game's own may be gone.
LEMMA SaveFailsKeeps ==
  ASSUME OptionsInv, SaveFails
  PROVE  OptionsInv'
<1> DEFINE h == run.game
<1>1. InMenu /\ h \in Games /\ listed /\ LinesOK(Gone.lines) /\ ~ Gone.on
  BY GoneIsOff DEF SaveFails
<1>2. UNCHANGED <<run, value, lock, listed, fe, bind, default_, changed, seen>> /\ saved' = [saved EXCEPT ![h] = Nothing]
  BY DEF SaveFails
<1>3. CASE card' = [card EXCEPT !.game[h] = IF loaded = "game" THEN Absent ELSE @] /\ loaded' = "console"
  <2>1. card' = WithGame(card, h, Gone)
    BY <1>3 DEF Gone, WithGame
  <2>2. /\ CardOK(card') /\ card'.game[h] = Gone /\ \A g \in Games : g # h => card'.game[g] = card.game[g]
        /\ card'.console = card.console /\ card'.default = card.default /\ card'.system = card.system
    BY <1>1, <2>1, CardWithGame DEF OptionsInv
  <2>3. User(card', h) = card.console.lines /\ \A g \in Games : g # h => User(card', g) = User(card, g)
    BY <1>1, <2>2 DEF User, UserCfg
  <2>4. (SavedIsThere(saved, card))'
    BY <1>1, <1>2, <2>3 DEF OptionsInv, SavedIsThere
  <2>5. LoadedOK' /\ LoadedIsCurrent'
    BY <1>1, <1>2, <1>3, <2>2 DEF LoadedOK, LoadedIsCurrent
  <2>6. Restored'
    <3>1. run.phase = "restored" => Agrees(card.console.lines, card', value, bind)
      BY <2>2 DEF OptionsInv, Restored, Agrees, Says, Binds
    <3> QED
      BY <1>2, <2>2, <2>3, <3>1 DEF Restored
  <2> QED
    BY <1>1, <1>2, <2>2, <2>4, <2>5, <2>6, MemoryKept DEF OptionsInv
<1>4. CASE card' = card /\ loaded' = "game"
  <2>1. (SavedIsThere(saved, card))'
    BY <1>1, <1>2, <1>4 DEF OptionsInv, SavedIsThere
  <2>2. (CardOK(card))' /\ LoadedOK' /\ LoadedIsCurrent' /\ Restored'
    BY <1>2, <1>4 DEF OptionsInv, LoadedOK, LoadedIsCurrent, Restored
  <2> QED
    BY <1>1, <1>2, <1>4, <2>1, <2>2, MemoryKept DEF OptionsInv
<1> QED
  BY <1>3, <1>4 DEF SaveFails

\* A save the power cut: nobody is promised what was in it, and the games whose
\* own files hide the console's lose nothing.
LEMMA SaveCutKeeps ==
  ASSUME OptionsInv, SaveCut
  PROVE  OptionsInv'
<1> DEFINE h == run.game
<1>1. InMenu /\ h \in Games /\ listed /\ Off
  BY GoneIsOff DEF SaveCut
<1>2. CardOK(card') /\ SavedIsThere(saved', card')
  <2>1. ASSUME NEW c \in Torn \cup {card.console}, NEW g \in {card.game[h], Absent},
               card' = WithBoth(card, h, g, c),
               saved' = [j \in Games |-> IF j # h /\ card.game[j].on THEN saved[j] ELSE Nothing]
        PROVE  CardOK(card') /\ SavedIsThere(saved', card')
    <3>1. LinesOK(c.lines) /\ LinesOK(g.lines)
      BY <1>1, AbsentIsFile, TornIsFile DEF OptionsInv, CardOK
    <3>2. CardOK(card') /\ \A j \in Games : j # h => card'.game[j] = card.game[j]
      <4>1. CardOK(card) /\ h \in Games
        BY <1>1 DEF OptionsInv
      <4> HIDE DEF h
      <4>2. CardOK(WithBoth(card, h, g, c))
            /\ \A j \in Games : j # h => WithBoth(card, h, g, c).game[j] = card.game[j]
        BY <3>1, <4>1, CardWithBoth
      <4> QED
        BY <2>1, <4>2
    <3>3. \A j \in Games : j # h /\ card.game[j].on => User(card', j) = User(card, j)
      BY <3>2 DEF User, UserCfg
    <3> QED
      BY <2>1, <3>2, <3>3 DEF OptionsInv, SavedIsThere
  <2>2. ASSUME NEW c \in Torn, card' = WithGame(card, h, c), saved' = [saved EXCEPT ![h] = Nothing]
        PROVE  CardOK(card') /\ SavedIsThere(saved', card')
    <3>1. LinesOK(c.lines)
      BY <1>1, TornIsFile
    <3>2. CardOK(card') /\ card'.console = card.console /\ \A j \in Games : j # h => card'.game[j] = card.game[j]
      BY <1>1, <2>2, <3>1, CardWithGame DEF OptionsInv
    <3>3. \A j \in Games : j # h => User(card', j) = User(card, j)
      BY <3>2 DEF User, UserCfg
    <3> QED
      BY <1>1, <2>2, <3>2, <3>3 DEF OptionsInv, SavedIsThere
  <2> QED
    BY <2>1, <2>2 DEF SaveCut, WithGame, WithBoth
<1> QED
  BY <1>1, <1>2, OffIsClean DEF OptionsInv

\* "Restore defaults": the loaded file is gone, and what is left is read over the
\* built-in values and the controls' defaults.
LEMMA RestoreKeeps ==
  ASSUME OptionsInv, Restore
  PROVE  OptionsInv'
<1> DEFINE h == run.game
           d == IF loaded = "console" THEN Absent ELSE card.console
           r == ReadOptions(Removed, h, ResetValues, ResetFe)
           u == User(Removed, h)
<1>1. InMenu /\ h \in Games /\ listed /\ LinesOK(Gone.lines) /\ ~ Gone.on /\ Live = Keys
  BY GoneIsOff DEF Restore, Live
<1>2. /\ run'.phase = "restored" /\ run'.game = h /\ RunOK(run')
      /\ UNCHANGED <<listed, default_, seen>> /\ card' = Removed /\ changed' = TRUE
  BY <1>1 DEF OptionsInv, RunOK, Restore
<1>3. LinesOK(d.lines)
  BY AbsentIsFile DEF OptionsInv, CardOK
<1>4. Removed = WithBoth(card, h, Gone, d)
  <2>1. card = [system |-> card.system, default |-> card.default, console |-> card.console, game |-> card.game]
    BY DEF OptionsInv, CardOK
  <2> QED
    BY <1>1, <2>1 DEF Removed, WithBoth, Gone
<1> HIDE DEF d
<1>5. /\ CardOK(Removed) /\ Removed.game[h] = Gone /\ \A g \in Games : g # h => Removed.game[g] = card.game[g]
      /\ Removed.console = d /\ Removed.default = card.default /\ Removed.system = card.system
  <2>1. CardOK(card)
    BY DEF OptionsInv
  <2> HIDE DEF h
  <2> QED
    BY <1>1, <1>3, <1>4, <2>1, CardWithBoth, SMTT(30)
<1>6. u = Removed.console.lines
  BY <1>1, <1>5 DEF User, UserCfg
<1>7. ValueOK(ResetValues) /\ \A k \in Keys : ResetValues[k] = DefaultValue(k)
  BY <1>1 DEF ResetValues, ValueOK, DefaultValue, Count
<1>8. FeOK(ResetFe, ResetValues["scaling"], ResetValues["sharpness"])
  <2>1. ResetValues["scaling"] = DefaultValue("scaling") /\ ResetValues["sharpness"] = DefaultValue("sharpness")
    BY <1>7 DEF Keys, Frontend
  <2> QED
    BY <2>1, SyncSharp DEF OptionsInv, Sharp, ResetFe
<1>9. ValueOK(r.value) /\ FeOK(r.fe, r.value["scaling"], r.value["sharpness"])
  BY <1>1, <1>5, <1>7, <1>8, ReadIsSound
<1>10. \A k \in Keys : r.value[k] = Says(u, Removed, k)
  BY <1>1, <1>7, ReadIsSays DEF Told, Says
<1>11. value' = r.value /\ fe' = r.fe /\ bind' = Reads(Removed, h, ResetBinds)
  BY DEF Restore, Set, ReadControls, Reads, User
<1> HIDE DEF r
<1>12. \A n \in Names : Bound(u, Removed, n) \/ ResetBinds[n] = Base(n)
  <2> SUFFICES ASSUME NEW n \in Names, ~ Bound(u, Removed, n) PROVE ResetBinds[n] = Base(n)
    OBVIOUS
  <2>1. CASE n \in Controls
    <3>1. default_[n] = [local |-> 0, mod |-> FALSE]
      BY <1>1, <1>5, <2>1 DEF OptionsInv, DefaultsKept, Begun, InMenu, Bound, Base
    <3>2. ResetBinds[n] = [default_[n] EXCEPT !.mod = FALSE]
      BY <2>1 DEF ResetBinds
    <3>3. ASSUME NEW i, NEW x, NEW m, m = [local |-> i, mod |-> x], NEW y, y = [m EXCEPT !.mod = x]
          PROVE  y = [local |-> i, mod |-> x]
      BY <3>3
    <3> QED
      BY <2>1, <3>1, <3>2, <3>3 DEF Base
  <2>2. CASE n \notin Controls
    BY <2>2 DEF ResetBinds, Base
  <2> QED
    BY <2>1, <2>2
<1>13. \A n \in Names : bind'[n] = Binds(u, Removed, n)
  BY <1>11, <1>12, ReadsBinds DEF Bound, Binds
<1>14. (BindOK(bind))'
  <2>1. \A n \in Names : Bound(u, Removed, n) \/ ResetBinds[n] \in Bindings
    BY <1>12, BaseIsBinding
  <2> QED
    BY <1>1, <1>5, <1>11, <2>1, ReadsIsSound
<1>15. (CardOK(card))' /\ (ValueOK(value))' /\ Sharp' /\ ChangedOK'
  BY <1>2, <1>5, <1>9, <1>11 DEF Sharp, ChangedOK
<1>16. LoadedOK' /\ LoadedIsCurrent'
  BY <1>1, <1>2, <1>5 DEF Restore, Loaded, LoadedOK, LoadedIsCurrent
<1>17. Restored'
  BY <1>2, <1>6, <1>10, <1>11, <1>13 DEF Restored, Agrees
<1>18. DefaultsKept' /\ Listed' /\ Sees'
  BY <1>1, <1>2, <1>5 DEF OptionsInv, DefaultsKept, Begun, InMenu, Listed, Sees, CoreSees
<1>19. Unread' /\ Between' /\ Ready'
  BY <1>2 DEF Unread, Between, Ready
<1>20. (SavedIsThere(saved, card))'
  <2>1. saved' = [g \in Games |-> IF g = h \/ (loaded = "console" /\ ~ card.game[g].on) THEN Nothing ELSE saved[g]]
    BY DEF Restore, Kept
  <2>2. \A g \in Games : g # h /\ ~ (loaded = "console" /\ ~ card.game[g].on) => User(Removed, g) = User(card, g)
    BY <1>5 DEF User, UserCfg, d
  <2> QED
    BY <1>2, <2>1, <2>2 DEF OptionsInv, SavedIsThere
<1> QED
  BY <1>2, <1>14, <1>15, <1>16, <1>17, <1>18, <1>19, <1>20 DEF OptionsInv

-----------------------------------------------------------------------------
(* The theorems.                                                           *)

LEMMA InitIsSound == Init => OptionsInv
<1> SUFFICES ASSUME Init PROVE OptionsInv
  OBVIOUS
<1>1. run.phase = "off" /\ RunOK(run)
  BY DEF Init, RunOK
<1>2. CardOK(card)
  <2>1. card \in [system : Systems, default : Defaults, console : {Absent}, game : {[g \in Games |-> Absent]}]
    BY DEF Init
  <2>2. LinesOK(card.system.lines) /\ LinesOK(card.default.lines)
    BY <2>1, FilesAssumption DEF LinesOK, Labels
  <2> QED
    BY <2>1, <2>2, AbsentIsFile DEF CardOK
<1>3. ValueOK(value) /\ Sharp /\ Unread
  BY DEF Init, Memory, ValueOK, Sharp, FeOK, Unread, DefaultValue, Count, Keys, Frontend, SCALE_NATIVE
<1>4. BindOK(bind)
  BY DEF Init, Memory, BindOK, Bindings
<1>5. LoadedOK /\ ChangedOK /\ SavedIsThere(saved, card)
  BY DEF Init, LoadedOK, ChangedOK, SavedIsThere
<1>6. Between /\ DefaultsKept /\ LoadedIsCurrent /\ Listed /\ Sees /\ Ready /\ Restored
  BY <1>1 DEF Between, DefaultsKept, LoadedIsCurrent, Begun, Listed, Sees, CoreSees, Ready, Restored
<1> QED
  BY <1>1, <1>2, <1>3, <1>4, <1>5, <1>6 DEF OptionsInv

LEMMA StutterKeeps == OptionsInv /\ UNCHANGED vars => OptionsInv'
<1> SUFFICES ASSUME OptionsInv, UNCHANGED vars PROVE OptionsInv'
  OBVIOUS
<1>1. /\ (CardOK(card))' /\ (RunOK(run))' /\ (ValueOK(value))' /\ (BindOK(bind))' /\ (SavedIsThere(saved, card))'
      /\ LoadedOK' /\ ChangedOK' /\ Sharp'
  BY DEF OptionsInv, vars, LoadedOK, ChangedOK, Sharp
<1>2. Unread' /\ Between' /\ DefaultsKept' /\ LoadedIsCurrent' /\ Listed'
  BY DEF OptionsInv, vars, Unread, Between, DefaultsKept, LoadedIsCurrent, Listed
<1>3. Sees' /\ Ready' /\ Restored'
  BY DEF OptionsInv, vars, Sees, CoreSees, Ready, Restored
<1> QED
  BY <1>1, <1>2, <1>3 DEF OptionsInv

LEMMA StepKeeps == OptionsInv /\ [Next]_vars => OptionsInv'
<1> SUFFICES ASSUME OptionsInv, [Next]_vars PROVE OptionsInv'
  OBVIOUS
<1>1. ASSUME NEW g \in Games, Launch(g) PROVE OptionsInv'
  BY <1>1, LaunchKeeps
<1>2. CASE Report \/ EarlyRead \/ CoreRead \/ LateRead
  BY <1>2, ReportKeeps, EarlyReadKeeps, CoreReadKeeps, LateReadKeeps
<1>3. CASE CoreRun \/ CycleScale \/ OpenMenu \/ CloseMenu
  BY <1>3, CoreRunKeeps, CycleScaleKeeps, OpenMenuKeeps, CloseMenuKeeps
<1>4. ASSUME NEW k \in CoreKeys, CoreSet(k) PROVE OptionsInv'
  BY <1>4, CoreSetKeeps
<1>5. ASSUME NEW k \in Keys, MenuChange(k) PROVE OptionsInv'
  BY <1>5, MenuChangeKeeps
<1>6. ASSUME NEW n \in Names, MenuBind(n) PROVE OptionsInv'
  BY <1>6, MenuBindKeeps
<1>7. CASE SaveConsole \/ SaveGame \/ SaveCut \/ SaveFails
  BY <1>7, SaveConsoleKeeps, SaveGameKeeps, SaveCutKeeps, SaveFailsKeeps
<1>8. CASE Restore \/ Quit \/ Update
  BY <1>8, RestoreKeeps, QuitKeeps, UpdateKeeps
<1>9. CASE UNCHANGED vars
  BY <1>9, StutterKeeps
<1> QED
  BY <1>1, <1>2, <1>3, <1>4, <1>5, <1>6, <1>7, <1>8, <1>9 DEF Next

\* The invariant holds in every state of every behaviour.
THEOREM OptionsCorrect == Spec => []OptionsInv
BY InitIsSound, StepKeeps, PTL DEF Spec

\* A launch gives every option and every button what the files say in the order
\* user, pak, system, built-in, however early the core reports its options; and
\* Config_restore in a running game gives what a new launch would.
THEOREM FilesTakeEffect == Spec => []Effective
<1>1. OptionsInv => Effective
  <2> SUFFICES ASSUME OptionsInv, run.phase \in {"ready", "restored"} PROVE Effective
    BY DEF Effective
  <2>1. Agrees(User(card, run.game), card, value, bind)
    BY DEF OptionsInv, Ready, Restored
  <2>2. \A k \in Live : value[k] = Expected(k)
    BY <2>1 DEF Agrees, Says, Expected, User, Live, Keys
  <2>3. \A n \in Names : bind[n] = ExpectedBind(n)
    BY <2>1 DEF Agrees, Binds, ExpectedBind, User, Base
  <2> QED
    BY <2>2, <2>3 DEF Effective
<1> QED
  BY <1>1, OptionsCorrect, PTL

\* What a player saved with Config_write, for the game or for its console, is what
\* the game's next launch finds, whatever was saved, cut, restored or updated since
\* for others.
THEOREM SavesReturn == Spec => []SavedReturns
<1>1. OptionsInv => SavedReturns
  <2> DEFINE g == run.game
             u == User(card, g)
  <2> SUFFICES ASSUME OptionsInv, run.phase = "ready", saved[g] # Nothing
               PROVE  saved[g] = [v |-> [k \in Live |-> value[k]], b |-> bind]
    BY DEF SavedReturns
  <2>1. g \in Games /\ Live = Keys
    BY DEF OptionsInv, RunOK, Listed, Live
  <2>2. Holds(saved[g], u)
    BY <2>1 DEF OptionsInv, SavedIsThere
  <2>3. Agrees(u, card, value, bind)
    BY DEF OptionsInv, Ready
  <2>4. \A k \in Keys : value[k] = ValueIndex(k, u[k])
    BY <2>2, <2>3 DEF Holds, Agrees, Says
  <2>5. \A n \in Names : bind[n] = Mapping(u[n])
    BY <2>2, <2>3 DEF Holds, Agrees, Binds
  <2>6. bind = [n \in Names |-> Mapping(u[n])]
    BY <2>5 DEF OptionsInv, BindOK
  <2>7. [k \in Live |-> value[k]] = [k \in Keys |-> ValueIndex(k, u[k])]
    BY <2>1, <2>4
  <2> QED
    BY <2>2, <2>6, <2>7 DEF Holds
<1> QED
  BY <1>1, OptionsCorrect, PTL

\* What the menu shows is in force: every value is one its option has, the
\* sharpness in effect is that of the two options (Config_syncFrontend), and the
\* core has read the values or is about to be told (OptionList_setOptionValue).
THEOREM ShownIsInForce == Spec => []InForce
<1>1. OptionsInv => InForce
  <2> SUFFICES ASSUME OptionsInv PROVE InForce
    OBVIOUS
  <2>1. \A n \in Names : bind[n].local \in -1 .. LOCAL_BUTTON_COUNT - 1 /\ (bind[n].mod => bind[n] # Unbound)
    <3> SUFFICES ASSUME NEW m \in Bindings
                 PROVE  m.local \in -1 .. LOCAL_BUTTON_COUNT - 1 /\ (m.mod => m # Unbound)
      BY DEF OptionsInv, BindOK
    <3> QED
      BY DEF Bindings, Unbound, BTN_ID_NONE, LOCAL_BUTTON_COUNT
  <2>2. TypeOK
    BY <2>1 DEF OptionsInv, ValueOK, LoadedOK, ChangedOK, TypeOK
  <2>3. SharpnessFollows
    BY DEF OptionsInv, Sharp, FeOK, SharpnessFollows
  <2> QED
    BY <2>2, <2>3 DEF OptionsInv, Sees, InForce
<1> QED
  BY <1>1, OptionsCorrect, PTL
=============================================================================
