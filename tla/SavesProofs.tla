----------------------------- MODULE SavesProofs -----------------------------
(***************************************************************************)
(* Proofs about the saves, for every number of slots and discs, every kind *)
(* of core, and any number of failing file operations and power cuts.      *)
(*                                                                         *)
(* Between a rename and the sync after it, the card and what the programs  *)
(* see differ in the one file being saved, and nowhere else (Unsynced);    *)
(* that is what a power cut anywhere can cost.  The slot file is the other *)
(* half: its note is in the plan only behind the write of the state that   *)
(* it names, or when that state is on the card already (SlotOK).           *)
(***************************************************************************)
EXTENDS Saves, SequenceTheorems, TLAPS

(* A note names a slot of the menu or a disc of the game, if it is whole. *)
NoteOK(f, c) ==
    /\ f \in Noted
    /\ Whole(c) => IF f = SlotTxt THEN c[1] \in Slots ELSE c[1] \in Discs

JobOK(j) ==
    /\ j \in Jobs
    /\ j.do = "write" => j.file \in Written
    /\ j.do = "put" => /\ NoteOK(j.file, j.val)
                       /\ j.file = SlotTxt => j.val[1] \in Slots
    /\ j.do = "unlink" => j.file = AutoResume
    /\ j.do = "launch" => /\ j.val[1] \in Slots \cup {DEFAULT_SLOT, AUTO_RESUME_SLOT}
                          /\ j.val[2] \in Discs \cup {None}

JobsOK(p) == /\ p \in Seq(Jobs)
             /\ \A i \in 1 .. Len(p) : JobOK(p[i])

CardOK(c) ==
    /\ c \in [Files -> Int \X Int]
    /\ \A f \in Noted : NoteOK(f, c[f])
    /\ \A f \in Written : Whole(c[f]) => c[f][1] \in 0 .. MaxPlay

Syncing == Doing("write") /\ phase = "sync"

Unsynced == \A f \in Written : disk[f] # cache[f] => f \in AtRisk

SpoiltInv ==
    /\ \A f \in Written : cache[f] = Torn => f \in spoilt
    /\ \A f \in Written : disk[f] = Torn => f \in spoilt \cup AtRisk
    /\ phase # "sync" => good

(* A state that is on the card is not taken away again. *)
StatesStay ==
    /\ \A f \in Written : disk[f] # Absent => cache[f] # Absent
    /\ Syncing /\ good => cache[Target] # Absent

NamedState(c, d) == Whole(c[SlotTxt]) => d[St(c[SlotTxt][1])] # Absent

MenuWrite(j) == j.do = "write" /\ Forgets(j.file)
SlotNote(j) == j.do = "put" /\ j.file = SlotTxt

SlotOK(p, d) ==
    \A i \in 1 .. Len(p) :
        /\ MenuWrite(p[i]) => i = 1
        /\ SlotNote(p[i]) =>
              \/ d[St(p[i].val[1])] # Absent
              \/ i = 3 /\ p[1].do = "write" /\ p[1].file = St(p[i].val[1])

CardInv ==
    /\ JobsOK(plan) /\ CardOK(cache) /\ CardOK(disk)
    /\ Unsynced /\ SpoiltInv /\ StatesStay
    /\ NamedState(cache, disk) /\ NamedState(disk, disk) /\ SlotOK(plan, disk)

SavesInv == TypeOK /\ CardInv

-----------------------------------------------------------------------------
(* The files are different from each other. *)
LEMMA FileFacts ==
    /\ Sav \in Written /\ Rtc \in Written /\ St(AUTO_RESUME_SLOT) \in Written
    /\ SlotTxt \in Noted /\ AutoResume \in Noted /\ AutoResume # SlotTxt
    /\ \A s \in Slots : St(s) \in Written /\ DiscTxt(s) \in Noted /\ DiscTxt(s) # SlotTxt
    /\ \A f \in Written : f \notin Noted
    /\ Written \subseteq Files /\ Noted \subseteq Files
<1>1. \A f \in Written : f[1] \in {"sav", "rtc", "st"}
  BY DEF Written, Sav, Rtc, St
<1>2. \A f \in Noted : f[1] \in {"slot", "auto", "disc"}
  BY DEF Noted, SlotTxt, AutoResume, DiscTxt
<1>3. AutoResume # SlotTxt /\ \A s \in Slots : DiscTxt(s) # SlotTxt
  BY DEF SlotTxt, AutoResume, DiscTxt
<1>4. \A f \in Written : f \notin Noted
  BY <1>1, <1>2
<1> QED BY <1>3, <1>4 DEF Written, Noted, Files

LEMMA ForgetFacts ==
    /\ ~Forgets(Sav) /\ ~Forgets(Rtc) /\ ~Forgets(St(AUTO_RESUME_SLOT))
    /\ \A f : Forgets(f) => f[1] = "st"
    /\ \A s \in Slots : Forgets(St(s)) /\ St(s)[1] = "st"
BY SavesAssumption DEF SavesAssumption, Forgets, Sav, Rtc, St, AUTO_RESUME_SLOT

(* Contents are never taken for a file that is not there. *)
LEMMA ContentFacts ==
    /\ ~Whole(Absent) /\ ~Whole(Torn) /\ Torn # Absent
    /\ Absent \in Int \X Int /\ Torn \in Int \X Int
    /\ \A n \in Int : <<n, 0>> \in Int \X Int /\ <<n, 0>>[1] = n /\ <<n, 0>> # Absent
BY DEF Whole, Absent, Torn

-----------------------------------------------------------------------------
(* Plans: the steps of a handler, and what is left of them. *)
LEMMA JobFacts ==
    /\ \A f \in Written : /\ JobOK(Write(f)) /\ Write(f).do = "write"
                          /\ Write(f).file = f
    /\ \A f \in Noted, n \in Int :
          /\ putFile(f, n).do = "put" /\ putFile(f, n).file = f
          /\ putFile(f, n).val = <<n, 0>>
          /\ (IF f = SlotTxt THEN n \in Slots ELSE n \in Discs \cup {None})
                => JobOK(putFile(f, n))
    /\ JobOK(unlink(AutoResume)) /\ unlink(AutoResume).do = "unlink"
    /\ JobOK(sync) /\ sync.do = "sync"
    /\ \A how \in {"minui", "nap", "poweroff"} :
          JobOK(Leave(how, 0, 0)) /\ Leave(how, 0, 0).do = how
    /\ \A s \in Slots \cup {DEFAULT_SLOT, AUTO_RESUME_SLOT}, d \in Discs \cup {None} :
          JobOK(Leave("launch", s, d)) /\ Leave("launch", s, d).do = "launch"
<1> USE FileFacts, ContentFacts, SavesAssumption DEF SavesAssumption, JobOK, Jobs, Files
<1>1. \A f \in Written : /\ JobOK(Write(f)) /\ Write(f).do = "write"
                         /\ Write(f).file = f
  BY DEF Write
<1>2. ASSUME NEW f \in Noted, NEW n \in Int
      PROVE  /\ putFile(f, n).do = "put" /\ putFile(f, n).file = f
             /\ putFile(f, n).val = <<n, 0>>
             /\ (IF f = SlotTxt THEN n \in Slots ELSE n \in Discs \cup {None})
                   => JobOK(putFile(f, n))
  BY DEF putFile, NoteOK, Whole, None
<1>3. /\ JobOK(unlink(AutoResume)) /\ unlink(AutoResume).do = "unlink"
      /\ JobOK(sync) /\ sync.do = "sync"
  BY DEF unlink, sync
<1>4. \A how \in {"minui", "nap", "poweroff"} :
         JobOK(Leave(how, 0, 0)) /\ Leave(how, 0, 0).do = how
  BY DEF Leave
<1>5. \A s \in Slots \cup {DEFAULT_SLOT, AUTO_RESUME_SLOT}, d \in Discs \cup {None} :
         JobOK(Leave("launch", s, d)) /\ Leave("launch", s, d).do = "launch"
  BY DEF Leave, DEFAULT_SLOT, AUTO_RESUME_SLOT, None
<1> QED BY <1>1, <1>2, <1>3, <1>4, <1>5

(* A plan that touches no slot of the menu. *)
Plain(p) == \A i \in 1 .. Len(p) : ~MenuWrite(p[i]) /\ ~SlotNote(p[i])

LEMMA PlainFacts ==
    /\ \A f \in {Sav, Rtc, St(AUTO_RESUME_SLOT)} :
          ~MenuWrite(Write(f)) /\ ~SlotNote(Write(f))
    /\ \A n \in Int : /\ ~MenuWrite(putFile(AutoResume, n))
                      /\ ~SlotNote(putFile(AutoResume, n))
    /\ \A j : j.do \notin {"write", "put"} => ~MenuWrite(j) /\ ~SlotNote(j)
BY FileFacts, ForgetFacts, JobFacts DEF MenuWrite, SlotNote

LEMMA Jobs0 == JobsOK(<<>>) /\ Plain(<<>>) /\ \A d : SlotOK(<<>>, d)
BY EmptySeq DEF JobsOK, Plain, SlotOK

LEMMA Jobs1 ==
    ASSUME NEW a, JobOK(a)
    PROVE  JobsOK(<<a>>) /\ (~MenuWrite(a) /\ ~SlotNote(a) => Plain(<<a>>))
BY DEF JobsOK, JobOK, Plain

LEMMA Jobs2 ==
    ASSUME NEW a, NEW b, JobOK(a), JobOK(b)
    PROVE  /\ JobsOK(<<a, b>>)
           /\ ~MenuWrite(a) /\ ~SlotNote(a) /\ ~MenuWrite(b) /\ ~SlotNote(b)
                => Plain(<<a, b>>)
BY DEF JobsOK, JobOK, Plain

LEMMA Jobs3 ==
    ASSUME NEW a, NEW b, NEW c, JobOK(a), JobOK(b), JobOK(c)
    PROVE  /\ JobsOK(<<a, b, c>>)
           /\ ~MenuWrite(a) /\ ~SlotNote(a) /\ ~MenuWrite(b) /\ ~SlotNote(b)
              /\ ~MenuWrite(c) /\ ~SlotNote(c) => Plain(<<a, b, c>>)
BY DEF JobsOK, JobOK, Plain

LEMMA JobsConcat ==
    ASSUME NEW p, NEW q, JobsOK(p), JobsOK(q)
    PROVE  /\ JobsOK(p \o q)
           /\ Plain(p) /\ Plain(q) => Plain(p \o q)
           /\ \A d : SlotOK(p, d) /\ Plain(q) => SlotOK(p \o q, d)
<1>0. p \in Seq(Jobs) /\ q \in Seq(Jobs) /\ Len(p) \in Nat /\ Len(q) \in Nat
  BY DEF JobsOK
<1>1. /\ p \o q \in Seq(Jobs) /\ Len(p \o q) = Len(p) + Len(q)
      /\ \A i \in 1 .. Len(p) + Len(q) :
            (p \o q)[i] = IF i <= Len(p) THEN p[i] ELSE q[i - Len(p)]
  BY <1>0, ConcatProperties
<1>2. \A i \in 1 .. Len(p \o q) : \/ i \in 1 .. Len(p) /\ (p \o q)[i] = p[i]
                                  \/ \E k \in 1 .. Len(q) : (p \o q)[i] = q[k]
  <2> SUFFICES ASSUME NEW i \in 1 .. Len(p \o q)
               PROVE  \/ i \in 1 .. Len(p) /\ (p \o q)[i] = p[i]
                      \/ \E k \in 1 .. Len(q) : (p \o q)[i] = q[k]
    OBVIOUS
  <2>1. CASE i <= Len(p)
    BY <1>0, <1>1, <2>1
  <2>2. CASE i > Len(p)
    <3>1. i - Len(p) \in 1 .. Len(q) /\ (p \o q)[i] = q[i - Len(p)]
      BY <1>0, <1>1, <2>2
    <3> QED BY <3>1
  <2> QED BY <1>0, <1>1, <2>1, <2>2
<1>3. JobsOK(p \o q)
  BY <1>1, <1>2 DEF JobsOK
<1>4. Plain(p) /\ Plain(q) => Plain(p \o q)
  BY <1>2 DEF Plain
<1>5. ASSUME NEW d, SlotOK(p, d), Plain(q) PROVE SlotOK(p \o q, d)
  <2>1. 1 <= Len(p) => (p \o q)[1] = p[1]
    BY <1>0, <1>1
  <2> QED BY <1>0, <1>2, <1>5, <2>1 DEF SlotOK, Plain
<1> QED BY <1>3, <1>4, <1>5

LEMMA PlainSlot ==
    ASSUME NEW p, Plain(p), NEW d
    PROVE  SlotOK(p, d)
BY DEF Plain, SlotOK

LEMMA PlanParts ==
    ASSUME JobsOK(plan), plan # <<>>
    PROVE  /\ Head(plan) = plan[1] /\ JobOK(plan[1])
           /\ JobsOK(Tail(plan)) /\ JobsOK(SubSeq(plan, 4, Len(plan)))
           /\ \A d : SlotOK(plan, d) =>
                 /\ SlotOK(SubSeq(plan, 4, Len(plan)), d)
                 /\ (MenuWrite(plan[1]) => d[plan[1].file] # Absent)
                       => SlotOK(Tail(plan), d)
<1> DEFINE rest == SubSeq(plan, 4, Len(plan))
<1>0. plan \in Seq(Jobs) /\ Len(plan) \in Nat /\ Len(plan) >= 1
  BY EmptySeq DEF JobsOK
<1>1. Head(plan) = plan[1] /\ JobOK(plan[1])
  BY <1>0 DEF JobsOK
<1>2. /\ Tail(plan) \in Seq(Jobs) /\ Len(Tail(plan)) = Len(plan) - 1
      /\ \A i \in 1 .. Len(Tail(plan)) : Tail(plan)[i] = plan[i + 1]
  BY <1>0, HeadTailProperties
<1>3. /\ rest \in Seq(Jobs)
      /\ Len(rest) = IF 4 <= Len(plan) THEN Len(plan) - 3 ELSE 0
      /\ \A i \in 1 .. Len(plan) - 3 : rest[i] = plan[i + 3]
  <2>1. \A i \in 4 .. Len(plan) : plan[i] \in Jobs
    BY <1>0, ElementOfSeq
  <2>2. /\ rest \in Seq(Jobs)
        /\ Len(rest) = IF 4 <= Len(plan) THEN Len(plan) - 4 + 1 ELSE 0
        /\ \A i \in 1 .. Len(plan) - 4 + 1 : rest[i] = plan[4 + i - 1]
    BY <1>0, <2>1, SubSeqProperties
  <2> QED BY <1>0, <2>2
<1> HIDE DEF rest
<1>4. JobsOK(Tail(plan)) /\ JobsOK(rest)
  <2>1. \A i \in 1 .. Len(Tail(plan)) : i + 1 \in 1 .. Len(plan)
    BY <1>0, <1>2
  <2>2. \A i \in 1 .. Len(rest) : i \in 1 .. Len(plan) - 3 /\ i + 3 \in 1 .. Len(plan)
    BY <1>0, <1>3
  <2>3. JobsOK(Tail(plan))
    BY <1>2, <2>1 DEF JobsOK
  <2>4. JobsOK(rest)
    BY <1>3, <2>2 DEF JobsOK
  <2> QED BY <2>3, <2>4
<1>5. ASSUME NEW d, SlotOK(plan, d) PROVE SlotOK(rest, d)
  BY <1>0, <1>3, <1>5 DEF SlotOK
<1>6. ASSUME NEW d, SlotOK(plan, d), MenuWrite(plan[1]) => d[plan[1].file] # Absent
      PROVE  SlotOK(Tail(plan), d)
  <2> SUFFICES ASSUME NEW i \in 1 .. Len(Tail(plan))
               PROVE  /\ ~MenuWrite(plan[i + 1])
                      /\ SlotNote(plan[i + 1]) => d[St(plan[i + 1].val[1])] # Absent
    BY <1>2 DEF SlotOK
  <2>1. i + 1 \in 1 .. Len(plan) /\ i + 1 # 1 /\ JobOK(plan[i + 1])
    BY <1>0, <1>2 DEF JobsOK
  <2>2. ~MenuWrite(plan[i + 1])
    BY <1>6, <2>1 DEF SlotOK
  <2>3. ASSUME SlotNote(plan[i + 1]) PROVE d[St(plan[i + 1].val[1])] # Absent
    <3>1. plan[i + 1].val[1] \in Slots
      BY <2>1, <2>3 DEF SlotNote, JobOK
    <3>2. CASE plan[1].do = "write" /\ plan[1].file = St(plan[i + 1].val[1])
      BY <1>6, <3>1, <3>2, ForgetFacts DEF MenuWrite
    <3> QED BY <1>6, <2>1, <2>3, <3>2 DEF SlotOK
  <2> QED BY <2>2, <2>3
<1> QED BY <1>1, <1>4, <1>5, <1>6 DEF rest

LEMMA SlotGrows ==
    ASSUME NEW p, JobsOK(p), NEW d, NEW e, SlotOK(p, d),
           \A s \in Slots : d[St(s)] # Absent => e[St(s)] # Absent
    PROVE  SlotOK(p, e)
BY DEF SlotOK, SlotNote, JobsOK, JobOK

(* What Menu_saveState, Menu_beforeSleep and Core_quit plan. *)
LEMMA Handlers ==
    ASSUME TypeOK
    PROVE  /\ JobsOK(Menu_saveState) /\ \A d : SlotOK(Menu_saveState, d)
           /\ JobsOK(Menu_beforeSleep) /\ Plain(Menu_beforeSleep)
           /\ JobsOK(<<Write(Sav), Write(Rtc)>>) /\ Plain(<<Write(Sav), Write(Rtc)>>)
           /\ LET q == <<Write(Sav), Write(Rtc), Leave("minui", 0, 0)>>
              IN  JobsOK(q) /\ Plain(q)
<1>0. /\ menu.slot \in Slots /\ menu.disc \in Discs /\ drive \in Discs \cup {None}
      /\ menu.slot \in Int /\ menu.disc \in Int /\ drive \in Int
  <2>1. menu \in [slot : Slots, disc : Discs, rom : Discs] /\ drive \in Discs \cup {None}
    BY DEF TypeOK
  <2>2. menu.slot \in Slots /\ menu.disc \in Discs
    BY <2>1
  <2>3. Slots \subseteq Int /\ Discs \cup {None} \subseteq Int
    BY SavesAssumption DEF SavesAssumption, None
  <2> QED BY <2>1, <2>2, <2>3
<1>1. JobsOK(Menu_saveState)
  BY <1>0, FileFacts, JobFacts, Jobs3 DEF Menu_saveState
<1>2. \A d : SlotOK(Menu_saveState, d)
  <2> DEFINE a == Write(St(menu.slot))
             b == putFile(DiscTxt(menu.slot), menu.disc)
             c == putFile(SlotTxt, menu.slot)
  <2>1. /\ a.do = "write" /\ a.file = St(menu.slot) /\ b.do = "put" /\ b.file # SlotTxt
        /\ c.do = "put" /\ c.val[1] = menu.slot
    BY <1>0, FileFacts, JobFacts
  <2> HIDE DEF a, b, c
  <2>2. \A d : SlotOK(<<a, b, c>>, d)
    BY <2>1 DEF SlotOK, MenuWrite, SlotNote
  <2> QED BY <2>2 DEF a, b, c, Menu_saveState
<1>3. JobsOK(Menu_beforeSleep) /\ Plain(Menu_beforeSleep)
  <2> DEFINE p == <<Write(Sav), Write(Rtc), Write(St(AUTO_RESUME_SLOT))>>
             m == putFile(AutoResume, drive)
  <2>1. JobsOK(p) /\ Plain(p)
    BY FileFacts, JobFacts, PlainFacts, Jobs3
  <2>2. JobsOK(<<m>>) /\ Plain(<<m>>)
    BY <1>0, FileFacts, JobFacts, PlainFacts, Jobs1
  <2>3. Menu_beforeSleep = p \o <<m>>
    BY DEF Menu_beforeSleep
  <2> HIDE DEF p, m
  <2> QED BY <2>1, <2>2, <2>3, JobsConcat
<1>4. JobsOK(<<Write(Sav), Write(Rtc)>>) /\ Plain(<<Write(Sav), Write(Rtc)>>)
  BY FileFacts, JobFacts, PlainFacts, Jobs2
<1>5. LET q == <<Write(Sav), Write(Rtc), Leave("minui", 0, 0)>>
      IN  JobsOK(q) /\ Plain(q)
  BY FileFacts, JobFacts, PlainFacts, Jobs3
<1> QED BY <1>1, <1>2, <1>3, <1>4, <1>5

-----------------------------------------------------------------------------
(* Most steps leave the card alone, and either the plan too, or they come  *)
(* when nothing waits for a sync.                                          *)
Quiet ==
    /\ UNCHANGED <<cache, disk, spoilt>>
    /\ \/ UNCHANGED <<plan, phase, good, awake>>
       \/ ~Syncing /\ phase' = "start" /\ good' /\ JobsOK(plan') /\ SlotOK(plan', disk)
       \/ /\ phase # "sync" /\ UNCHANGED plan
          /\ (phase' = "sync" => ~good') /\ (phase' # "sync" => UNCHANGED good)

QuietAct ==
    \/ WriteNothing \/ WriteOpen \/ WriteFill
    \/ Boot \/ autoResume \/ openRom \/ openRomResume \/ Launch
    \/ Load \/ LoadFails \/ Play
    \/ MenuOpen \/ MenuTurn \/ MenuBack \/ MenuContinue
    \/ SaveState \/ LoadState \/ Quit \/ QuitDone
    \/ PowerHeld \/ Sleep \/ Nap \/ Wake

(* A handler that starts from idle with a plain plan. *)
LEMMA StartQuiet ==
    ASSUME ~Syncing, NEW p, JobsOK(p), SlotOK(p, disk), Start(p),
           UNCHANGED <<cache, disk, spoilt>>
    PROVE  Quiet
BY DEF Start, Quiet

(* The last step of a handler. *)
LEMMA LeaveQuiet ==
    ASSUME JobsOK(plan), SlotOK(plan, disk), NEW how \in {"launch", "minui", "nap"},
           Doing(how), Next1, UNCHANGED <<cache, disk, spoilt>>
    PROVE  Quiet
<1>1. plan # <<>> /\ Head(plan).do = how /\ ~Syncing
  BY DEF Doing, Syncing
<1>2. ~MenuWrite(plan[1])
  BY <1>1, PlanParts DEF MenuWrite
<1> QED BY <1>1, <1>2, PlanParts DEF Next1, Quiet

(* A write that has come to its end without a sync. *)
LEMMA FailQuiet ==
    ASSUME JobsOK(plan), SlotOK(plan, disk), Doing("write"), phase # "sync",
           AfterWrite(FALSE), UNCHANGED <<cache, disk, spoilt>>
    PROVE  Quiet
<1>1. plan # <<>> /\ Head(plan).do = "write" /\ ~Syncing
  BY DEF Doing, Syncing
<1>2. Head(plan) = plan[1] /\ (MenuWrite(plan[1]) <=> Forgets(Target))
  BY <1>1, PlanParts DEF MenuWrite, Target
<1>3. plan' = IF Forgets(Target) THEN SubSeq(plan, 4, Len(plan)) ELSE Tail(plan)
  BY DEF AfterWrite
<1>4. JobsOK(plan') /\ SlotOK(plan', disk)
  BY <1>1, <1>2, <1>3, PlanParts
<1> QED BY <1>1, <1>4 DEF AfterWrite, Quiet

LEMMA QuietActs ==
    ASSUME SavesInv, QuietAct
    PROVE  Quiet
<1> USE DEF card, step, game, ghost, bounds
<1>0. /\ TypeOK /\ JobsOK(plan) /\ SlotOK(plan, disk) /\ CardOK(cache) /\ Unsynced
  BY DEF SavesInv, CardInv
<1>1. CASE WriteNothing
  BY <1>0, <1>1, FailQuiet DEF WriteNothing
<1>2. CASE WriteOpen
  <2>1. Doing("write") /\ phase = "start" /\ UNCHANGED <<cache, disk, spoilt>>
    BY <1>2 DEF WriteOpen
  <2>2. CASE AfterWrite(FALSE)
    BY <1>0, <2>1, <2>2, FailQuiet
  <2>3. CASE UNCHANGED plan /\ (phase' = "sync" => ~good') /\ (phase' # "sync" => UNCHANGED good)
    BY <2>1, <2>3 DEF Quiet, Syncing
  <2> QED BY <1>2, <2>2, <2>3 DEF WriteOpen
<1>3. CASE WriteFill
  <2>1. Doing("write") /\ phase = "opened" /\ UNCHANGED <<cache, disk, spoilt, plan>>
    BY <1>3 DEF WriteFill
  <2>2. (phase' = "sync" => ~good') /\ (phase' # "sync" => UNCHANGED good)
    BY <1>3 DEF WriteFill
  <2> QED BY <2>1, <2>2 DEF Quiet, Syncing
<1>4. CASE Boot \/ Load \/ LoadFails \/ Play \/ MenuTurn \/ MenuBack \/ MenuContinue
  <2>1. UNCHANGED <<cache, disk, spoilt, plan, phase, good, awake>>
    BY <1>4 DEF Boot, Load, LoadFails, Play, MenuTurn, MenuBack, MenuContinue
  <2> QED BY <2>1 DEF Quiet
<1>5. CASE autoResume
  <2>1. ~Syncing /\ UNCHANGED <<cache, disk, spoilt>>
    BY <1>5 DEF autoResume, InMinui, Idle, Syncing, Doing
  <2> DEFINE p == <<unlink(AutoResume), sync>>
             d == cache[AutoResume][1]
             q == IF Whole(cache[AutoResume])
                  THEN <<Leave("launch", AUTO_RESUME_SLOT, d)>> ELSE <<>>
  <2>2. JobsOK(p) /\ Plain(p)
    BY JobFacts, PlainFacts, Jobs2
  <2>3. JobsOK(q) /\ Plain(q)
    <3>1. CASE ~Whole(cache[AutoResume])
      BY <3>1, Jobs0
    <3>2. CASE Whole(cache[AutoResume])
      <4>1. d \in Discs
        BY <1>0, <3>2, FileFacts DEF CardOK, NoteOK
      <4> QED BY <3>2, <4>1, JobFacts, PlainFacts, Jobs1
    <3> QED BY <3>1, <3>2
  <2>4. Start(p \o q)
    BY <1>5 DEF autoResume
  <2> HIDE DEF p, q
  <2> QED BY <2>1, <2>2, <2>3, <2>4, JobsConcat, PlainSlot, StartQuiet
<1>6. CASE openRom
  <2> DEFINE p == <<Leave("launch", DEFAULT_SLOT, 0)>>
  <2>1. ~Syncing /\ Start(p) /\ UNCHANGED <<cache, disk, spoilt>>
    BY <1>6 DEF openRom, InMinui, Idle, Syncing, Doing
  <2>2. JobsOK(p) /\ Plain(p)
    BY SavesAssumption, JobFacts, PlainFacts, Jobs1 DEF SavesAssumption
  <2> HIDE DEF p
  <2> QED BY <2>1, <2>2, PlainSlot, StartQuiet
<1>7. CASE openRomResume
  <2>1. ~Syncing /\ UNCHANGED <<cache, disk, spoilt>>
    BY <1>7 DEF openRomResume, InMinui, Idle, Syncing, Doing
  <2> DEFINE s == IF Whole(cache[SlotTxt]) THEN cache[SlotTxt][1] ELSE 0
             note == IF Whole(cache[SlotTxt]) THEN cache[DiscTxt(s)] ELSE Absent
             d == CASE note = Absent -> 0 [] Whole(note) -> note[1] [] OTHER -> None
             p == <<Leave("launch", s, d)>>
  <2>2. s \in Slots
    BY <1>0, FileFacts, SavesAssumption DEF SavesAssumption, CardOK, NoteOK
  <2>3. Whole(note) => note[1] \in Discs
    <3> HIDE DEF s
    <3> QED BY <1>0, <2>2, FileFacts, ContentFacts DEF CardOK, NoteOK
  <2>4. d \in Discs \cup {None}
    <3> HIDE DEF note
    <3> QED BY <2>3, ContentFacts, SavesAssumption DEF SavesAssumption
  <2>5. JobsOK(p) /\ Plain(p)
    <3> HIDE DEF s, d
    <3> QED BY <2>2, <2>4, JobFacts, PlainFacts, Jobs1
  <2>6. Start(p)
    BY <1>7 DEF openRomResume
  <2> HIDE DEF p
  <2> QED BY <2>1, <2>5, <2>6, PlainSlot, StartQuiet
<1>8. CASE Launch
  BY <1>0, <1>8, LeaveQuiet DEF Launch
<1>9. CASE QuitDone
  BY <1>0, <1>9, LeaveQuiet DEF QuitDone
<1>10. CASE Nap
  BY <1>0, <1>10, LeaveQuiet DEF Nap
<1>11. CASE MenuOpen
  <2>1. ~Syncing /\ Start(<<Write(Sav), Write(Rtc)>>) /\ UNCHANGED <<cache, disk, spoilt>>
    BY <1>11 DEF MenuOpen, Idle, Syncing, Doing
  <2> QED BY <1>0, <2>1, Handlers, PlainSlot, StartQuiet
<1>12. CASE SaveState
  <2>1. ~Syncing /\ Start(Menu_saveState) /\ UNCHANGED <<cache, disk, spoilt>>
    BY <1>12 DEF SaveState, Idle, Syncing, Doing
  <2> QED BY <1>0, <2>1, Handlers, StartQuiet
<1>13. CASE LoadState
  <2>1. ~Syncing /\ UNCHANGED <<cache, disk, spoilt>>
    BY <1>13 DEF LoadState, Idle, Syncing, Doing
  <2>2. CASE UNCHANGED step
    BY <1>13, <2>1, <2>2 DEF LoadState, Quiet
  <2>3. CASE cache[St(menu.slot)] # Absent /\ Start(<<putFile(SlotTxt, menu.slot)>>)
    <3> DEFINE j == putFile(SlotTxt, menu.slot)
    <3>1. menu.slot \in Slots /\ menu.slot \in Int
      <4>1. menu \in [slot : Slots, disc : Discs, rom : Discs]
        BY <1>0 DEF TypeOK
      <4>2. menu.slot \in Slots
        BY <4>1
      <4>3. Slots \subseteq Int
        BY SavesAssumption DEF SavesAssumption
      <4> QED BY <4>2, <4>3
    <3>2. JobOK(j) /\ j.do = "put" /\ j.val[1] = menu.slot
      BY <3>1, FileFacts, JobFacts
    <3>3. disk[St(menu.slot)] # Absent
      BY <1>0, <2>1, <2>3, <3>1, FileFacts DEF Unsynced, AtRisk, Renamed, Syncing
    <3> HIDE DEF j
    <3>4. SlotOK(<<j>>, disk)
      BY <3>2, <3>3 DEF SlotOK, MenuWrite, SlotNote
    <3>5. Start(<<j>>)
      BY <2>3 DEF j
    <3> QED BY <2>1, <3>2, <3>4, <3>5, Jobs1, StartQuiet
  <2> QED BY <1>13, <2>2, <2>3 DEF LoadState
<1>14. CASE Quit
  <2> DEFINE q == <<Write(Sav), Write(Rtc), Leave("minui", 0, 0)>>
  <2>1. ~Syncing /\ UNCHANGED <<cache, disk, spoilt>>
    BY <1>14 DEF Quit, Idle, Syncing, Doing
  <2>2. JobsOK(q) /\ Plain(q)
    BY <1>0, Handlers
  <2>3. Start(q) \/ Start(Menu_saveState \o q)
    BY <1>14 DEF Quit
  <2> HIDE DEF q
  <2>4. JobsOK(Menu_saveState \o q) /\ SlotOK(Menu_saveState \o q, disk)
    BY <1>0, <2>2, Handlers, JobsConcat
  <2> QED BY <2>1, <2>2, <2>3, <2>4, PlainSlot, StartQuiet
<1>15. CASE PowerHeld
  <2> DEFINE q == <<Leave("poweroff", 0, 0)>>
  <2>1. ~Syncing /\ Start(Menu_beforeSleep \o q) /\ UNCHANGED <<cache, disk, spoilt>>
    BY <1>15 DEF PowerHeld, Idle, Syncing, Doing
  <2>2. JobsOK(q) /\ Plain(q)
    BY JobFacts, PlainFacts, Jobs1
  <2> HIDE DEF q
  <2> QED BY <1>0, <2>1, <2>2, Handlers, JobsConcat, PlainSlot, StartQuiet
<1>16. CASE Sleep
  <2> DEFINE q == <<sync, Leave("nap", 0, 0)>>
  <2>1. ~Syncing /\ Start(Menu_beforeSleep \o q) /\ UNCHANGED <<cache, disk, spoilt>>
    BY <1>16 DEF Sleep, Idle, Syncing, Doing
  <2>2. JobsOK(q) /\ Plain(q)
    BY JobFacts, PlainFacts, Jobs2
  <2> HIDE DEF q
  <2> QED BY <1>0, <2>1, <2>2, Handlers, JobsConcat, PlainSlot, StartQuiet
<1>17. CASE Wake
  <2> DEFINE p == <<sync, unlink(AutoResume)>>
  <2>1. Start(p) /\ UNCHANGED <<cache, disk, spoilt>>
    BY <1>17 DEF Wake
  <2>2. JobsOK(p) /\ Plain(p)
    BY JobFacts, PlainFacts, Jobs2
  <2>3. ~Syncing
    BY <1>17 DEF Wake, Syncing, Doing
  <2> HIDE DEF p
  <2> QED BY <2>1, <2>2, <2>3, PlainSlot, StartQuiet
<1> QED BY <1>1, <1>2, <1>3, <1>4, <1>5, <1>6, <1>7, <1>8, <1>9, <1>10, <1>11, <1>12,
           <1>13, <1>14, <1>15, <1>16, <1>17 DEF QuietAct

-----------------------------------------------------------------------------
(* The steps that change the card. *)
LEMMA ContentsFacts ==
    ASSUME TypeOK
    PROVE  /\ Contents \in Int \X Int /\ Contents # Absent /\ Contents # Torn
           /\ Contents[1] \in 0 .. MaxPlay
<1>1. mem \in 0 .. MaxPlay /\ drive \in Discs \cup {None}
  BY DEF TypeOK
<1>2. mem \in Int /\ mem >= 0 /\ drive \in Int
  BY <1>1, SavesAssumption DEF SavesAssumption, None
<1>3. CASE Target[1] = "st"
  BY <1>1, <1>2, <1>3 DEF Contents, Absent, Torn
<1>4. CASE Target[1] # "st"
  BY <1>1, <1>2, <1>4 DEF Contents, Absent, Torn
<1> QED BY <1>3, <1>4

LEMMA NamedGrows ==
    ASSUME NEW c, CardOK(c), NEW d, NEW e, NamedState(c, d),
           \A f \in Written : d[f] # Absent => e[f] # Absent
    PROVE  NamedState(c, e)
<1>1. ASSUME Whole(c[SlotTxt]) PROVE e[St(c[SlotTxt][1])] # Absent
  <2>1. c[SlotTxt][1] \in Slots
    BY <1>1, FileFacts DEF CardOK, NoteOK
  <2> QED BY <1>1, <2>1, FileFacts DEF NamedState
<1> QED BY <1>1 DEF NamedState

(* What the next plan is after a step of a plan. *)
LEMMA HeadFacts ==
    ASSUME JobsOK(plan), plan # <<>>
    PROVE  /\ Head(plan) = plan[1] /\ JobOK(Head(plan))
           /\ Head(plan).do = "write" => Target \in Written
           /\ Head(plan).do = "put" => Target \in Noted
BY PlanParts DEF Target, JobOK, NoteOK

LEMMA QuietCard ==
    ASSUME CardInv, Quiet
    PROVE  CardInv'
<1> USE DEF CardInv
<1>1. UNCHANGED <<cache, disk, spoilt>>
  BY DEF Quiet
<1>2. /\ CardOK(cache)' /\ CardOK(disk)' /\ NamedState(cache, disk)'
      /\ NamedState(disk, disk)'
  BY <1>1 DEF CardOK, NamedState, NoteOK
<1>3. CASE UNCHANGED <<plan, phase, good, awake>>
  <2>1. JobsOK(plan)' /\ SlotOK(plan, disk)'
    BY <1>1, <1>3 DEF JobsOK, SlotOK, JobOK, NoteOK
  <2>2. AtRisk' = AtRisk
    BY <1>1, <1>3 DEF AtRisk, Renamed, Doing, Target
  <2>3. Unsynced' /\ StatesStay' /\ SpoiltInv'
    BY <1>1, <1>3, <2>2 DEF Unsynced, StatesStay, SpoiltInv, Syncing, Doing, Target
  <2> QED BY <1>2, <2>1, <2>3
<1>4. CASE ~Syncing /\ phase' = "start" /\ good' /\ JobsOK(plan') /\ SlotOK(plan', disk)
  <2>1. JobsOK(plan)' /\ SlotOK(plan, disk)'
    BY <1>1, <1>4
  <2>2. AtRisk = {} /\ AtRisk' = {}
    BY <1>4 DEF AtRisk, Renamed, Syncing
  <2>3. Unsynced' /\ StatesStay' /\ SpoiltInv'
    BY <1>1, <1>4, <2>2 DEF Unsynced, StatesStay, SpoiltInv, Syncing
  <2> QED BY <1>2, <2>1, <2>3
<1>5. CASE /\ phase # "sync" /\ UNCHANGED plan
           /\ (phase' = "sync" => ~good') /\ (phase' # "sync" => UNCHANGED good)
  <2>1. JobsOK(plan)' /\ SlotOK(plan, disk)'
    BY <1>1, <1>5 DEF JobsOK, SlotOK, JobOK, NoteOK
  <2>2. AtRisk = {} /\ AtRisk' = {}
    BY <1>5 DEF AtRisk, Renamed
  <2>3. Unsynced' /\ StatesStay'
    BY <1>1, <1>5, <2>2 DEF Unsynced, StatesStay, Syncing
  <2>4. good /\ (phase' # "sync" => good')
    <3>1. good
      BY <1>5 DEF SpoiltInv
    <3>2. phase' # "sync" => good' = good
      BY <1>5
    <3> QED BY <3>1, <3>2, Zenon
  <2>5. SpoiltInv'
    BY <1>1, <2>2, <2>4 DEF SpoiltInv
  <2> QED BY <1>2, <2>1, <2>3, <2>5
<1> QED BY <1>3, <1>4, <1>5 DEF Quiet

LEMMA RenameCard ==
    ASSUME SavesInv, WriteRename
    PROVE  CardInv'
<1> USE DEF SavesInv, CardInv
<1>1. /\ plan # <<>> /\ Head(plan).do = "write" /\ ~Syncing
      /\ UNCHANGED <<plan, disk, awake>> /\ phase' = "sync" /\ awake
  BY DEF WriteRename, Doing, Syncing
<1>2. Target \in Written /\ Target' = Target /\ Syncing'
  BY <1>1, HeadFacts DEF Target, Syncing, Doing
<1>3. JobsOK(plan)' /\ SlotOK(plan, disk)' /\ CardOK(disk)' /\ NamedState(disk, disk)'
  BY <1>1 DEF JobsOK, SlotOK, JobOK, NoteOK, CardOK, NamedState
<1>4. \A f \in Written : disk[f] = cache[f]
  BY <1>1 DEF Unsynced, AtRisk, Renamed, Syncing
<1>5. CASE UNCHANGED <<cache, spoilt>> /\ good' = FALSE
  <2>1. AtRisk = {} /\ AtRisk' = {}
    BY <1>1, <1>5 DEF AtRisk, Renamed, Syncing
  <2> QED
    BY <1>1, <1>2, <1>3, <1>4, <1>5, <2>1
       DEF CardOK, NoteOK, Unsynced, SpoiltInv, StatesStay, NamedState
<1>6. ASSUME NEW v \in {Contents, Torn}, cache' = [cache EXCEPT ![Target] = v], good' = good,
             spoilt' = IF v = Torn THEN spoilt \cup {Target} ELSE spoilt \ {Target}
      PROVE  CardInv'
  <2>1. /\ v \in Int \X Int /\ v # Absent /\ (Whole(v) => v[1] \in 0 .. MaxPlay)
    BY ContentsFacts, ContentFacts
  <2>2. /\ cache' \in [Files -> Int \X Int]
        /\ \A f \in Files : cache'[f] = IF f = Target THEN v ELSE cache[f]
    BY <1>2, <1>6, <2>1, FileFacts DEF CardOK
  <2>3. \A f \in Noted : cache'[f] = cache[f]
    BY <1>2, <2>2, FileFacts
  <2>4. CardOK(cache)'
    BY <1>2, <2>1, <2>2, <2>3, FileFacts DEF CardOK, NoteOK
  <2>5. NamedState(cache, disk)'
    BY <1>1, <2>3, FileFacts DEF NamedState
  <2>r. AtRisk = {} /\ AtRisk' = {Target}
    <3>1. phase # "sync" /\ Doing("write") /\ Doing("write")'
      BY <1>1 DEF WriteRename, Doing
    <3>2. good
      BY <3>1 DEF SpoiltInv
    <3>3. AtRisk = {}
      BY <3>1 DEF AtRisk, Renamed
    <3>4. good'
      BY <1>6, <3>2
    <3>5. Renamed'
      BY <1>1, <3>1, <3>4 DEF Renamed
    <3> QED BY <1>2, <3>3, <3>5 DEF AtRisk
  <2>6. Unsynced' /\ StatesStay'
    BY <1>1, <1>2, <1>4, <2>1, <2>2, <2>r, FileFacts DEF Unsynced, StatesStay
  <2>7. SpoiltInv'
    <3>1. ASSUME NEW f \in Written, cache'[f] = Torn PROVE f \in spoilt'
      BY <1>2, <1>6, <2>2, <3>1, FileFacts DEF SpoiltInv
    <3>2. ASSUME NEW f \in Written, disk'[f] = Torn PROVE f \in spoilt' \cup AtRisk'
      BY <1>1, <1>6, <2>r, <3>2 DEF SpoiltInv
    <3> QED BY <1>1, <3>1, <3>2 DEF SpoiltInv
  <2> QED BY <1>3, <2>4, <2>5, <2>6, <2>7
<1>7. Contents # Torn
  BY ContentsFacts
<1> QED BY <1>5, <1>6, <1>7 DEF WriteRename

(* Everything the programs see goes to the card; the plan moves on. *)
LEMMA SyncCard ==
    ASSUME CardInv, disk' = cache, UNCHANGED <<cache, spoilt>>, phase' = "start", good',
           JobsOK(plan'), SlotOK(plan', cache)
    PROVE  CardInv'
<1> USE DEF CardInv
<1>1. \A f \in Written : disk[f] # Absent => cache[f] # Absent
  BY DEF StatesStay
<1>2. NamedState(cache, cache)
  BY <1>1, NamedGrows
<1>3. JobsOK(plan)' /\ SlotOK(plan, disk)'
  OBVIOUS
<1>4. CardOK(cache)' /\ CardOK(disk)'
  BY DEF CardOK, NoteOK
<1>5. NamedState(cache, disk)' /\ NamedState(disk, disk)'
  BY <1>2 DEF NamedState
<1>6. Unsynced' /\ SpoiltInv' /\ StatesStay'
  BY DEF Unsynced, SpoiltInv, StatesStay, Syncing, AtRisk, Renamed
<1> QED BY <1>3, <1>4, <1>5, <1>6

LEMMA SyncActs ==
    ASSUME SavesInv, WriteSync \/ Sync \/ PowerOff
    PROVE  CardInv'
<1> USE DEF SavesInv, CardInv, ghost, game, bounds
<1>0. SlotOK(plan, cache)
  BY FileFacts, SlotGrows DEF StatesStay
<1>1. CASE WriteSync
  <2>1. /\ plan # <<>> /\ Head(plan).do = "write" /\ Syncing
        /\ disk' = cache /\ UNCHANGED <<cache, spoilt>> /\ phase' = "start" /\ good'
        /\ plan' = IF ~good /\ Forgets(Target)
                   THEN SubSeq(plan, 4, Len(plan)) ELSE Tail(plan)
    BY <1>1 DEF WriteSync, Doing, Syncing, AfterWrite
  <2>2. Head(plan) = plan[1] /\ Target = plan[1].file
    BY <2>1, HeadFacts DEF Target
  <2>3. good => cache[plan[1].file] # Absent
    BY <2>1, <2>2 DEF StatesStay
  <2>4. MenuWrite(plan[1]) => Forgets(Target)
    BY <2>2 DEF MenuWrite
  <2>5. JobsOK(plan') /\ SlotOK(plan', cache)
    BY <1>0, <2>1, <2>3, <2>4, PlanParts
  <2> QED BY <2>1, <2>5, SyncCard
<1>2. CASE Sync
  <2>1. /\ plan # <<>> /\ Head(plan).do = "sync"
        /\ disk' = cache /\ UNCHANGED <<cache, spoilt>> /\ phase' = "start" /\ good'
        /\ plan' = Tail(plan)
    BY <1>2 DEF Sync, Doing, Next1
  <2>2. ~MenuWrite(plan[1])
    BY <2>1, HeadFacts DEF MenuWrite
  <2>3. JobsOK(plan') /\ SlotOK(plan', cache)
    BY <1>0, <2>1, <2>2, PlanParts
  <2> QED BY <2>1, <2>3, SyncCard
<1>3. CASE PowerOff
  <2>1. /\ disk' = cache /\ UNCHANGED <<cache, spoilt>> /\ phase' = "start" /\ good'
        /\ plan' = <<>>
    BY <1>3 DEF PowerOff, Start
  <2> QED BY <2>1, Jobs0, SyncCard
<1> QED BY <1>1, <1>2, <1>3

(* One note is written or taken away in place. *)
LEMMA NoteCard ==
    ASSUME SavesInv, PutFile \/ Unlink
    PROVE  CardInv'
<1> USE DEF SavesInv, CardInv, ghost, game, bounds
<1>1. /\ plan # <<>> /\ Head(plan).do \in {"put", "unlink"} /\ awake /\ ~Syncing
      /\ UNCHANGED <<disk, spoilt>> /\ plan' = Tail(plan) /\ phase' = "start" /\ good'
  BY DEF PutFile, Unlink, Doing, Syncing, Next1
<1>2. /\ Head(plan) = plan[1] /\ JobOK(Head(plan)) /\ Target = plan[1].file
      /\ ~MenuWrite(plan[1])
  BY <1>1, HeadFacts DEF Target, MenuWrite
<1>3. PICK v : /\ cache' = [cache EXCEPT ![Target] = v]
               /\ \/ Head(plan).do = "put" /\ v = Head(plan).val
                  \/ Head(plan).do = "put" /\ v = cache[Target]
                  \/ Head(plan).do = "put" /\ v = Torn
                  \/ Head(plan).do = "unlink" /\ v = Absent
  BY DEF PutFile, Unlink, Doing
<1>t. Target \in Noted /\ Target \in Files
  BY <1>1, <1>2, FileFacts DEF JobOK, NoteOK
<1>n. NoteOK(Target, v) /\ v \in Int \X Int
  <2>1. CASE Head(plan).do = "put" /\ v = Head(plan).val
    BY <1>2, <1>t, <2>1 DEF JobOK, Jobs, NoteOK
  <2>2. CASE v = cache[Target]
    BY <1>t, <2>2 DEF CardOK
  <2>3. CASE v \in {Torn, Absent}
    BY <1>t, <2>3, ContentFacts DEF NoteOK
  <2> QED BY <1>3, <2>1, <2>2, <2>3
<1>4. Target = SlotTxt /\ Whole(v) => disk[St(v[1])] # Absent
  <2> SUFFICES ASSUME Target = SlotTxt, Whole(v) PROVE disk[St(v[1])] # Absent
    OBVIOUS
  <2>1. CASE v = cache[Target]
    BY <2>1 DEF NamedState
  <2>2. CASE Head(plan).do = "put" /\ v = Head(plan).val
    <3>1. Len(plan) \in Nat /\ Len(plan) >= 1
      BY <1>1, EmptySeq DEF JobsOK
    <3>2. SlotNote(plan[1]) /\ 1 \in 1 .. Len(plan)
      BY <1>2, <2>2, <3>1 DEF SlotNote
    <3> QED BY <1>2, <2>2, <3>2 DEF SlotOK
  <2> QED BY <1>3, <2>1, <2>2, ContentFacts
<1>5. JobsOK(plan)' /\ SlotOK(plan, disk)'
  <2>1. JobsOK(Tail(plan)) /\ SlotOK(Tail(plan), disk)
    BY <1>1, <1>2, PlanParts
  <2> QED BY <1>1, <2>1
<1>6. /\ cache' \in [Files -> Int \X Int]
      /\ \A f \in Files : cache'[f] = IF f = Target THEN v ELSE cache[f]
  BY <1>3, <1>t, <1>n, FileFacts DEF CardOK
<1>7. \A f \in Written : cache'[f] = cache[f]
  BY <1>t, <1>6, FileFacts
<1>8. CardOK(cache)' /\ CardOK(disk)'
  BY <1>1, <1>n, <1>6, <1>7, FileFacts DEF CardOK, NoteOK
<1>9. NamedState(cache, disk)' /\ NamedState(disk, disk)'
  BY <1>1, <1>4, <1>6, FileFacts DEF NamedState
<1>10. Unsynced' /\ SpoiltInv' /\ StatesStay'
  BY <1>1, <1>7 DEF Unsynced, SpoiltInv, StatesStay, Syncing, AtRisk, Renamed
<1> QED BY <1>5, <1>8, <1>9, <1>10

LEMMA CutCard ==
    ASSUME CardInv, PowerCut
    PROVE  CardInv'
<1> USE DEF CardInv
<1>1. /\ cache' = disk /\ disk' = disk /\ spoilt' = spoilt \cup AtRisk
      /\ phase' = "start" /\ plan' = <<>> /\ good'
  BY DEF PowerCut, Start
<1>2. JobsOK(plan)' /\ SlotOK(plan, disk)'
  BY <1>1, Jobs0
<1>3. CardOK(cache)' /\ CardOK(disk)' /\ NamedState(cache, disk)' /\ NamedState(disk, disk)'
  BY <1>1 DEF CardOK, NoteOK, NamedState
<1>4. Unsynced' /\ SpoiltInv' /\ StatesStay'
  BY <1>1 DEF Unsynced, SpoiltInv, StatesStay, Syncing, AtRisk, Renamed
<1> QED BY <1>2, <1>3, <1>4

LEMMA WritebackCard ==
    ASSUME SavesInv, Writeback
    PROVE  CardInv'
<1> USE DEF SavesInv, CardInv, step, ghost, bounds, game
<1>1. PICK f \in Files :
         \/ disk' = [disk EXCEPT ![f] = cache[f]]
         \/ Whole(cache[f]) /\ disk[f] # cache[f] /\ disk' = [disk EXCEPT ![f] = Torn]
  BY DEF Writeback
<1>2. UNCHANGED <<cache, spoilt, plan, phase, good, awake>>
  BY DEF Writeback
<1>3. \E v \in {cache[f], Torn} :
         /\ v = Torn => cache[f] = Torn \/ (Whole(cache[f]) /\ disk[f] # cache[f])
         /\ disk' = [disk EXCEPT ![f] = v]
  BY <1>1
<1>4. PICK v \in {cache[f], Torn} :
         /\ v = Torn => cache[f] = Torn \/ (Whole(cache[f]) /\ disk[f] # cache[f])
         /\ disk' = [disk EXCEPT ![f] = v]
  BY <1>3
<1>5. /\ disk' \in [Files -> Int \X Int]
      /\ \A g \in Files : disk'[g] = IF g = f THEN v ELSE disk[g]
  BY <1>4, ContentFacts DEF CardOK
<1>6. \A g \in Written : \/ disk'[g] \in {disk[g], cache[g]}
                         \/ disk'[g] = Torn /\ Whole(cache[g]) /\ disk[g] # cache[g]
  BY <1>4, <1>5, FileFacts
<1>7. \A g \in Noted : disk'[g] \in {disk[g], cache[g], Torn}
  BY <1>4, <1>5, FileFacts
<1>8. \A g \in Written : disk[g] # Absent => disk'[g] # Absent
  BY <1>6, ContentFacts DEF StatesStay
<1>9. CardOK(cache)' /\ CardOK(disk)'
  BY <1>2, <1>5, <1>6, <1>7, ContentFacts DEF CardOK, NoteOK
<1>10. NamedState(cache, disk') /\ NamedState(disk, disk')
  BY <1>8, NamedGrows
<1>11. NamedState(cache, disk)' /\ NamedState(disk, disk)'
  BY <1>2, <1>7, <1>10, FileFacts, ContentFacts DEF NamedState
<1>r. AtRisk' = AtRisk /\ Syncing' = Syncing /\ Target' = Target
  BY <1>2 DEF AtRisk, Renamed, Syncing, Doing, Target
<1>12. Unsynced' /\ SpoiltInv' /\ StatesStay'
  <2>1. \A g \in Written : Whole(cache[g]) => cache[g] # Absent
    BY ContentFacts
  <2>2. \A g \in Written : disk[g] # cache[g] => g \in AtRisk
    BY DEF Unsynced
  <2>3. Unsynced'
    BY <1>2, <1>6, <1>r, <2>2 DEF Unsynced
  <2>4. SpoiltInv'
    BY <1>2, <1>6, <1>r, <2>2 DEF SpoiltInv
  <2>5. StatesStay'
    BY <1>2, <1>6, <1>r, <2>1, ContentFacts DEF StatesStay
  <2> QED BY <2>3, <2>4, <2>5
<1>13. SlotOK(plan, disk')
  BY <1>8, FileFacts, SlotGrows
<1>14. JobsOK(plan)' /\ SlotOK(plan, disk)'
  <2>1. plan' = plan
    BY <1>2
  <2> QED BY <1>13, <2>1 DEF JobsOK, JobOK, NoteOK, SlotOK
<1> QED BY <1>9, <1>11, <1>12, <1>14

-----------------------------------------------------------------------------
(* Types.  The plan's and the card's follow from CardInv. *)
Bits == awake \in BOOLEAN /\ good \in BOOLEAN /\ quick \in BOOLEAN

LEMMA BitsStep ==
    ASSUME Bits, [Next]_vars
    PROVE  Bits'
<1> USE DEF Bits, step, game, card, ghost, bounds
<1>1. CASE WriteNothing
  BY <1>1 DEF WriteNothing, AfterWrite
<1>2. CASE WriteOpen
  BY <1>2 DEF WriteOpen, AfterWrite
<1>3. CASE WriteFill
  BY <1>3 DEF WriteFill
<1>4. CASE WriteRename
  BY <1>4 DEF WriteRename
<1>5. CASE WriteSync
  BY <1>5 DEF WriteSync, AfterWrite
<1>6. CASE PutFile
  BY <1>6 DEF PutFile, Next1
<1>7. CASE Unlink
  BY <1>7 DEF Unlink, Next1
<1>8. CASE Sync
  BY <1>8 DEF Sync, Next1
<1>9. CASE Boot
  BY <1>9 DEF Boot
<1>10. CASE autoResume
  BY <1>10 DEF autoResume, Start
<1>11. CASE openRom
  BY <1>11 DEF openRom, Start
<1>12. CASE openRomResume
  BY <1>12 DEF openRomResume, Start
<1>13. CASE Launch
  BY <1>13 DEF Launch, Next1
<1>14. CASE Load
  BY <1>14 DEF Load
<1>15. CASE LoadFails
  BY <1>15 DEF LoadFails
<1>16. CASE Play
  BY <1>16 DEF Play
<1>17. CASE MenuOpen
  BY <1>17 DEF MenuOpen, Start
<1>18. CASE MenuTurn
  BY <1>18 DEF MenuTurn
<1>19. CASE MenuBack
  BY <1>19 DEF MenuBack
<1>20. CASE MenuContinue
  BY <1>20 DEF MenuContinue
<1>21. CASE SaveState
  BY <1>21 DEF SaveState, Start
<1>22. CASE LoadState
  BY <1>22 DEF LoadState, Start
<1>23. CASE Quit
  BY <1>23 DEF Quit, Start
<1>24. CASE QuitDone
  BY <1>24 DEF QuitDone, Next1
<1>25. CASE PowerHeld
  BY <1>25 DEF PowerHeld, Start
<1>26. CASE Sleep
  BY <1>26 DEF Sleep, Start
<1>27. CASE Nap
  BY <1>27 DEF Nap, Next1
<1>28. CASE Wake
  BY <1>28 DEF Wake, Start
<1>29. CASE PowerOff
  BY <1>29 DEF PowerOff, Start
<1>30. CASE PowerCut
  BY <1>30 DEF PowerCut, Start
<1>31. CASE Writeback
  BY <1>31 DEF Writeback
<1>32. CASE UNCHANGED vars
  BY <1>32 DEF vars
<1> QED BY <1>1, <1>2, <1>3, <1>4, <1>5, <1>6, <1>7, <1>8, <1>9, <1>10, <1>11, <1>12,
           <1>13, <1>14, <1>15, <1>16, <1>17, <1>18, <1>19, <1>20, <1>21, <1>22, <1>23,
           <1>24, <1>25, <1>26, <1>27, <1>28, <1>29, <1>30, <1>31, <1>32 DEF Next

PhaseOK ==
    /\ phase \in {"start", "opened", "filled", "short", "sync"}
    /\ phase # "start" => Doing("write") /\ Target[1] \in offers
    /\ spoilt \subseteq Written

LEMMA PhaseStep ==
    ASSUME JobsOK(plan), PhaseOK, [Next]_vars
    PROVE  PhaseOK'
<1> USE DEF PhaseOK, step, game, card, ghost, bounds
<1>1. CASE WriteNothing
  BY <1>1 DEF WriteNothing, AfterWrite
<1>2. CASE WriteOpen
  BY <1>2 DEF WriteOpen, AfterWrite, Doing, Target
<1>3. CASE WriteFill
  BY <1>3 DEF WriteFill, Doing, Target
<1>4. CASE WriteRename
  <2>1. /\ Doing("write") /\ phase \in {"filled", "short"} /\ phase' = "sync"
        /\ spoilt' \subseteq spoilt \cup {Target} /\ UNCHANGED <<plan, awake, offers>>
    BY <1>4 DEF WriteRename
  <2>2. Target \in Written
    BY <2>1, HeadFacts DEF Doing
  <2>3. Doing("write")' /\ Target' = Target /\ spoilt' \subseteq Written
    BY <2>1, <2>2 DEF Doing, Target
  <2> QED BY <2>1, <2>3
<1>5. CASE WriteSync
  BY <1>5 DEF WriteSync, AfterWrite
<1>6. CASE PutFile
  BY <1>6 DEF PutFile, Next1
<1>7. CASE Unlink
  BY <1>7 DEF Unlink, Next1
<1>8. CASE Sync
  BY <1>8 DEF Sync, Next1
<1>9. CASE Boot
  BY <1>9 DEF Boot, Doing, Target
<1>10. CASE autoResume
  BY <1>10 DEF autoResume, Start
<1>11. CASE openRom
  BY <1>11 DEF openRom, Start
<1>12. CASE openRomResume
  BY <1>12 DEF openRomResume, Start
<1>13. CASE Launch
  BY <1>13 DEF Launch, Next1
<1>14. CASE Load
  BY <1>14 DEF Load, Doing, Target
<1>15. CASE LoadFails
  BY <1>15 DEF LoadFails, Doing, Target
<1>16. CASE Play
  BY <1>16 DEF Play, Doing, Target
<1>17. CASE MenuOpen
  BY <1>17 DEF MenuOpen, Start
<1>18. CASE MenuTurn
  BY <1>18 DEF MenuTurn, Doing, Target
<1>19. CASE MenuBack
  BY <1>19 DEF MenuBack, Doing, Target
<1>20. CASE MenuContinue
  BY <1>20 DEF MenuContinue, Doing, Target
<1>21. CASE SaveState
  BY <1>21 DEF SaveState, Start
<1>22. CASE LoadState
  BY <1>22 DEF LoadState, Start, Doing, Target
<1>23. CASE Quit
  BY <1>23 DEF Quit, Start
<1>24. CASE QuitDone
  BY <1>24 DEF QuitDone, Next1
<1>25. CASE PowerHeld
  BY <1>25 DEF PowerHeld, Start
<1>26. CASE Sleep
  BY <1>26 DEF Sleep, Start
<1>27. CASE Nap
  BY <1>27 DEF Nap, Next1
<1>28. CASE Wake
  BY <1>28 DEF Wake, Start
<1>29. CASE PowerOff
  BY <1>29 DEF PowerOff, Start
<1>30. CASE PowerCut
  BY <1>30 DEF PowerCut, Start, AtRisk
<1>31. CASE Writeback
  BY <1>31 DEF Writeback, Doing, Target
<1>32. CASE UNCHANGED vars
  BY <1>32 DEF vars, Doing, Target
<1> QED BY <1>1, <1>2, <1>3, <1>4, <1>5, <1>6, <1>7, <1>8, <1>9, <1>10, <1>11, <1>12,
           <1>13, <1>14, <1>15, <1>16, <1>17, <1>18, <1>19, <1>20, <1>21, <1>22, <1>23,
           <1>24, <1>25, <1>26, <1>27, <1>28, <1>29, <1>30, <1>31, <1>32 DEF Next

GameOK ==
    /\ stage \in {"off", "minui", "load", "play", "menu"}
    /\ offers \in Cores
    /\ mem \in 0 .. MaxPlay /\ drive \in Discs \cup {None}
    /\ menu \in [slot : Slots, disc : Discs, rom : Discs]
    /\ resume \in Slots \cup {None, DEFAULT_SLOT, AUTO_RESUME_SLOT}
    /\ clock \in 0 .. MaxPlay /\ faults \in 0 .. MaxFaults /\ cuts \in 0 .. MaxCuts

LEMMA OpenFaults ==
    WriteOpen => faults' = faults \/ (faults < MaxFaults /\ faults' = faults + 1)
BY DEF WriteOpen, mayFail

LEMMA GameStep ==
    ASSUME JobsOK(plan), CardOK(cache), GameOK, [Next]_vars
    PROVE  GameOK'
<1> USE SavesAssumption DEF SavesAssumption, GameOK, step, game, card, ghost, bounds
<1>1. CASE WriteNothing
  BY <1>1 DEF WriteNothing
<1>2. CASE WriteOpen
  <2>1. faults' = faults \/ (faults < MaxFaults /\ faults' = faults + 1)
    BY <1>2, OpenFaults
  <2>2. UNCHANGED <<stage, offers, mem, drive, menu, resume, clock, cuts>>
    BY <1>2 DEF WriteOpen
  <2> QED BY <2>1, <2>2
<1>3. CASE WriteFill
  BY <1>3 DEF WriteFill, mayFail
<1>4. CASE WriteRename
  BY <1>4 DEF WriteRename, mayFail
<1>5. CASE WriteSync
  BY <1>5 DEF WriteSync
<1>6. CASE PutFile
  BY <1>6 DEF PutFile, mayFail
<1>7. CASE Unlink
  BY <1>7 DEF Unlink
<1>8. CASE Sync
  BY <1>8 DEF Sync
<1>9. CASE Boot
  BY <1>9 DEF Boot
<1>10. CASE autoResume
  BY <1>10 DEF autoResume
<1>11. CASE openRom
  BY <1>11 DEF openRom
<1>12. CASE openRomResume
  BY <1>12 DEF openRomResume
<1>13. CASE Launch
  <2>1. /\ plan # <<>> /\ Head(plan).do = "launch" /\ stage' = "load"
        /\ resume' = Head(plan).val[1] /\ drive' = Head(plan).val[2]
        /\ UNCHANGED <<offers, mem, menu, clock, faults, cuts>>
    BY <1>13 DEF Launch, Doing
  <2>2. JobOK(Head(plan))
    BY <2>1, HeadFacts
  <2> QED BY <2>1, <2>2 DEF JobOK
<1>14. CASE Load
  <2>1. Loaded \in 0 .. MaxPlay
    <3>1. Whole(cache[Sav]) => cache[Sav][1] \in 0 .. MaxPlay
      BY FileFacts DEF CardOK
    <3>2. ASSUME resume \in Slots \cup {AUTO_RESUME_SLOT}, Whole(cache[St(resume)])
          PROVE  cache[St(resume)][1] \in 0 .. MaxPlay
      BY <3>2, FileFacts DEF CardOK
    <3>3. 0 \in 0 .. MaxPlay /\ ~Whole(Absent)
      BY ContentFacts
    <3> QED BY <3>1, <3>2, <3>3 DEF Loaded, State_read, SRAM_read
  <2>2. slotOf(cache[SlotTxt]) \in Slots
    BY FileFacts DEF slotOf, CardOK, NoteOK
  <2>3. menu' \in [slot : Slots, disc : Discs, rom : Discs]
    <3>1. drive \in Discs
      BY <1>14 DEF Load
    <3> QED BY <1>14, <2>2, <3>1 DEF Load
  <2>4. /\ stage' = "play" /\ mem' = Loaded /\ resume' = None
        /\ UNCHANGED <<offers, drive, clock, faults, cuts>>
    BY <1>14 DEF Load
  <2> QED BY <2>1, <2>3, <2>4
<1>15. CASE LoadFails
  BY <1>15 DEF LoadFails
<1>16. CASE Play
  BY <1>16 DEF Play
<1>17. CASE MenuOpen
  <2>1. slotOf(cache[SlotTxt]) \in Slots
    BY FileFacts DEF slotOf, CardOK, NoteOK
  <2> QED BY <1>17, <2>1 DEF MenuOpen
<1>18. CASE MenuTurn
  BY <1>18, ZenonT(30) DEF MenuTurn
<1>19. CASE MenuBack
  BY <1>19 DEF MenuBack
<1>20. CASE MenuContinue
  BY <1>20 DEF MenuContinue
<1>21. CASE SaveState
  BY <1>21 DEF SaveState
<1>22. CASE LoadState
  <2>1. /\ stage' = "play" /\ UNCHANGED <<offers, menu, resume, clock, faults, cuts>>
    BY <1>22 DEF LoadState
  <2>2. menu.slot \in Slots /\ menu.disc \in Discs
    OBVIOUS
  <2>3. /\ Whole(cache[St(menu.slot)]) => cache[St(menu.slot)][1] \in 0 .. MaxPlay
        /\ Whole(cache[DiscTxt(menu.slot)]) => cache[DiscTxt(menu.slot)][1] \in Discs
    BY <2>2, FileFacts DEF CardOK, NoteOK
  <2>4. mem' \in 0 .. MaxPlay
    BY <1>22, <2>3 DEF LoadState
  <2>5. drive' \in Discs \cup {None}
    BY <1>22, <2>2, <2>3 DEF LoadState
  <2> QED BY <2>1, <2>4, <2>5
<1>23. CASE Quit
  BY <1>23 DEF Quit
<1>24. CASE QuitDone
  BY <1>24 DEF QuitDone
<1>25. CASE PowerHeld
  BY <1>25 DEF PowerHeld
<1>26. CASE Sleep
  BY <1>26 DEF Sleep
<1>27. CASE Nap
  BY <1>27 DEF Nap
<1>28. CASE Wake
  BY <1>28 DEF Wake
<1>29. CASE PowerOff
  BY <1>29 DEF PowerOff
<1>30. CASE PowerCut
  BY <1>30 DEF PowerCut
<1>31. CASE Writeback
  BY <1>31 DEF Writeback
<1>32. CASE UNCHANGED vars
  BY <1>32 DEF vars
<1> QED BY <1>1, <1>2, <1>3, <1>4, <1>5, <1>6, <1>7, <1>8, <1>9, <1>10, <1>11, <1>12,
           <1>13, <1>14, <1>15, <1>16, <1>17, <1>18, <1>19, <1>20, <1>21, <1>22, <1>23,
           <1>24, <1>25, <1>26, <1>27, <1>28, <1>29, <1>30, <1>31, <1>32 DEF Next

LeftOK == left = <<>> \/ left \in (0 .. MaxPlay) \X (Discs \cup {None}) \X BOOLEAN

LEMMA LeftStep ==
    ASSUME GameOK, Bits, LeftOK, [Next]_vars
    PROVE  LeftOK'
<1>1. CASE PowerOff
  <2>1. left' = <<mem, drive, quick>>
    BY <1>1 DEF PowerOff
  <2> QED BY <2>1 DEF LeftOK, GameOK, Bits
<1>2. CASE Load \/ LoadFails \/ PowerCut
  BY <1>2 DEF Load, LoadFails, PowerCut, LeftOK
<1>3. CASE WriteNothing \/ WriteOpen \/ WriteFill \/ WriteRename \/ WriteSync
  BY <1>3 DEF WriteNothing, WriteOpen, WriteFill, WriteRename, WriteSync, ghost, LeftOK
<1>4. CASE PutFile \/ Unlink \/ Sync \/ Boot \/ autoResume \/ openRom \/ openRomResume
  BY <1>4 DEF PutFile, Unlink, Sync, Boot, autoResume, openRom, openRomResume, ghost, LeftOK
<1>5. CASE Launch \/ Play \/ MenuOpen \/ MenuTurn \/ MenuBack \/ MenuContinue \/ SaveState
  BY <1>5 DEF Launch, Play, MenuOpen, MenuTurn, MenuBack, MenuContinue, SaveState, ghost, LeftOK
<1>6. CASE LoadState \/ Quit \/ QuitDone \/ PowerHeld \/ Sleep \/ Nap \/ Wake \/ Writeback
  BY <1>6 DEF LoadState, Quit, QuitDone, PowerHeld, Sleep, Nap, Wake, Writeback, ghost, LeftOK
<1>7. CASE UNCHANGED vars
  BY <1>7 DEF vars, LeftOK
<1> QED BY <1>1, <1>2, <1>3, <1>4, <1>5, <1>6, <1>7 DEF Next

LEMMA TypeParts ==
    /\ TypeOK => Bits /\ PhaseOK /\ GameOK /\ LeftOK
    /\ Bits /\ PhaseOK /\ GameOK /\ LeftOK /\ CardInv => TypeOK
<1>1. TypeOK => Bits /\ PhaseOK /\ GameOK /\ LeftOK
  BY DEF TypeOK, Bits, PhaseOK, GameOK, LeftOK
<1>2. CardInv => /\ cache \in [Files -> Int \X Int] /\ disk \in [Files -> Int \X Int]
                 /\ \A i \in DOMAIN plan : plan[i] \in Jobs
  BY DEF CardInv, CardOK, JobsOK
<1>3. Bits /\ PhaseOK /\ GameOK /\ LeftOK /\ CardInv => TypeOK
  BY <1>2 DEF TypeOK, Bits, PhaseOK, GameOK, LeftOK
<1> QED BY <1>1, <1>3

-----------------------------------------------------------------------------
LEMMA InitSaves == Init => SavesInv
<1> SUFFICES ASSUME Init PROVE SavesInv
  OBVIOUS
<1> USE SavesAssumption DEF SavesAssumption
<1>1. Bits /\ LeftOK
  BY DEF Init, Bits, LeftOK
<1>2. PhaseOK /\ GameOK
  BY DEF Init, PhaseOK, GameOK
<1>3. /\ \A f \in Files : cache[f] = Absent /\ disk[f] = Absent
      /\ cache \in [Files -> Int \X Int] /\ disk \in [Files -> Int \X Int]
  BY ContentFacts DEF Init
<1>4. CardOK(cache) /\ CardOK(disk)
  BY <1>3, ContentFacts, FileFacts DEF CardOK, NoteOK
<1>5. NamedState(cache, disk) /\ NamedState(disk, disk)
  BY <1>3, ContentFacts, FileFacts DEF NamedState
<1>6. Unsynced /\ SpoiltInv /\ StatesStay
  <2>1. ~Syncing /\ phase = "start" /\ good
    BY DEF Init, Syncing
  <2> QED BY <1>3, <2>1, ContentFacts, FileFacts DEF Unsynced, SpoiltInv, StatesStay
<1>7. JobsOK(plan) /\ SlotOK(plan, disk)
  BY Jobs0 DEF Init
<1>8. CardInv
  BY <1>4, <1>5, <1>6, <1>7 DEF CardInv
<1> QED BY <1>1, <1>2, <1>8, TypeParts DEF SavesInv

LEMMA NextSaves == SavesInv /\ [Next]_vars => SavesInv'
<1> SUFFICES ASSUME SavesInv, [Next]_vars PROVE SavesInv'
  OBVIOUS
<1>1. CardInv'
  <2>1. CASE QuietAct
    BY <2>1, QuietActs, QuietCard DEF SavesInv
  <2>2. CASE WriteRename
    BY <2>2, RenameCard
  <2>3. CASE WriteSync \/ Sync \/ PowerOff
    BY <2>3, SyncActs
  <2>4. CASE PutFile \/ Unlink
    BY <2>4, NoteCard
  <2>5. CASE PowerCut
    BY <2>5, CutCard DEF SavesInv
  <2>6. CASE Writeback
    BY <2>6, WritebackCard
  <2>7. CASE UNCHANGED vars
    <3>1. Quiet
      BY <2>7 DEF vars, Quiet
    <3> QED BY <3>1, QuietCard DEF SavesInv
  <2> QED BY <2>1, <2>2, <2>3, <2>4, <2>5, <2>6, <2>7 DEF Next, QuietAct
<1>2. JobsOK(plan) /\ CardOK(cache) /\ Bits /\ PhaseOK /\ GameOK /\ LeftOK
  BY TypeParts DEF SavesInv, CardInv
<1>3. Bits' /\ PhaseOK' /\ GameOK' /\ LeftOK'
  BY <1>2, BitsStep, PhaseStep, GameStep, LeftStep
<1>4. TypeOK'
  <2>1. /\ (cache \in [Files -> Int \X Int])' /\ (disk \in [Files -> Int \X Int])'
        /\ (\A i \in DOMAIN plan : plan[i] \in Jobs)'
    BY <1>1 DEF CardInv, CardOK, JobsOK
  <2> QED BY <1>3, <2>1 DEF TypeOK, Bits, PhaseOK, GameOK, LeftOK
<1> QED BY <1>1, <1>4 DEF SavesInv

(* The inductive invariant of the saves. *)
THEOREM SavesCorrect == Spec => []SavesInv
BY InitSaves, NextSaves, PTL DEF Spec

(* Types: both programs, the handler's plan and the card keep their shape,  *)
(* whatever fails and wherever the power is cut.                            *)
THEOREM SavesTypes == Spec => []TypeOK
<1>1. SavesInv => TypeOK
  BY DEF SavesInv
<1> QED BY <1>1, SavesCorrect, PTL

(* SRAM_write, RTC_write and State_write: a power cut and a failing step   *)
(* tear at most the save between whose rename and sync it falls, and what  *)
(* a failed flush has cut short; every other save is whole.                *)
THEOREM SavesTornOnlyAtRisk == Spec => []TornOnlyAtRisk
<1>1. SavesInv => TornOnlyAtRisk
  BY DEF SavesInv, CardInv, SpoiltInv, TornOnlyAtRisk
<1> QED BY <1>1, SavesCorrect, PTL

(* Between handlers every save is on the card: a cut costs none of them.    *)
THEOREM SavesDurable == Spec => []FinishedSavesAreDurable
<1>1. SavesInv => FinishedSavesAreDurable
  BY DEF SavesInv, CardInv, Unsynced, AtRisk, Renamed, Doing, Idle, FinishedSavesAreDurable
<1> QED BY <1>1, SavesCorrect, PTL

(* The slot file on the card never names a state that is not there.         *)
THEOREM SlotFileHonest == Spec => []SlotHasState
<1>1. SavesInv => SlotHasState
  BY DEF SavesInv, CardInv, NamedState, SlotHasState
<1> QED BY <1>1, SavesCorrect, PTL
-----------------------------------------------------------------------------
(* What a sleep, a power-off and a quit leave behind.  Their plans are     *)
(* known to the last step, so the number of steps left tells what is done. *)

(* p is what is left of the plan full. *)
Ends(p, full) ==
    /\ Len(p) \in 0 .. Len(full)
    /\ \A i \in 1 .. Len(p) : p[i] = full[Len(full) - Len(p) + i]

NapPlan == Menu_beforeSleep \o <<sync, Leave("nap", 0, 0)>>
OffPlan == Menu_beforeSleep \o <<Leave("poweroff", 0, 0)>>
QuitPlan == Menu_saveState \o <<Write(Sav), Write(Rtc), Leave("minui", 0, 0)>>
ResumePlan(d) == <<unlink(AutoResume), sync, Leave("launch", AUTO_RESUME_SLOT, d)>>

Only(p, dos) == \A i \in 1 .. Len(p) : p[i].do \in dos
LaunchLast(p) == \A i \in 1 .. Len(p) : p[i].do = "launch" => i = Len(p)

(* The battery save, the quicksave and the marker are those of now. *)
BatteryDone == faults = 0 /\ "sav" \in offers => cache[Sav] = <<mem, 0>>
StateDone == /\ faults = 0 /\ "st" \in offers => quick
             /\ quick => /\ "st" \in offers
                         /\ cache[St(AUTO_RESUME_SLOT)] = <<mem, drive>>
MarkerDone == faults = 0 \/ quick => cache[AutoResume] = <<drive, 0>>

SleepDone(n) ==
    /\ n <= 5 => BatteryDone
    /\ n <= 3 => StateDone
    /\ n <= 2 => MarkerDone
    /\ n <= 1 => disk = cache

NapInv == InGame /\ Ends(plan, NapPlan) /\ SleepDone(Len(plan))
OffInv == InGame /\ Ends(plan, OffPlan) /\ SleepDone(Len(plan) + 1)
QuitInv == InGame /\ Ends(plan, QuitPlan) /\ (Len(plan) <= 2 => BatteryDone)
LaunchInv == stage = "minui" /\ Only(plan, {"unlink", "sync", "launch"}) /\ LaunchLast(plan)
LooseInv == InGame /\ Only(plan, {"write", "put", "unlink", "sync"})

(* While nothing has failed, a write has all it did behind it. *)
WriteInv ==
    /\ phase = "start" => good
    /\ faults = 0 /\ phase # "start" =>
          good /\ phase # "short" /\ (phase = "sync" => cache[Target] = Contents)

StopInv ==
    /\ WriteInv
    /\ plan = <<>> \/ NapInv \/ OffInv \/ QuitInv \/ LaunchInv \/ LooseInv
    /\ ~awake => InGame /\ plan = <<>> /\ SleepDone(0)
    /\ stage = "off" => mem = 0
    /\ stage \in {"off", "load"} => plan = <<>> /\ awake
    /\ stage \in {"minui", "load"} /\ mem > 0 => BatteryDone

(* From a power-off with a quicksave to the game's next start. *)
ResumeInv ==
    (left # <<>> /\ left[3] /\ left[2] # None) =>
        /\ "st" \in offers /\ cache[St(AUTO_RESUME_SLOT)] = <<left[1], left[2]>>
        /\ \/ stage = "off" /\ cache[AutoResume] = <<left[2], 0>>
           \/ stage = "minui" /\ plan = <<>> /\ cache[AutoResume] = <<left[2], 0>>
           \/ stage = "minui" /\ plan # <<>> /\ Ends(plan, ResumePlan(left[2]))
           \/ stage = "load" /\ resume = AUTO_RESUME_SLOT /\ drive = left[2]

-----------------------------------------------------------------------------
(* A step forward in a known plan. *)
LEMMA EndsTail ==
    ASSUME NEW full \in Seq(Jobs), NEW p \in Seq(Jobs), Ends(p, full), p # <<>>
    PROVE  /\ Len(p) \in 1 .. Len(full)
           /\ Head(p) = full[Len(full) - Len(p) + 1]
           /\ Len(Tail(p)) = Len(p) - 1
           /\ Ends(Tail(p), full)
<1>1. Len(p) \in Nat /\ Len(full) \in Nat /\ Len(p) >= 1
  BY EmptySeq
<1>2. Len(p) \in 1 .. Len(full)
  BY <1>1 DEF Ends
<1>3. /\ Len(Tail(p)) = Len(p) - 1
      /\ \A i \in 1 .. Len(p) - 1 : Tail(p)[i] = p[i + 1]
  BY HeadTailProperties
<1>4. Head(p) = full[Len(full) - Len(p) + 1]
  BY <1>1 DEF Ends
<1>5. ASSUME NEW i \in 1 .. Len(p) - 1
      PROVE  Tail(p)[i] = full[Len(full) - Len(Tail(p)) + i]
  <2>1. i + 1 \in 1 .. Len(p)
    BY <1>1
  <2>2. Tail(p)[i] = full[Len(full) - Len(p) + (i + 1)]
    BY <1>3, <2>1 DEF Ends
  <2>3. Len(full) - Len(p) + (i + 1) = Len(full) - Len(Tail(p)) + i
    BY <1>1, <1>3
  <2> QED BY <2>2, <2>3
<1>6. Len(Tail(p)) \in 0 .. Len(full)
  BY <1>1, <1>2, <1>3
<1>7. Ends(Tail(p), full)
  BY <1>3, <1>5, <1>6 DEF Ends
<1> QED BY <1>2, <1>3, <1>4, <1>7

LEMMA EndsAll == \A full \in Seq(Jobs) : Ends(full, full) /\ Ends(<<>>, full)
BY EmptySeq DEF Ends

LEMMA OnlyParts ==
    ASSUME NEW p \in Seq(Jobs), p # <<>>, NEW dos, Only(p, dos)
    PROVE  /\ Head(p).do \in dos
           /\ Only(Tail(p), dos) /\ Only(SubSeq(p, 4, Len(p)), dos)
<1>0. Len(p) \in Nat /\ Len(p) >= 1
  BY EmptySeq
<1>1. /\ Len(Tail(p)) = Len(p) - 1
      /\ \A i \in 1 .. Len(p) - 1 : Tail(p)[i] = p[i + 1]
  BY HeadTailProperties
<1>2. \A i \in 4 .. Len(p) : p[i] \in Jobs
  BY <1>0, ElementOfSeq
<1>3. /\ Len(SubSeq(p, 4, Len(p))) = IF 4 <= Len(p) THEN Len(p) - 4 + 1 ELSE 0
      /\ \A i \in 1 .. Len(p) - 4 + 1 : SubSeq(p, 4, Len(p))[i] = p[4 + i - 1]
  BY <1>0, <1>2, SubSeqProperties
<1>4. Head(p).do \in dos
  BY <1>0 DEF Only
<1>5. Only(Tail(p), dos)
  BY <1>0, <1>1 DEF Only
<1>6. Only(SubSeq(p, 4, Len(p)), dos)
  BY <1>0, <1>3 DEF Only
<1> QED BY <1>4, <1>5, <1>6

LEMMA ConcatSteps ==
    ASSUME NEW p \in Seq(Jobs), NEW q \in Seq(Jobs)
    PROVE  /\ Len(p \o q) = Len(p) + Len(q)
           /\ \A i \in 1 .. Len(p) + Len(q) :
                 (p \o q)[i] = IF i <= Len(p) THEN p[i] ELSE q[i - Len(p)]
BY ConcatProperties

LEMMA LaunchTail ==
    ASSUME NEW p \in Seq(Jobs), p # <<>>, LaunchLast(p)
    PROVE  LaunchLast(Tail(p)) /\ (Head(p).do = "launch" => Tail(p) = <<>>)
<1>0. Len(p) \in Nat /\ Len(p) >= 1 /\ Head(p) = p[1]
  BY EmptySeq
<1>1. /\ Tail(p) \in Seq(Jobs) /\ Len(Tail(p)) = Len(p) - 1
      /\ \A i \in 1 .. Len(p) - 1 : Tail(p)[i] = p[i + 1]
  BY HeadTailProperties
<1>2. LaunchLast(Tail(p))
  <2> SUFFICES ASSUME NEW i \in 1 .. Len(p) - 1, p[i + 1].do = "launch"
               PROVE  i = Len(p) - 1
    BY <1>1 DEF LaunchLast
  <2>1. i + 1 \in 1 .. Len(p)
    BY <1>0
  <2>2. i + 1 = Len(p)
    BY <2>1 DEF LaunchLast
  <2> QED BY <1>0, <2>2
<1>3. Head(p).do = "launch" => Len(Tail(p)) = 0
  <2>1. 1 \in 1 .. Len(p)
    BY <1>0
  <2>2. Head(p).do = "launch" => 1 = Len(p)
    BY <1>0, <2>1 DEF LaunchLast
  <2> QED BY <1>0, <1>1, <2>2
<1> QED BY <1>1, <1>2, <1>3, EmptySeq

(* The steps of the three plans. *)
LEMMA PlanTables ==
    ASSUME TypeOK
    PROVE  /\ NapPlan \in Seq(Jobs) /\ Len(NapPlan) = 6
           /\ NapPlan[1] = Write(Sav) /\ NapPlan[2] = Write(Rtc)
           /\ NapPlan[3] = Write(St(AUTO_RESUME_SLOT))
           /\ NapPlan[4] = putFile(AutoResume, drive)
           /\ NapPlan[5] = sync /\ NapPlan[6] = Leave("nap", 0, 0)
           /\ OffPlan \in Seq(Jobs) /\ Len(OffPlan) = 5
           /\ OffPlan[1] = Write(Sav) /\ OffPlan[2] = Write(Rtc)
           /\ OffPlan[3] = Write(St(AUTO_RESUME_SLOT))
           /\ OffPlan[4] = putFile(AutoResume, drive)
           /\ OffPlan[5] = Leave("poweroff", 0, 0)
           /\ QuitPlan \in Seq(Jobs) /\ Len(QuitPlan) = 6
           /\ QuitPlan[1] = Write(St(menu.slot))
           /\ QuitPlan[2] = putFile(DiscTxt(menu.slot), menu.disc)
           /\ QuitPlan[3] = putFile(SlotTxt, menu.slot)
           /\ QuitPlan[4] = Write(Sav) /\ QuitPlan[5] = Write(Rtc)
           /\ QuitPlan[6] = Leave("minui", 0, 0)
<1>1. /\ JobsOK(Menu_beforeSleep) /\ JobsOK(Menu_saveState)
      /\ JobsOK(<<Write(Sav), Write(Rtc), Leave("minui", 0, 0)>>)
  BY Handlers
<1>2. /\ JobsOK(<<sync, Leave("nap", 0, 0)>>) /\ JobsOK(<<Leave("poweroff", 0, 0)>>)
  BY JobFacts, Jobs1, Jobs2
<1>3. JobsOK(NapPlan) /\ JobsOK(OffPlan) /\ JobsOK(QuitPlan)
  BY <1>1, <1>2, JobsConcat DEF NapPlan, OffPlan, QuitPlan
<1>4. /\ Len(Menu_beforeSleep) = 4 /\ Menu_beforeSleep \in Seq(Jobs)
      /\ Menu_beforeSleep[1] = Write(Sav) /\ Menu_beforeSleep[2] = Write(Rtc)
      /\ Menu_beforeSleep[3] = Write(St(AUTO_RESUME_SLOT))
      /\ Menu_beforeSleep[4] = putFile(AutoResume, drive)
  <2>1. Menu_beforeSleep \in Seq(Jobs)
    BY <1>1 DEF JobsOK
  <2> QED BY <2>1 DEF Menu_beforeSleep
<1>5. /\ Len(Menu_saveState) = 3 /\ Menu_saveState \in Seq(Jobs)
      /\ Menu_saveState[1] = Write(St(menu.slot))
      /\ Menu_saveState[2] = putFile(DiscTxt(menu.slot), menu.disc)
      /\ Menu_saveState[3] = putFile(SlotTxt, menu.slot)
  <2>1. Menu_saveState \in Seq(Jobs)
    BY <1>1 DEF JobsOK
  <2> QED BY <2>1 DEF Menu_saveState
<1>6. /\ Len(NapPlan) = 6 /\ \A i \in 1 .. 4 : NapPlan[i] = Menu_beforeSleep[i]
      /\ NapPlan[5] = sync /\ NapPlan[6] = Leave("nap", 0, 0)
  <2> DEFINE q == <<sync, Leave("nap", 0, 0)>>
  <2>1. q \in Seq(Jobs) /\ Len(q) = 2 /\ q[1] = sync /\ q[2] = Leave("nap", 0, 0)
    BY <1>2 DEF JobsOK
  <2> HIDE DEF q
  <2>2. /\ Len(Menu_beforeSleep \o q) = 4 + 2
        /\ \A i \in 1 .. 4 + 2 :
             (Menu_beforeSleep \o q)[i] = IF i <= 4 THEN Menu_beforeSleep[i] ELSE q[i - 4]
    BY <1>4, <2>1, ConcatSteps, ZenonT(30)
  <2>3. NapPlan = Menu_beforeSleep \o q
    BY DEF NapPlan, q
  <2> QED BY <2>1, <2>2, <2>3
<1>7. /\ Len(OffPlan) = 5 /\ \A i \in 1 .. 4 : OffPlan[i] = Menu_beforeSleep[i]
      /\ OffPlan[5] = Leave("poweroff", 0, 0)
  <2> DEFINE q == <<Leave("poweroff", 0, 0)>>
  <2>1. q \in Seq(Jobs) /\ Len(q) = 1 /\ q[1] = Leave("poweroff", 0, 0)
    BY <1>2 DEF JobsOK
  <2> HIDE DEF q
  <2>2. /\ Len(Menu_beforeSleep \o q) = 4 + 1
        /\ \A i \in 1 .. 4 + 1 :
             (Menu_beforeSleep \o q)[i] = IF i <= 4 THEN Menu_beforeSleep[i] ELSE q[i - 4]
    BY <1>4, <2>1, ConcatSteps, ZenonT(30)
  <2>3. OffPlan = Menu_beforeSleep \o q
    BY DEF OffPlan, q
  <2> QED BY <2>1, <2>2, <2>3
<1>8. /\ Len(QuitPlan) = 6 /\ \A i \in 1 .. 3 : QuitPlan[i] = Menu_saveState[i]
      /\ QuitPlan[4] = Write(Sav) /\ QuitPlan[5] = Write(Rtc)
      /\ QuitPlan[6] = Leave("minui", 0, 0)
  <2> DEFINE q == <<Write(Sav), Write(Rtc), Leave("minui", 0, 0)>>
  <2>1. /\ q \in Seq(Jobs) /\ Len(q) = 3
        /\ q[1] = Write(Sav) /\ q[2] = Write(Rtc) /\ q[3] = Leave("minui", 0, 0)
    BY <1>1 DEF JobsOK
  <2> HIDE DEF q
  <2>2. /\ Len(Menu_saveState \o q) = 3 + 3
        /\ \A i \in 1 .. 3 + 3 :
             (Menu_saveState \o q)[i] = IF i <= 3 THEN Menu_saveState[i] ELSE q[i - 3]
    BY <1>5, <2>1, ConcatSteps, ZenonT(30)
  <2>3. QuitPlan = Menu_saveState \o q
    BY DEF QuitPlan, q
  <2> QED BY <2>1, <2>2, <2>3
<1> QED BY <1>3, <1>4, <1>5, <1>6, <1>7, <1>8 DEF JobsOK

LEMMA NapSteps ==
    ASSUME TypeOK, JobsOK(plan), plan # <<>>, Ends(plan, NapPlan)
    PROVE  /\ Len(plan) \in 1 .. 6
           /\ Len(plan) = 6 => Head(plan) = Write(Sav)
           /\ Len(plan) = 5 => Head(plan) = Write(Rtc)
           /\ Len(plan) = 4 => Head(plan) = Write(St(AUTO_RESUME_SLOT))
           /\ Len(plan) = 3 => Head(plan) = putFile(AutoResume, drive)
           /\ Len(plan) = 2 => Head(plan) = sync
           /\ Len(plan) = 1 => Head(plan) = Leave("nap", 0, 0)
           /\ Len(Tail(plan)) = Len(plan) - 1 /\ Ends(Tail(plan), NapPlan)
<1>1. /\ Len(plan) \in 1 .. 6 /\ Head(plan) = NapPlan[6 - Len(plan) + 1]
      /\ Len(Tail(plan)) = Len(plan) - 1 /\ Ends(Tail(plan), NapPlan)
  BY PlanTables, EndsTail DEF JobsOK
<1>3. /\ NapPlan[6 - 6 + 1] = NapPlan[1]
      /\ NapPlan[6 - 5 + 1] = NapPlan[2]
      /\ NapPlan[6 - 4 + 1] = NapPlan[3]
      /\ NapPlan[6 - 3 + 1] = NapPlan[4]
      /\ NapPlan[6 - 2 + 1] = NapPlan[5]
      /\ NapPlan[6 - 1 + 1] = NapPlan[6]
  OBVIOUS
<1>4. Len(plan) \in {1, 2, 3, 4, 5, 6}
  BY <1>1, SMTT(30)
<1> QED BY <1>1, <1>3, <1>4, PlanTables

LEMMA OffSteps ==
    ASSUME TypeOK, JobsOK(plan), plan # <<>>, Ends(plan, OffPlan)
    PROVE  /\ Len(plan) \in 1 .. 5
           /\ Len(plan) = 5 => Head(plan) = Write(Sav)
           /\ Len(plan) = 4 => Head(plan) = Write(Rtc)
           /\ Len(plan) = 3 => Head(plan) = Write(St(AUTO_RESUME_SLOT))
           /\ Len(plan) = 2 => Head(plan) = putFile(AutoResume, drive)
           /\ Len(plan) = 1 => Head(plan) = Leave("poweroff", 0, 0)
           /\ Len(Tail(plan)) = Len(plan) - 1 /\ Ends(Tail(plan), OffPlan)
<1>1. /\ Len(plan) \in 1 .. 5 /\ Head(plan) = OffPlan[5 - Len(plan) + 1]
      /\ Len(Tail(plan)) = Len(plan) - 1 /\ Ends(Tail(plan), OffPlan)
  BY PlanTables, EndsTail DEF JobsOK
<1>3. /\ OffPlan[5 - 5 + 1] = OffPlan[1]
      /\ OffPlan[5 - 4 + 1] = OffPlan[2]
      /\ OffPlan[5 - 3 + 1] = OffPlan[3]
      /\ OffPlan[5 - 2 + 1] = OffPlan[4]
      /\ OffPlan[5 - 1 + 1] = OffPlan[5]
  OBVIOUS
<1>4. Len(plan) \in {1, 2, 3, 4, 5}
  BY <1>1
<1> QED BY <1>1, <1>3, <1>4, PlanTables

LEMMA QuitSteps ==
    ASSUME TypeOK, JobsOK(plan), plan # <<>>, Ends(plan, QuitPlan)
    PROVE  /\ Len(plan) \in 1 .. 6
           /\ Len(plan) = 6 => Head(plan) = Write(St(menu.slot))
           /\ Len(plan) = 5 => Head(plan) = putFile(DiscTxt(menu.slot), menu.disc)
           /\ Len(plan) = 4 => Head(plan) = putFile(SlotTxt, menu.slot)
           /\ Len(plan) = 3 => Head(plan) = Write(Sav)
           /\ Len(plan) = 2 => Head(plan) = Write(Rtc)
           /\ Len(plan) = 1 => Head(plan) = Leave("minui", 0, 0)
           /\ Len(Tail(plan)) = Len(plan) - 1 /\ Ends(Tail(plan), QuitPlan)
           /\ Len(plan) = 6 => LET rest == SubSeq(plan, 4, Len(plan))
                               IN  Len(rest) = 3 /\ Ends(rest, QuitPlan)
<1>1. /\ Len(plan) \in 1 .. 6 /\ Head(plan) = QuitPlan[6 - Len(plan) + 1]
      /\ Len(Tail(plan)) = Len(plan) - 1 /\ Ends(Tail(plan), QuitPlan)
  BY PlanTables, EndsTail DEF JobsOK
<1>2. ASSUME Len(plan) = 6
      PROVE  LET rest == SubSeq(plan, 4, Len(plan))
             IN  Len(rest) = 3 /\ Ends(rest, QuitPlan)
  <2>1. \A i \in 4 .. 6 : plan[i] \in Jobs
    <3>1. plan \in Seq(Jobs) /\ \A i \in 4 .. 6 : i \in 1 .. Len(plan)
      BY <1>2 DEF JobsOK
    <3> QED BY <3>1, ElementOfSeq
  <2>2. /\ Len(SubSeq(plan, 4, 6)) = 3
        /\ \A i \in 1 .. 3 : SubSeq(plan, 4, 6)[i] = plan[4 + i - 1]
    BY <1>2, <2>1, SubSeqProperties DEF JobsOK
  <2>3. \A i \in 1 .. 6 : plan[i] = QuitPlan[6 - 6 + i]
    BY <1>2, PlanTables DEF Ends
  <2>4. \A i \in 1 .. 3 : SubSeq(plan, 4, 6)[i] = QuitPlan[6 - 3 + i]
    BY <2>2, <2>3
  <2>5. Ends(SubSeq(plan, 4, 6), QuitPlan)
    <3>1. Len(QuitPlan) = 6 /\ Len(SubSeq(plan, 4, 6)) = 3 /\ 3 \in 0 .. 6
      BY <2>2, PlanTables
    <3> QED BY <2>4, <3>1 DEF Ends
  <2> QED BY <1>2, <2>2, <2>5
<1>3. /\ QuitPlan[6 - 6 + 1] = QuitPlan[1]
      /\ QuitPlan[6 - 5 + 1] = QuitPlan[2]
      /\ QuitPlan[6 - 4 + 1] = QuitPlan[3]
      /\ QuitPlan[6 - 3 + 1] = QuitPlan[4]
      /\ QuitPlan[6 - 2 + 1] = QuitPlan[5]
      /\ QuitPlan[6 - 1 + 1] = QuitPlan[6]
  OBVIOUS
<1>4. Len(plan) \in {1, 2, 3, 4, 5, 6}
  BY <1>1, SMTT(30)
<1> QED BY <1>1, <1>2, <1>3, <1>4, PlanTables

-----------------------------------------------------------------------------
(* Where in its plan a handler is when it writes a save. *)
SleepWrite(n) ==
    \/ n = 6 /\ Target = Sav
    \/ n = 5 /\ Target = Rtc /\ BatteryDone
    \/ n = 4 /\ Target = St(AUTO_RESUME_SLOT) /\ BatteryDone

QuitWrite ==
    \/ Len(plan) = 6 /\ Forgets(Target)
    \/ Len(plan) = 3 /\ Target = Sav
    \/ Len(plan) = 2 /\ Target = Rtc /\ BatteryDone

LEMMA WriteWhere ==
    ASSUME SavesInv, StopInv, Doing("write")
    PROVE  /\ InGame /\ awake /\ Target \in Written
           /\ \/ Ends(plan, NapPlan) /\ SleepWrite(Len(plan))
              \/ Ends(plan, OffPlan) /\ SleepWrite(Len(plan) + 1)
              \/ Ends(plan, QuitPlan) /\ QuitWrite
              \/ LooseInv
<1>0. /\ TypeOK /\ JobsOK(plan) /\ awake /\ plan # <<>> /\ Head(plan).do = "write"
      /\ Target \in Written
  BY PlanParts DEF SavesInv, CardInv, Doing, JobOK, Target
<1>1. /\ putFile(AutoResume, drive).do = "put" /\ sync.do = "sync"
      /\ \A how \in {"nap", "poweroff", "minui"} : Leave(how, 0, 0).do = how
      /\ \A f : Write(f).file = f
      /\ \A f, n : putFile(f, n).do = "put"
  BY DEF putFile, sync, Leave, Write
<1>2. CASE NapInv
  <2>1. Len(plan) \in {4, 5, 6}
    BY <1>0, <1>1, <1>2, NapSteps, SMTT(30) DEF NapInv
  <2> QED BY <1>0, <1>1, <1>2, <2>1, NapSteps DEF NapInv, SleepDone, SleepWrite, Target
<1>3. CASE OffInv
  <2>1. Len(plan) \in {3, 4, 5}
    BY <1>0, <1>1, <1>3, OffSteps, SMTT(30) DEF OffInv
  <2> QED BY <1>0, <1>1, <1>3, <2>1, OffSteps, SMTT(30) DEF OffInv, SleepDone, SleepWrite, Target
<1>4. CASE QuitInv
  <2>0. menu.slot \in Slots
    <3>1. menu \in [slot : Slots, disc : Discs, rom : Discs]
      BY <1>0 DEF TypeOK
    <3> QED BY <3>1
  <2>1. Len(plan) \in {2, 3, 6}
    <3>0. Ends(plan, QuitPlan)
      BY <1>4 DEF QuitInv
    <3>1. Len(plan) \in 1 .. 6 /\ Len(plan) # 1 /\ Len(plan) # 4 /\ Len(plan) # 5
      <4>1. /\ Len(plan) \in 1 .. 6
            /\ Len(plan) = 1 => Head(plan) = Leave("minui", 0, 0)
            /\ Len(plan) = 4 => Head(plan) = putFile(SlotTxt, menu.slot)
            /\ Len(plan) = 5 => Head(plan) = putFile(DiscTxt(menu.slot), menu.disc)
        BY <1>0, <3>0, QuitSteps
      <4> QED BY <1>0, <1>1, <4>1
    <3> QED BY <3>1
  <2> QED BY <1>0, <1>1, <1>4, <2>0, <2>1, QuitSteps, ForgetFacts
             DEF QuitInv, QuitWrite, Target
<1>5. CASE LaunchInv
  BY <1>0, <1>5, OnlyParts DEF LaunchInv, JobsOK
<1> QED BY <1>0, <1>2, <1>3, <1>4, <1>5 DEF StopInv, LooseInv, NapInv, OffInv, QuitInv

(* The plans themselves do not change while the disc and the menu do not. *)
LEMMA SamePlans ==
    /\ UNCHANGED drive => NapPlan' = NapPlan /\ OffPlan' = OffPlan
    /\ UNCHANGED menu => QuitPlan' = QuitPlan
BY DEF NapPlan, OffPlan, QuitPlan, Menu_beforeSleep, Menu_saveState

LEMMA FilesApart ==
    /\ Sav # Rtc /\ Sav # St(AUTO_RESUME_SLOT) /\ Sav # AutoResume /\ Sav # SlotTxt
    /\ St(AUTO_RESUME_SLOT) # AutoResume
    /\ Sav[1] = "sav" /\ St(AUTO_RESUME_SLOT)[1] = "st"
    /\ \A f : Forgets(f) => f # Sav /\ f # St(AUTO_RESUME_SLOT)
    /\ {Sav, Rtc, St(AUTO_RESUME_SLOT), AutoResume, SlotTxt} \subseteq Files
BY FileFacts DEF Sav, Rtc, St, AutoResume, SlotTxt, Forgets

(* Few steps left, and what that says. *)
LEMMA FewLeft ==
    /\ \A n \in {4, 5, 6} : /\ n <= 5 => n # 6
                            /\ ~(n <= 3) /\ ~(n <= 2) /\ ~(n <= 1)
                            /\ n - 1 <= 3 => n = 4
                            /\ ~(n - 1 <= 2) /\ ~(n - 1 <= 1)
    /\ \A n \in {3, 4, 5} : /\ n - 1 + 1 <= 3 => n = 3
                            /\ ~(n - 1 + 1 <= 2) /\ ~(n - 1 + 1 <= 1)
    /\ \A n \in {2, 3, 6} : n <= 2 => n = 2
    /\ \A n \in {3, 5} : ~(n <= 2)
    /\ ~(6 <= 5) /\ ~(6 <= 3) /\ ~(6 <= 2) /\ ~(6 <= 1)
    /\ \A n \in {4, 5} : ~(n - 1 <= 2)
    /\ ~(3 - 1 <= 1) /\ ~(2 - 1 + 1 <= 1) /\ 6 - 1 = 5
OBVIOUS

LEMMA OneLeft ==
    ASSUME NEW p \in Seq(Jobs), Len(p) = 1
    PROVE  Tail(p) = <<>>
<1>1. p # <<>>
  BY EmptySeq
<1>2. Tail(p) \in Seq(Jobs) /\ Len(Tail(p)) = 0
  BY <1>1, HeadTailProperties
<1> QED BY <1>2, EmptySeq

LEMMA FewSteps ==
    /\ \A n \in {1, 2, 3} : n <= 5 /\ n <= 3
    /\ \A n \in {1, 2} : n <= 2 /\ n + 1 <= 5 /\ n + 1 <= 3
    /\ 1 <= 1 /\ 1 + 1 <= 2 /\ 1 <= 2
OBVIOUS

(* A write on its way leaves the plan alone, and every file but its own. *)
LEMMA WritingStop ==
    ASSUME SavesInv, StopInv, SavesInv', WriteInv', Doing("write"),
           UNCHANGED <<stage, awake, plan, offers, mem, drive, menu>>,
           faults' = 0 => faults = 0,
           \A f \in Files : f # Target => cache'[f] = cache[f]
    PROVE  StopInv'
<1>0. plan \in Seq(Jobs) /\ Len(plan) \in Nat
  BY DEF SavesInv, CardInv, JobsOK
<1>1. /\ InGame' /\ awake' /\ stage' \notin {"off", "load", "minui"}
      /\ (Target # Sav /\ BatteryDone => BatteryDone')
  BY WriteWhere, FilesApart DEF InGame, BatteryDone
<1>2. CASE Ends(plan, NapPlan) /\ SleepWrite(Len(plan))
  <2>1. Ends(plan, NapPlan)'
    BY <1>2, SamePlans
  <2>2. /\ Len(plan') = Len(plan) /\ Len(plan) \in {4, 5, 6}
        /\ Len(plan) # 6 => BatteryDone'
    BY <1>1, <1>2, FilesApart DEF SleepWrite
  <2>3. SleepDone(Len(plan))'
    BY <2>2, FewLeft DEF SleepDone
  <2> QED BY <1>1, <2>1, <2>3 DEF StopInv, NapInv
<1>3. CASE Ends(plan, OffPlan) /\ SleepWrite(Len(plan) + 1)
  <2>1. Ends(plan, OffPlan)'
    BY <1>3, SamePlans
  <2>2. SleepDone(Len(plan) + 1)'
    BY <1>1, <1>3, FilesApart DEF SleepWrite, SleepDone
  <2> QED BY <1>1, <2>1, <2>2 DEF StopInv, OffInv
<1>4. CASE Ends(plan, QuitPlan) /\ QuitWrite
  <2>1. Ends(plan, QuitPlan)'
    BY <1>4, SamePlans
  <2>2. /\ Len(plan') = Len(plan) /\ Len(plan) \in {2, 3, 6}
        /\ Len(plan) = 2 => BatteryDone'
    BY <1>1, <1>4, FilesApart DEF QuitWrite
  <2>3. Len(plan') <= 2 => BatteryDone'
    BY <2>2, FewLeft
  <2> QED BY <1>1, <2>1, <2>3 DEF StopInv, QuitInv
<1>5. CASE LooseInv
  BY <1>1, <1>5 DEF StopInv, LooseInv
<1> QED BY <1>2, <1>3, <1>4, <1>5, WriteWhere

(* A write that is over: what it left behind, if nothing has failed. *)
LEMMA WrittenStop ==
    ASSUME SavesInv, StopInv, SavesInv', Doing("write"),
           NEW won \in BOOLEAN, AfterWrite(won),
           UNCHANGED <<stage, awake, offers, mem, drive, menu, cache>>,
           faults' = 0 => /\ faults = 0
                          /\ Target[1] \in offers => won /\ cache[Target] = Contents,
           won => Target[1] \in offers
    PROVE  StopInv'
<1>0. /\ TypeOK /\ JobsOK(plan) /\ plan # <<>> /\ plan \in Seq(Jobs)
      /\ plan' \in Seq(Jobs) /\ Len(plan) \in Nat /\ Len(plan') \in Nat
  BY DEF SavesInv, CardInv, Doing, JobsOK
<1>1. /\ InGame' /\ awake' /\ stage' \notin {"off", "load", "minui"} /\ WriteInv'
      /\ (BatteryDone => BatteryDone') /\ (Target = Sav => BatteryDone')
  <2>1. Target = Sav => BatteryDone'
    BY FilesApart DEF BatteryDone, Contents
  <2> QED BY <2>1, WriteWhere DEF InGame, BatteryDone, WriteInv, AfterWrite
<1>2. ~Forgets(Target) => plan' = Tail(plan)
  BY DEF AfterWrite
<1>7. Target = St(AUTO_RESUME_SLOT) => StateDone'
  <2> SUFFICES ASSUME Target = St(AUTO_RESUME_SLOT) PROVE StateDone'
    OBVIOUS
  <2>1. Contents = <<mem, drive>> /\ Target[1] = "st"
    BY FilesApart DEF Contents
  <2>2. quick' = (won /\ cache[Target] = Contents)
    BY DEF AfterWrite
  <2> QED BY <2>1, <2>2 DEF StateDone
<1>3. CASE Ends(plan, NapPlan) /\ SleepWrite(Len(plan))
  <2>1. /\ plan' = Tail(plan) /\ Len(plan') = Len(plan) - 1 /\ Ends(plan, NapPlan)'
    BY <1>0, <1>2, <1>3, NapSteps, SamePlans, ForgetFacts DEF SleepWrite
  <2>3. /\ Len(plan) \in {4, 5, 6} /\ BatteryDone'
        /\ Len(plan) = 4 => StateDone'
    BY <1>1, <1>3, <1>7 DEF SleepWrite
  <2>4. SleepDone(Len(plan))'
    BY <2>1, <2>3, FewLeft DEF SleepDone
  <2> QED BY <1>1, <2>1, <2>4 DEF StopInv, NapInv
<1>4. CASE Ends(plan, OffPlan) /\ SleepWrite(Len(plan) + 1)
  <2>0. ~Forgets(Target)
    BY <1>4, ForgetFacts DEF SleepWrite
  <2>1. /\ plan' = Tail(plan) /\ Len(plan') = Len(plan) - 1 /\ Ends(plan, OffPlan)'
        /\ Len(plan) \in Nat
    <3>1. plan' = Tail(plan) /\ OffPlan' = OffPlan
      BY <1>2, <2>0, SamePlans
    <3>2. Len(Tail(plan)) = Len(plan) - 1 /\ Ends(Tail(plan), OffPlan)
      BY <1>0, <1>4, OffSteps
    <3> QED BY <1>0, <3>1, <3>2
  <2>3. /\ Len(plan) \in {3, 4, 5} /\ BatteryDone'
        /\ Len(plan) = 3 => StateDone'
    BY <1>0, <1>1, <1>4, <1>7, <2>1 DEF SleepWrite
  <2>4. SleepDone(Len(plan) + 1)'
    BY <2>1, <2>3, FewLeft DEF SleepDone
  <2> QED BY <1>1, <2>1, <2>4 DEF StopInv, OffInv
<1>5. CASE Ends(plan, QuitPlan) /\ QuitWrite
  <2>1. \/ plan' = Tail(plan) /\ Len(plan') = Len(plan) - 1 /\ Ends(plan, QuitPlan)'
        \/ Len(plan) = 6 /\ Len(plan') = 3 /\ Ends(plan, QuitPlan)'
    BY <1>0, <1>5, QuitSteps, SamePlans, ForgetFacts DEF QuitWrite, AfterWrite
  <2>2. \/ Len(plan) = 6 /\ Len(plan') \in {3, 5}
        \/ BatteryDone'
    BY <1>1, <1>5, <2>1, FewLeft DEF QuitWrite
  <2>3. Len(plan') <= 2 => BatteryDone'
    BY <2>2, FewLeft
  <2> QED BY <1>1, <2>1, <2>3 DEF StopInv, QuitInv
<1>6. CASE LooseInv
  <2>1. Only(plan', {"write", "put", "unlink", "sync"})
    BY <1>0, <1>6, OnlyParts DEF LooseInv, AfterWrite
  <2> QED BY <1>1, <2>1 DEF StopInv, LooseInv
<1> QED BY <1>3, <1>4, <1>5, <1>6, WriteWhere

LEMMA StopWrites ==
    ASSUME SavesInv, SavesInv', StopInv,
           WriteNothing \/ WriteOpen \/ WriteFill \/ WriteRename \/ WriteSync
    PROVE  StopInv'
<1> USE DEF game, card, ghost, bounds
<1>0. /\ Doing("write") /\ WriteInv /\ faults \in Nat /\ good \in BOOLEAN
      /\ (phase # "start" => Target[1] \in offers)
      /\ Target \in Files /\ cache \in [Files -> Int \X Int]
  <2>1. faults \in Nat
    BY SavesAssumption DEF SavesAssumption, SavesInv, TypeOK
  <2>2. Doing("write")
    BY DEF WriteNothing, WriteOpen, WriteFill, WriteRename, WriteSync
  <2>3. Target \in Files
    BY <2>2, WriteWhere, FileFacts
  <2> QED BY <2>1, <2>2, <2>3 DEF SavesInv, TypeOK, StopInv
<1>1. CASE WriteNothing
  <2>1. /\ AfterWrite(FALSE) /\ Target[1] \notin offers
        /\ UNCHANGED <<stage, awake, offers, mem, drive, menu, cache, faults>>
    BY <1>1 DEF WriteNothing
  <2> QED BY <1>0, <2>1, WrittenStop
<1>2. CASE WriteOpen
  <2>1. /\ phase = "start" /\ UNCHANGED <<stage, awake, offers, mem, drive, menu, cache>>
        /\ \/ phase' = "opened" /\ UNCHANGED <<plan, good, faults>>
           \/ faults' = faults + 1 /\ phase' = "sync" /\ UNCHANGED plan
           \/ faults' = faults + 1 /\ AfterWrite(FALSE)
    BY <1>2 DEF WriteOpen
  <2>2. faults' = faults + 1 => faults' # 0
    BY <1>0
  <2>3. CASE phase' = "opened" /\ UNCHANGED <<plan, good, faults>>
    <3>1. WriteInv'
      BY <1>0, <2>1, <2>3 DEF WriteInv
    <3> QED BY <1>0, <2>1, <2>3, <3>1, WritingStop
  <2>4. CASE faults' = faults + 1 /\ phase' = "sync" /\ UNCHANGED plan
    <3>1. WriteInv'
      BY <2>2, <2>4 DEF WriteInv
    <3> QED BY <1>0, <2>1, <2>2, <2>4, <3>1, WritingStop
  <2>5. CASE faults' = faults + 1 /\ AfterWrite(FALSE)
    BY <1>0, <2>1, <2>2, <2>5, WrittenStop
  <2> QED BY <2>1, <2>3, <2>4, <2>5
<1>3. CASE WriteFill
  <2>1. /\ phase = "opened"
        /\ UNCHANGED <<stage, awake, plan, offers, mem, drive, menu, cache>>
        /\ \/ phase' = "filled" /\ UNCHANGED <<good, faults>>
           \/ faults' = faults + 1 /\ phase' \in {"sync", "short"}
    BY <1>3 DEF WriteFill
  <2>2. faults' = faults + 1 => faults' # 0
    BY <1>0
  <2>3. WriteInv' /\ (faults' = 0 => faults = 0)
    BY <1>0, <2>1, <2>2 DEF WriteInv
  <2> QED BY <1>0, <2>1, <2>3, WritingStop
<1>4. CASE WriteRename
  <2>1. /\ phase \in {"filled", "short"} /\ phase' = "sync"
        /\ UNCHANGED <<stage, awake, plan, offers, mem, drive, menu>>
        /\ \/ /\ cache' = [cache EXCEPT ![Target] =
                              IF phase = "filled" THEN Contents ELSE Torn]
              /\ UNCHANGED <<good, faults>>
           \/ faults' = faults + 1 /\ UNCHANGED cache
    BY <1>4 DEF WriteRename
  <2>2. faults' = faults + 1 => faults' # 0
    BY <1>0
  <2>3. Target' = Target /\ Contents' = Contents
    BY <2>1 DEF Target, Contents
  <2>4. (faults' = 0 => faults = 0) /\ \A f \in Files : f # Target => cache'[f] = cache[f]
    BY <1>0, <2>1, <2>2
  <2>5. WriteInv'
    <3>1. CASE faults' = 0
      <4>1. UNCHANGED <<good, faults>> /\ good /\ phase = "filled"
        BY <1>0, <2>1, <2>2, <3>1 DEF WriteInv
      <4>2. cache'[Target] = Contents
        BY <1>0, <2>1, <2>2, <3>1, <4>1
      <4> QED BY <2>1, <2>3, <4>1, <4>2 DEF WriteInv
    <3>2. CASE faults' # 0
      BY <2>1, <3>2 DEF WriteInv
    <3> QED BY <3>1, <3>2
  <2> QED BY <1>0, <2>1, <2>4, <2>5, WritingStop
<1>5. CASE WriteSync
  <2>1. /\ phase = "sync" /\ AfterWrite(good)
        /\ UNCHANGED <<stage, awake, offers, mem, drive, menu, cache, faults>>
    BY <1>5 DEF WriteSync
  <2>2. faults = 0 => good /\ cache[Target] = Contents
    BY <1>0, <2>1 DEF WriteInv
  <2> QED BY <1>0, <2>1, <2>2, WrittenStop
<1> QED BY <1>1, <1>2, <1>3, <1>4, <1>5

(* Where a handler is at its other steps. *)
LEMMA HeadWhere ==
    ASSUME SavesInv, StopInv, plan # <<>>
    PROVE  /\ awake /\ stage \notin {"off", "load"}
           /\ Head(plan).do = "put" =>
                 \/ /\ Ends(plan, NapPlan) /\ Len(plan) = 3 /\ BatteryDone /\ StateDone
                    /\ Head(plan) = putFile(AutoResume, drive) /\ InGame
                 \/ /\ Ends(plan, OffPlan) /\ Len(plan) = 2 /\ BatteryDone /\ StateDone
                    /\ Head(plan) = putFile(AutoResume, drive) /\ InGame
                 \/ Ends(plan, QuitPlan) /\ Len(plan) \in {4, 5} /\ InGame
                 \/ LooseInv
           /\ Head(plan).do = "sync" =>
                 \/ /\ Ends(plan, NapPlan) /\ Len(plan) = 2 /\ InGame
                    /\ BatteryDone /\ StateDone /\ MarkerDone
                 \/ LaunchInv \/ LooseInv
           /\ Head(plan).do = "unlink" => LaunchInv \/ LooseInv
           /\ Head(plan).do = "launch" => LaunchInv
           /\ Head(plan).do = "minui" => /\ Ends(plan, QuitPlan) /\ Len(plan) = 1 /\ InGame
                                         /\ BatteryDone
           /\ Head(plan).do = "nap" => /\ Ends(plan, NapPlan) /\ Len(plan) = 1 /\ InGame
                                       /\ BatteryDone /\ StateDone /\ MarkerDone
                                       /\ disk = cache
           /\ Head(plan).do = "poweroff" =>
                 /\ Ends(plan, OffPlan) /\ Len(plan) = 1 /\ InGame
                 /\ BatteryDone /\ StateDone /\ MarkerDone
<1>0. TypeOK /\ JobsOK(plan) /\ plan \in Seq(Jobs) /\ awake /\ stage \notin {"off", "load"}
  BY DEF SavesInv, CardInv, JobsOK, StopInv
<1>1. /\ \A f : Write(f).do = "write"
      /\ \A f, n : putFile(f, n).do = "put"
      /\ sync.do = "sync"
      /\ \A how \in {"nap", "poweroff", "minui"} : Leave(how, 0, 0).do = how
  BY DEF putFile, sync, Leave, Write
<1>2. CASE NapInv
  <2>1. Len(plan) \in {1, 2, 3, 4, 5, 6}
    <3>1. Len(plan) \in 1 .. 6
      BY <1>0, <1>2, NapSteps DEF NapInv
    <3> QED BY <3>1
  <2>2. /\ Len(plan) \in {4, 5, 6} => Head(plan).do = "write"
        /\ Len(plan) = 3 => Head(plan).do = "put" /\ Head(plan) = putFile(AutoResume, drive)
        /\ Len(plan) = 2 => Head(plan).do = "sync"
        /\ Len(plan) = 1 => Head(plan).do = "nap"
    BY <1>0, <1>1, <1>2, NapSteps DEF NapInv
  <2>3. /\ Len(plan) \in {1, 2, 3} => BatteryDone /\ StateDone
        /\ Len(plan) \in {1, 2} => MarkerDone
        /\ Len(plan) = 1 => disk = cache
    BY <1>2, FewSteps DEF NapInv, SleepDone
  <2> QED BY <1>0, <1>2, <2>1, <2>2, <2>3 DEF NapInv
<1>3. CASE OffInv
  <2>1. Len(plan) \in {1, 2, 3, 4, 5}
    BY <1>0, <1>3, OffSteps, SMTT(30) DEF OffInv
  <2>2. /\ Len(plan) \in {3, 4, 5} => Head(plan).do = "write"
        /\ Len(plan) = 2 => Head(plan).do = "put" /\ Head(plan) = putFile(AutoResume, drive)
        /\ Len(plan) = 1 => Head(plan).do = "poweroff"
    BY <1>0, <1>1, <1>3, OffSteps DEF OffInv
  <2>3. /\ Len(plan) \in {1, 2} => BatteryDone /\ StateDone
        /\ Len(plan) = 1 => MarkerDone
    BY <1>3, FewSteps DEF OffInv, SleepDone
  <2> QED BY <1>0, <1>3, <2>1, <2>2, <2>3 DEF OffInv
<1>4. CASE QuitInv
  <2>1. Len(plan) \in {1, 2, 3, 4, 5, 6}
    <3>1. Len(plan) \in 1 .. 6
      BY <1>0, <1>4, QuitSteps DEF QuitInv
    <3> QED BY <3>1
  <2>2. /\ Len(plan) \in {2, 3, 6} => Head(plan).do = "write"
        /\ Len(plan) \in {4, 5} => Head(plan).do = "put"
        /\ Len(plan) = 1 => Head(plan).do = "minui"
    BY <1>0, <1>1, <1>4, QuitSteps DEF QuitInv
  <2>3. Len(plan) = 1 => BatteryDone
    BY <1>4, FewSteps DEF QuitInv
  <2> QED BY <1>0, <1>4, <2>1, <2>2, <2>3 DEF QuitInv
<1>5. CASE LaunchInv
  BY <1>0, <1>5, OnlyParts DEF LaunchInv
<1>6. CASE LooseInv
  BY <1>0, <1>6, OnlyParts DEF LooseInv
<1> QED BY <1>2, <1>3, <1>4, <1>5, <1>6 DEF StopInv

(* A note put on the card. *)
LEMMA PutStop ==
    ASSUME SavesInv, SavesInv', StopInv, PutFile
    PROVE  StopInv'
<1>0. /\ TypeOK /\ JobsOK(plan) /\ plan # <<>> /\ Head(plan).do = "put" /\ awake
      /\ plan \in Seq(Jobs) /\ cache \in [Files -> Int \X Int] /\ faults \in Nat
      /\ Target \in Files /\ Target \in Noted
  <2>1. TypeOK /\ JobsOK(plan) /\ plan # <<>> /\ Head(plan).do = "put" /\ awake
    BY DEF SavesInv, CardInv, PutFile, Doing
  <2>2. faults \in Nat
    BY <2>1, SavesAssumption DEF SavesAssumption, TypeOK
  <2>3. Target \in Noted
    BY <2>1, PlanParts DEF JobOK, NoteOK, Target
  <2> QED BY <2>1, <2>2, <2>3, FileFacts DEF JobsOK, TypeOK
<1>1. /\ plan' = Tail(plan) /\ phase' = "start" /\ good' = TRUE
      /\ UNCHANGED <<stage, awake, offers, mem, drive, menu>>
  BY DEF PutFile, Next1, game
<1>2. \/ /\ cache' = [cache EXCEPT ![Target] = Head(plan).val]
         /\ UNCHANGED <<quick, faults>>
      \/ /\ faults' = faults + 1 /\ quick' = (quick /\ Target # AutoResume)
         /\ \E v : cache' = [cache EXCEPT ![Target] = v]
  BY DEF PutFile
<1>3. faults' = faults + 1 => faults' # 0
  BY <1>0
<1>4. /\ faults' = 0 => faults = 0 /\ UNCHANGED quick
      /\ \A f \in Files : f # Target => cache'[f] = cache[f]
  BY <1>0, <1>2, <1>3
<1>5. WriteInv'
  BY <1>1 DEF WriteInv
<1>6. /\ cache'[Sav] = cache[Sav]
      /\ cache'[St(AUTO_RESUME_SLOT)] = cache[St(AUTO_RESUME_SLOT)]
  BY <1>0, <1>4, FileFacts, FilesApart
<1>7. BatteryDone => BatteryDone'
  BY <1>1, <1>4, <1>6 DEF BatteryDone
<1>8. StateDone => StateDone'
  <2>1. quick' => quick
    BY <1>2
  <2> QED BY <1>1, <1>4, <1>6, <2>1 DEF StateDone
<1>9. Head(plan) = putFile(AutoResume, drive) => MarkerDone'
  <2> SUFFICES ASSUME Head(plan) = putFile(AutoResume, drive) PROVE MarkerDone'
    OBVIOUS
  <2>1. Target = AutoResume /\ Head(plan).val = <<drive, 0>>
    BY DEF Target, putFile
  <2>2. CASE /\ cache' = [cache EXCEPT ![Target] = Head(plan).val]
             /\ UNCHANGED <<quick, faults>>
    <3>1. cache'[AutoResume] = <<drive, 0>>
      BY <1>0, <2>1, <2>2
    <3> QED BY <1>1, <3>1 DEF MarkerDone
  <2>3. CASE faults' = faults + 1 /\ quick' = (quick /\ Target # AutoResume)
    BY <1>3, <2>1, <2>3 DEF MarkerDone
  <2> QED BY <1>2, <2>2, <2>3
<1>10. stage' \notin {"off", "load"} /\ awake' /\ (stage' = "minui" => ~InGame)
  BY <1>0, <1>1, HeadWhere DEF InGame
<1>11. CASE /\ Ends(plan, NapPlan) /\ Len(plan) = 3 /\ BatteryDone /\ StateDone
            /\ Head(plan) = putFile(AutoResume, drive) /\ InGame
  <2>1. Len(plan') = 3 - 1 /\ Ends(plan, NapPlan)'
    BY <1>0, <1>1, <1>11, NapSteps, SamePlans
  <2>2. SleepDone(Len(plan))'
    BY <1>7, <1>8, <1>9, <1>11, <2>1, FewLeft DEF SleepDone
  <2> QED BY <1>1, <1>5, <1>10, <1>11, <2>1, <2>2 DEF StopInv, NapInv, InGame
<1>12. CASE /\ Ends(plan, OffPlan) /\ Len(plan) = 2 /\ BatteryDone /\ StateDone
            /\ Head(plan) = putFile(AutoResume, drive) /\ InGame
  <2>1. Len(plan') = 2 - 1 /\ Ends(plan, OffPlan)'
    BY <1>0, <1>1, <1>12, OffSteps, SamePlans
  <2>2. SleepDone(Len(plan) + 1)'
    BY <1>7, <1>8, <1>9, <1>12, <2>1, FewLeft DEF SleepDone
  <2> QED BY <1>1, <1>5, <1>10, <1>12, <2>1, <2>2 DEF StopInv, OffInv, InGame
<1>13. CASE Ends(plan, QuitPlan) /\ Len(plan) \in {4, 5} /\ InGame
  <2>1. Len(plan') = Len(plan) - 1 /\ Ends(plan, QuitPlan)'
    BY <1>0, <1>1, <1>13, QuitSteps, SamePlans
  <2>2. ~(Len(plan') <= 2)
    BY <1>13, <2>1, FewLeft
  <2> QED BY <1>1, <1>5, <1>10, <1>13, <2>1, <2>2 DEF StopInv, QuitInv, InGame
<1>14. CASE LooseInv
  <2>1. Only(plan', {"write", "put", "unlink", "sync"})
    BY <1>0, <1>1, <1>14, OnlyParts DEF LooseInv
  <2> QED BY <1>1, <1>5, <1>10, <1>14, <2>1 DEF StopInv, LooseInv, InGame
<1> QED BY <1>0, <1>11, <1>12, <1>13, <1>14, HeadWhere

(* The marker taken away, and a sync outside a write. *)
LEMMA UnlinkSyncStop ==
    ASSUME SavesInv, SavesInv', StopInv, Unlink \/ Sync
    PROVE  StopInv'
<1>0. /\ TypeOK /\ JobsOK(plan) /\ plan # <<>> /\ awake
      /\ plan \in Seq(Jobs) /\ cache \in [Files -> Int \X Int]
  BY DEF SavesInv, CardInv, Unlink, Sync, Doing, JobsOK, TypeOK
<1>1. /\ plan' = Tail(plan) /\ phase' = "start" /\ good' = TRUE
      /\ UNCHANGED <<stage, awake, offers, mem, drive, menu, quick, faults>>
  BY DEF Unlink, Sync, Next1, game, bounds, ghost
<1>2. /\ cache'[Sav] = cache[Sav]
      /\ BatteryDone => BatteryDone'
  <2>1. cache'[Sav] = cache[Sav]
    <3>1. CASE Unlink
      <4>1. Target = AutoResume
        BY <1>0, <3>1, PlanParts DEF JobOK, Target, Unlink, Doing
      <4> QED BY <1>0, <3>1, <4>1, FilesApart DEF Unlink
    <3>2. CASE Sync
      BY <3>2 DEF Sync
    <3> QED BY <3>1, <3>2
  <2> QED BY <1>1, <2>1 DEF BatteryDone
<1>3. WriteInv' /\ stage' \notin {"off", "load"} /\ awake'
  BY <1>0, <1>1, HeadWhere DEF WriteInv
<1>4. CASE LaunchInv
  <2>1. Only(plan', {"unlink", "sync", "launch"})
    BY <1>0, <1>1, <1>4, OnlyParts DEF LaunchInv
  <2>2. LaunchInv'
    BY <1>0, <1>1, <1>4, <2>1, LaunchTail DEF LaunchInv
  <2> QED BY <1>1, <1>2, <1>3, <2>2 DEF StopInv
<1>5. CASE LooseInv
  <2>1. Only(plan', {"write", "put", "unlink", "sync"})
    BY <1>0, <1>1, <1>5, OnlyParts DEF LooseInv
  <2> QED BY <1>1, <1>3, <1>5, <2>1 DEF StopInv, LooseInv, InGame
<1>6. CASE /\ Sync /\ Ends(plan, NapPlan) /\ Len(plan) = 2 /\ InGame
           /\ BatteryDone /\ StateDone /\ MarkerDone
  <2>1. Len(plan') = 2 - 1 /\ Ends(plan, NapPlan)'
    BY <1>0, <1>1, <1>6, NapSteps, SamePlans
  <2>2. UNCHANGED cache /\ disk' = cache'
    BY <1>6 DEF Sync
  <2>3. StateDone' /\ MarkerDone'
    BY <1>1, <1>6, <2>2 DEF StateDone, MarkerDone
  <2>4. SleepDone(Len(plan))'
    BY <1>2, <1>6, <2>1, <2>2, <2>3 DEF SleepDone
  <2> QED BY <1>1, <1>3, <1>6, <2>1, <2>4 DEF StopInv, NapInv, InGame
<1> QED BY <1>0, <1>4, <1>5, <1>6, HeadWhere DEF Unlink, Sync, Doing

-----------------------------------------------------------------------------
(* The steps that end a handler. *)
LEMMA LeaveStop ==
    ASSUME SavesInv, SavesInv', StopInv, Launch \/ QuitDone \/ Nap
    PROVE  StopInv'
<1>0. /\ TypeOK /\ JobsOK(plan) /\ plan # <<>> /\ plan \in Seq(Jobs) /\ awake
      /\ Tail(plan) \in Seq(Jobs)
  <2>1. TypeOK /\ JobsOK(plan) /\ plan # <<>> /\ plan \in Seq(Jobs) /\ awake
    BY DEF SavesInv, CardInv, Launch, QuitDone, Nap, Doing, JobsOK
  <2> QED BY <2>1, PlanParts DEF JobsOK
<1>1. /\ plan' = Tail(plan) /\ phase' = "start" /\ good' = TRUE
      /\ UNCHANGED <<offers, mem, menu, cache, disk, quick, faults>>
      /\ WriteInv' /\ (BatteryDone => BatteryDone')
  <2>1. /\ plan' = Tail(plan) /\ phase' = "start" /\ good' = TRUE
        /\ UNCHANGED <<offers, mem, menu, cache, disk, quick, faults>>
    BY DEF Launch, QuitDone, Nap, Next1, game, bounds, ghost, card
  <2> QED BY <2>1 DEF WriteInv, BatteryDone
<1>2. CASE Launch
  <2>1. LaunchInv /\ Head(plan).do = "launch"
    BY <1>0, <1>2, HeadWhere DEF Launch, Doing
  <2>2. plan' = <<>> /\ stage = "minui"
    BY <1>0, <1>1, <2>1, LaunchTail DEF LaunchInv
  <2>3. stage' = "load" /\ UNCHANGED awake
    BY <1>2 DEF Launch
  <2> QED BY <1>0, <1>1, <2>2, <2>3 DEF StopInv
<1>3. CASE QuitDone
  <2>1. Len(plan) = 1 /\ BatteryDone /\ stage' = "minui" /\ UNCHANGED awake
    BY <1>0, <1>3, HeadWhere DEF QuitDone, Doing
  <2>2. plan' = <<>>
    BY <1>0, <1>1, <2>1, OneLeft
  <2> QED BY <1>0, <1>1, <2>1, <2>2 DEF StopInv
<1>4. CASE Nap
  <2>1. /\ Len(plan) = 1 /\ InGame /\ BatteryDone /\ StateDone /\ MarkerDone
        /\ disk = cache /\ UNCHANGED <<stage, drive>> /\ awake' = FALSE
    BY <1>0, <1>4, HeadWhere DEF Nap, Doing, game
  <2>2. plan' = <<>>
    BY <1>0, <1>1, <2>1, OneLeft
  <2>3. StateDone' /\ MarkerDone'
    BY <1>1, <2>1 DEF StateDone, MarkerDone
  <2>4. SleepDone(0)'
    BY <1>1, <2>1, <2>3 DEF SleepDone
  <2> QED BY <1>1, <2>1, <2>2, <2>4 DEF StopInv, InGame
<1> QED BY <1>2, <1>3, <1>4

(* Between handlers. *)
LEMMA IdleStop ==
    ASSUME SavesInv, StopInv,
           Boot \/ Load \/ LoadFails \/ Play \/ MenuTurn \/ MenuBack \/ MenuContinue
    PROVE  StopInv'
<1> USE DEF game, card, ghost, bounds, step
<1>1. plan = <<>> /\ awake
  BY DEF Boot, Load, LoadFails, Play, MenuTurn, MenuBack, MenuContinue, Idle, InMenu,
         StopInv
<1>2. phase = "start" /\ good
  BY <1>1 DEF SavesInv, TypeOK, Doing, StopInv, WriteInv
<1>3. UNCHANGED <<plan, phase, good, awake, cache, offers, faults>>
  BY DEF Boot, Load, LoadFails, Play, MenuTurn, MenuBack, MenuContinue
<1>4. WriteInv'
  BY <1>2, <1>3 DEF WriteInv
<1>5. \/ stage' \in {"play", "menu"}
      \/ stage' = "minui" /\ stage \in {"off", "load"} /\ UNCHANGED mem
  BY DEF Boot, Load, LoadFails, Play, MenuTurn, MenuBack, MenuContinue, InMenu
<1>6. (UNCHANGED mem /\ BatteryDone) => BatteryDone'
  BY <1>3 DEF BatteryDone
<1>7. stage = "off" => mem = 0 /\ ~(mem > 0)
  BY DEF StopInv
<1> QED BY <1>1, <1>3, <1>4, <1>5, <1>6, <1>7 DEF StopInv

(* A handler starts. *)
LEMMA StartStop ==
    ASSUME SavesInv, SavesInv', StopInv, NEW p, Start(p), awake',
           plan' # <<>> => NapInv' \/ OffInv' \/ QuitInv' \/ LaunchInv' \/ LooseInv',
           \/ stage' \in {"play", "menu"}
           \/ stage' = "minui" /\ UNCHANGED <<stage, mem, faults, offers, cache>>
    PROVE  StopInv'
<1>1. WriteInv'
  BY DEF Start, WriteInv
<1>2. UNCHANGED <<mem, faults, offers, cache>> => (BatteryDone => BatteryDone')
  BY DEF BatteryDone
<1> QED BY <1>1, <1>2 DEF StopInv

LEMMA OnlyTuples ==
    /\ \A a, dos : a.do \in dos => Only(<<a>>, dos) /\ LaunchLast(<<a>>)
    /\ \A a, b, dos : a.do \in dos /\ b.do \in dos => Only(<<a, b>>, dos)
    /\ \A a, b, c, dos : a.do \in dos /\ b.do \in dos /\ c.do \in dos
                            => Only(<<a, b, c>>, dos)
    /\ \A a, b : a.do # "launch" => LaunchLast(<<a, b>>)
    /\ \A a, b, c : a.do # "launch" /\ b.do # "launch" => LaunchLast(<<a, b, c>>)
BY DEF Only, LaunchLast

LEMMA Joined ==
    ASSUME NEW a, NEW b, NEW c
    PROVE  <<a, b>> \o <<c>> = <<a, b, c>>
<1> DEFINE S == {a, b, c}
           p == <<a, b>>
           q == <<c>>
           t == <<a, b, c>>
<1>1. /\ p \in Seq(S) /\ Len(p) = 2 /\ p[1] = a /\ p[2] = b
      /\ q \in Seq(S) /\ Len(q) = 1 /\ q[1] = c
      /\ t \in Seq(S) /\ Len(t) = 3 /\ t[1] = a /\ t[2] = b /\ t[3] = c
  OBVIOUS
<1> HIDE DEF S, p, q, t
<1>2. /\ p \o q \in Seq(S) /\ Len(p \o q) = Len(p) + Len(q)
      /\ \A i \in 1 .. Len(p) + Len(q) :
            (p \o q)[i] = IF i <= Len(p) THEN p[i] ELSE q[i - Len(p)]
  BY <1>1, ConcatProperties
<1>3. Len(p \o q) = 3 /\ \A i \in 1 .. 3 : (p \o q)[i] = IF i <= 2 THEN p[i] ELSE q[i - 2]
  BY <1>1, <1>2
<1>4. (p \o q)[1] = p[1] /\ (p \o q)[2] = p[2] /\ (p \o q)[3] = q[1]
  BY <1>3
<1>5. \A i \in 1 .. 3 : (p \o q)[i] = t[i]
  <2>1. \A i \in 1 .. 3 : i = 1 \/ i = 2 \/ i = 3
    OBVIOUS
  <2>2. (p \o q)[1] = t[1] /\ (p \o q)[2] = t[2] /\ (p \o q)[3] = t[3]
    BY <1>1, <1>4
  <2> QED BY <2>1, <2>2
<1>6. p \o q = t
  BY <1>1, <1>2, <1>3, <1>5, SeqEqual
<1> QED BY <1>6 DEF p, q, t

LEMMA MinuiStarts ==
    ASSUME SavesInv, SavesInv', StopInv, autoResume \/ openRom \/ openRomResume
    PROVE  StopInv'
<1>0. /\ stage = "minui" /\ awake
      /\ UNCHANGED <<stage, mem, faults, offers, cache, awake>>
  BY DEF autoResume, openRom, openRomResume, InMinui, Idle, game, card, bounds
<1>1. /\ unlink(AutoResume).do = "unlink" /\ sync.do = "sync"
      /\ \A s, d : Leave("launch", s, d).do = "launch"
  BY DEF unlink, sync, Leave
<1>2. CASE autoResume
  <2> DEFINE s == AUTO_RESUME_SLOT
             d == cache[AutoResume][1]
             p == <<unlink(AutoResume), sync>>
             q == <<unlink(AutoResume), sync, Leave("launch", s, d)>>
  <2>1. CASE Whole(cache[AutoResume])
    <3>1. Start(q)
      <4> DEFINE a == unlink(AutoResume)
                 b == sync
                 c == Leave("launch", s, d)
      <4>1. Start(<<a, b>> \o <<c>>)
        BY <1>2, <2>1 DEF autoResume
      <4>2. <<a, b>> \o <<c>> = <<a, b, c>>
        BY Joined
      <4> HIDE DEF a, b, c
      <4>3. Start(<<a, b, c>>)
        BY <4>1, <4>2
      <4> QED BY <4>3 DEF a, b, c
    <3>2. Only(q, {"unlink", "sync", "launch"}) /\ LaunchLast(q)
      BY <1>1, OnlyTuples
    <3> QED BY <1>0, <3>1, <3>2, StartStop DEF Start, LaunchInv
  <2>2. CASE ~Whole(cache[AutoResume])
    <3>1. Start(p)
      BY <1>2, <2>2 DEF autoResume
    <3>2. Only(p, {"unlink", "sync", "launch"}) /\ LaunchLast(p)
      BY <1>1, OnlyTuples
    <3> QED BY <1>0, <3>1, <3>2, StartStop DEF Start, LaunchInv
  <2> QED BY <2>1, <2>2
<1>3. CASE openRom \/ openRomResume
  <2>1. PICK s, d : Start(<<Leave("launch", s, d)>>)
    BY <1>3 DEF openRom, openRomResume
  <2> DEFINE p == <<Leave("launch", s, d)>>
  <2>2. Only(p, {"unlink", "sync", "launch"}) /\ LaunchLast(p)
    BY <1>1, OnlyTuples
  <2> QED BY <1>0, <2>1, <2>2, StartStop DEF Start, LaunchInv
<1> QED BY <1>2, <1>3

LEMMA GameStarts ==
    ASSUME SavesInv, SavesInv', StopInv,
           MenuOpen \/ SaveState \/ LoadState \/ Quit \/ PowerHeld \/ Sleep \/ Wake
    PROVE  StopInv'
<1> DEFINE dos == {"write", "put", "unlink", "sync"}
<1>0. /\ TypeOK /\ InGame /\ plan = <<>> /\ phase = "start" /\ good
      /\ stage' \in {"play", "menu"} /\ awake'
  <2>1. InGame /\ plan = <<>>
    BY DEF MenuOpen, SaveState, LoadState, Quit, PowerHeld, Sleep, Wake, Idle, InGame,
           StopInv
  <2>2. stage' \in {"play", "menu"} /\ awake'
    BY <2>1 DEF MenuOpen, SaveState, LoadState, Quit, PowerHeld, Sleep, Wake, Idle, InGame
  <2> QED BY <2>1, <2>2 DEF SavesInv, TypeOK, Doing, StopInv, WriteInv
<1>1. /\ unlink(AutoResume).do = "unlink" /\ sync.do = "sync"
      /\ \A f : Write(f).do = "write"
      /\ \A f, n : putFile(f, n).do = "put"
  BY DEF unlink, sync, Write, putFile
<1>2. CASE MenuOpen
  <2>1. Start(<<Write(Sav), Write(Rtc)>>) /\ Only(<<Write(Sav), Write(Rtc)>>, dos)
    BY <1>1, <1>2, OnlyTuples DEF MenuOpen
  <2> QED BY <1>0, <2>1, StartStop DEF Start, LooseInv, InGame
<1>3. CASE SaveState
  <2>1. Start(Menu_saveState) /\ Only(Menu_saveState, dos)
    BY <1>1, <1>3, OnlyTuples DEF SaveState, Menu_saveState
  <2> QED BY <1>0, <2>1, StartStop DEF Start, LooseInv, InGame
<1>4. CASE LoadState
  <2>1. CASE UNCHANGED step
    <3>1. WriteInv' /\ plan' = <<>>
      BY <1>0, <2>1 DEF WriteInv, step
    <3> QED BY <1>0, <3>1 DEF StopInv
  <2>2. CASE Start(<<putFile(SlotTxt, menu.slot)>>)
    <3>1. Only(<<putFile(SlotTxt, menu.slot)>>, dos)
      BY <1>1, OnlyTuples
    <3> QED BY <1>0, <2>2, <3>1, StartStop DEF Start, LooseInv, InGame
  <2> QED BY <1>4, <2>1, <2>2 DEF LoadState, step
<1>5. CASE Wake
  <2>1. Start(<<sync, unlink(AutoResume)>>) /\ Only(<<sync, unlink(AutoResume)>>, dos)
    BY <1>1, <1>5, OnlyTuples DEF Wake
  <2> QED BY <1>0, <2>1, StartStop DEF Start, LooseInv, InGame
<1>6. CASE PowerHeld \/ Sleep
  <2>1. \/ Start(NapPlan) \/ Start(OffPlan)
    BY <1>6 DEF PowerHeld, Sleep, NapPlan, OffPlan
  <2>2. NapPlan' = NapPlan /\ OffPlan' = OffPlan
    BY <1>6, SamePlans DEF PowerHeld, Sleep, game
  <2>3. CASE Start(NapPlan)
    <3>1. Ends(plan, NapPlan)' /\ Len(plan') = 6
      BY <1>0, <2>2, <2>3, PlanTables, EndsAll DEF Start
    <3>2. SleepDone(Len(plan))'
      BY <3>1, FewLeft DEF SleepDone
    <3> QED BY <1>0, <2>3, <3>1, <3>2, StartStop DEF NapInv, InGame
  <2>4. CASE Start(OffPlan)
    <3>1. Ends(plan, OffPlan)' /\ Len(plan') = 5 /\ 5 + 1 = 6
      BY <1>0, <2>2, <2>4, PlanTables, EndsAll DEF Start
    <3>2. SleepDone(Len(plan) + 1)'
      BY <3>1, FewLeft DEF SleepDone
    <3> QED BY <1>0, <2>4, <3>1, <3>2, StartStop DEF OffInv, InGame
  <2> QED BY <2>1, <2>3, <2>4
<1>7. CASE Quit
  <2> DEFINE q == <<Write(Sav), Write(Rtc), Leave("minui", 0, 0)>>
  <2>1. Start(q) \/ Start(QuitPlan)
    BY <1>7 DEF Quit, QuitPlan
  <2>2. QuitPlan' = QuitPlan /\ QuitPlan \in Seq(Jobs)
    BY <1>0, <1>7, SamePlans, PlanTables DEF Quit, game
  <2>3. Ends(q, QuitPlan) /\ Len(q) = 3
    <3>1. /\ Len(q) = 3 /\ q[1] = Write(Sav) /\ q[2] = Write(Rtc)
          /\ q[3] = Leave("minui", 0, 0)
      OBVIOUS
    <3>2. /\ Len(QuitPlan) = 6 /\ QuitPlan[4] = Write(Sav) /\ QuitPlan[5] = Write(Rtc)
          /\ QuitPlan[6] = Leave("minui", 0, 0)
      BY <1>0, PlanTables
    <3> HIDE DEF q
    <3>3. 3 \in 0 .. 6 /\ \A i \in 1 .. 3 : i \in {1, 2, 3}
      OBVIOUS
    <3>4. QuitPlan[6 - 3 + 1] = Write(Sav) /\ QuitPlan[6 - 3 + 2] = Write(Rtc)
          /\ QuitPlan[6 - 3 + 3] = Leave("minui", 0, 0)
      BY <3>2
    <3>5. \A i \in 1 .. 3 : q[i] = QuitPlan[6 - 3 + i]
      BY <3>1, <3>3, <3>4
    <3> QED BY <3>1, <3>2, <3>3, <3>5 DEF Ends
  <2>4. CASE Start(q)
    <3> HIDE DEF q
    <3>1. Ends(plan, QuitPlan)' /\ ~(Len(plan') <= 2)
      BY <2>2, <2>3, <2>4, FewLeft DEF Start
    <3> QED BY <1>0, <2>4, <3>1, StartStop DEF QuitInv, InGame
  <2>5. CASE Start(QuitPlan)
    <3>1. Ends(plan, QuitPlan)' /\ Len(plan') = 6
      BY <1>0, <2>2, <2>5, PlanTables, EndsAll DEF Start
    <3>2. ~(Len(plan') <= 2)
      BY <3>1, FewLeft
    <3> QED BY <1>0, <2>5, <3>1, <3>2, StartStop DEF QuitInv, InGame
  <2> QED BY <2>1, <2>4, <2>5
<1> QED BY <1>2, <1>3, <1>4, <1>5, <1>6, <1>7

LEMMA CardStop ==
    ASSUME SavesInv, StopInv, Writeback \/ PowerCut \/ PowerOff \/ UNCHANGED vars
    PROVE  StopInv'
<1>1. CASE PowerCut \/ PowerOff
  <2>1. /\ stage' = "off" /\ awake' = TRUE /\ plan' = <<>> /\ phase' = "start"
        /\ good' = TRUE /\ mem' = 0
    BY <1>1 DEF PowerCut, PowerOff, Start
  <2> QED BY <2>1 DEF StopInv, WriteInv
<1>2. CASE UNCHANGED vars
  <2> USE DEF vars
  <2>1. /\ UNCHANGED <<WriteInv, BatteryDone, StateDone, MarkerDone, InGame>>
        /\ NapPlan' = NapPlan /\ OffPlan' = OffPlan /\ QuitPlan' = QuitPlan
    BY <1>2, SamePlans DEF WriteInv, BatteryDone, StateDone, MarkerDone, InGame, Target,
                           Contents
  <2>2. UNCHANGED <<plan, awake, stage, mem, disk, cache>>
    BY <1>2
  <2> QED BY <2>1, <2>2 DEF StopInv, NapInv, OffInv, QuitInv, LaunchInv, LooseInv, SleepDone
<1>3. CASE Writeback
  <2>1. /\ disk # cache
        /\ UNCHANGED <<stage, awake, plan, phase, good, offers, mem, drive, menu, cache,
                       quick, faults>>
    BY <1>3 DEF Writeback, step, bounds, game, ghost
  <2>2. /\ UNCHANGED <<WriteInv, BatteryDone, StateDone, MarkerDone, InGame>>
        /\ NapPlan' = NapPlan /\ OffPlan' = OffPlan /\ QuitPlan' = QuitPlan
    BY <2>1, SamePlans DEF WriteInv, BatteryDone, StateDone, MarkerDone, InGame, Target,
                           Contents
  <2>3. awake
    BY <2>1 DEF StopInv, SleepDone
  <2>4. NapInv => NapInv'
    BY <2>1, <2>2 DEF NapInv, SleepDone
  <2>5. OffInv => OffInv'
    BY <2>1, <2>2 DEF OffInv, SleepDone
  <2> QED BY <2>1, <2>2, <2>3, <2>4, <2>5 DEF StopInv, QuitInv, LaunchInv, LooseInv
<1> QED BY <1>1, <1>2, <1>3

LEMMA StopStep == SavesInv /\ SavesInv' /\ StopInv /\ [Next]_vars => StopInv'
BY StopWrites, PutStop, UnlinkSyncStop, LeaveStop, IdleStop, MinuiStarts, GameStarts,
   CardStop DEF Next

LEMMA InitStop == Init => StopInv
BY DEF Init, StopInv, WriteInv, BatteryDone

(* The two invariants together hold in every state. *)
THEOREM StopCorrect == Spec => [](SavesInv /\ StopInv)
<1>1. SavesInv /\ StopInv /\ [Next]_vars => SavesInv' /\ StopInv'
  BY NextSaves, StopStep
<1> QED BY <1>1, InitSaves, InitStop, PTL DEF Spec

(* Where the player may walk away, asleep or in the launcher, and nothing   *)
(* has failed, the card holds the battery save of now, and asleep also the *)
(* quicksave and the marker that will bring the game back.                  *)
THEOREM SafeWhereItStops == Spec => []SafeToStop
<1>1. SavesInv /\ StopInv => SafeToStop
  <2> SUFFICES ASSUME SavesInv, StopInv PROVE SafeToStop
    OBVIOUS
  <2>1. SleepIsSafe
    <3> SUFFICES ASSUME ~awake, faults = 0
                 PROVE  /\ "sav" \in offers => disk[Sav] = <<mem, 0>>
                        /\ "st" \in offers => disk[St(AUTO_RESUME_SLOT)] = <<mem, drive>>
                        /\ disk[AutoResume] = <<drive, 0>>
      BY DEF SleepIsSafe
    <3>1. 0 <= 5 /\ 0 <= 3 /\ 0 <= 2 /\ 0 <= 1
      OBVIOUS
    <3>2. BatteryDone /\ StateDone /\ MarkerDone /\ disk = cache
      BY <3>1 DEF StopInv, SleepDone
    <3> QED BY <3>2 DEF BatteryDone, StateDone, MarkerDone
  <2>2. QuitKeepsBattery
    <3> SUFFICES ASSUME stage = "minui", Idle, faults = 0, "sav" \in offers, mem > 0
                 PROVE  disk[Sav] = <<mem, 0>>
      BY DEF QuitKeepsBattery
    <3>1. BatteryDone
      BY DEF StopInv
    <3>2. disk[Sav] = cache[Sav]
      BY FileFacts DEF SavesInv, CardInv, Unsynced, AtRisk, Renamed, Doing, Idle
    <3> QED BY <3>1, <3>2 DEF BatteryDone
  <2> QED BY <2>1, <2>2 DEF SafeToStop
<1> QED BY <1>1, StopCorrect, PTL

-----------------------------------------------------------------------------
(* From a power-off to the next game. *)

(* Out of the game there is little that can happen. *)
LEMMA WaitActs ==
    ASSUME SavesInv, StopInv, Next, stage \in {"off", "minui", "load"}
    PROVE  \/ stage = "off" /\ Boot
           \/ Writeback \/ PowerCut
           \/ stage = "minui" /\ plan = <<>> /\ (autoResume \/ openRom \/ openRomResume)
           \/ stage = "minui" /\ plan # <<>> /\ (Unlink \/ Sync \/ Launch)
           \/ stage = "load" /\ (Load \/ LoadFails)
<1>1. ~InGame /\ awake /\ (stage # "minui" => plan = <<>>)
  BY DEF StopInv, InGame
<1>2. plan # <<>> => Head(plan).do \in {"unlink", "sync", "launch"}
  <2> SUFFICES ASSUME plan # <<>> PROVE Head(plan).do \in {"unlink", "sync", "launch"}
    OBVIOUS
  <2>1. LaunchInv /\ plan \in Seq(Jobs)
    BY <1>1 DEF StopInv, NapInv, OffInv, QuitInv, LooseInv, SavesInv, CardInv, JobsOK
  <2> QED BY <2>1, OnlyParts DEF LaunchInv
<1>3. ~(WriteNothing \/ WriteOpen \/ WriteFill \/ WriteRename \/ WriteSync \/ PutFile
        \/ QuitDone \/ Nap)
  BY <1>2 DEF WriteNothing, WriteOpen, WriteFill, WriteRename, WriteSync, PutFile,
              QuitDone, Nap, Doing
<1>4. ~(Wake \/ PowerOff)
  BY <1>1, <1>2 DEF Wake, PowerOff, Doing
<1>5. ~(Play \/ MenuOpen \/ MenuTurn \/ MenuBack \/ MenuContinue \/ SaveState \/ LoadState
        \/ Quit \/ PowerHeld \/ Sleep)
  BY <1>1 DEF Play, MenuOpen, MenuTurn, MenuBack, MenuContinue, SaveState, LoadState,
              Quit, PowerHeld, Sleep, InMenu, InGame
<1>6. /\ Boot => stage = "off"
      /\ autoResume \/ openRom \/ openRomResume => stage = "minui" /\ plan = <<>>
      /\ Load \/ LoadFails => stage = "load"
      /\ Unlink \/ Sync \/ Launch => plan # <<>>
  BY DEF Boot, autoResume, openRom, openRomResume, InMinui, Idle, Load, LoadFails,
         Unlink, Sync, Launch, Doing
<1> QED BY <1>1, <1>3, <1>4, <1>5, <1>6 DEF Next

LEMMA ResumeSteps ==
    ASSUME plan \in Seq(Jobs), plan # <<>>, NEW d \in Discs, Ends(plan, ResumePlan(d))
    PROVE  /\ Len(plan) \in {1, 2, 3}
           /\ Len(plan) = 3 => Head(plan) = unlink(AutoResume)
           /\ Len(plan) = 2 => Head(plan) = sync
           /\ Len(plan) = 1 => Head(plan) = Leave("launch", AUTO_RESUME_SLOT, d)
           /\ Len(Tail(plan)) = Len(plan) - 1 /\ Ends(Tail(plan), ResumePlan(d))
           /\ Tail(plan) \in Seq(Jobs)
<1> DEFINE full == ResumePlan(d)
<1>1. /\ full \in Seq(Jobs) /\ Len(full) = 3 /\ full[1] = unlink(AutoResume)
      /\ full[2] = sync /\ full[3] = Leave("launch", AUTO_RESUME_SLOT, d)
  <2>1. JobsOK(full)
    BY JobFacts, Jobs3 DEF ResumePlan
  <2> QED BY <2>1 DEF ResumePlan, JobsOK
<1>2. Ends(plan, full)
  OBVIOUS
<1> HIDE DEF full
<1>3. /\ Len(plan) \in 1 .. 3 /\ Head(plan) = full[3 - Len(plan) + 1]
      /\ Len(Tail(plan)) = Len(plan) - 1 /\ Ends(Tail(plan), full)
  BY <1>1, <1>2, EndsTail
<1>4. full[3 - 3 + 1] = full[1] /\ full[3 - 2 + 1] = full[2] /\ full[3 - 1 + 1] = full[3]
  OBVIOUS
<1>5. Len(plan) \in {1, 2, 3}
  BY <1>3
<1>6. Tail(plan) \in Seq(Jobs)
  BY HeadTailProperties
<1> QED BY <1>1, <1>3, <1>4, <1>5, <1>6 DEF full

(* What was left, when it is to come back. *)
Awaited == left # <<>> /\ left[3] /\ left[2] # None

LEMMA LeftFacts ==
    ASSUME TypeOK, Awaited
    PROVE  left[1] \in Nat /\ left[2] \in Discs /\ left[2] \in Nat
<1>1. left \in (0 .. MaxPlay) \X (Discs \cup {None}) \X BOOLEAN
  BY DEF TypeOK, Awaited
<1>2. left[1] \in 0 .. MaxPlay /\ left[2] \in Discs \cup {None}
  BY <1>1
<1>3. left[2] # None
  BY DEF Awaited
<1>4. Discs \subseteq Nat /\ MaxPlay \in Nat
  BY SavesAssumption DEF SavesAssumption
<1>5. left[1] \in Nat
  BY <1>2, <1>4
<1> QED BY <1>2, <1>3, <1>4, <1>5

LEMMA ResumeStep ==
    ASSUME SavesInv, StopInv, ResumeInv, [Next]_vars
    PROVE  ResumeInv'
<1> USE DEF game, card, ghost, bounds, step
<1> DEFINE st == St(AUTO_RESUME_SLOT)
<1>0. TypeOK /\ cache \in [Files -> Int \X Int] /\ plan \in Seq(Jobs)
  BY DEF SavesInv, CardInv, JobsOK, TypeOK
<1>1. CASE PowerOff
  <2>1. /\ stage' = "off" /\ left' = <<mem, drive, quick>> /\ UNCHANGED <<cache, offers>>
    BY <1>1 DEF PowerOff
  <2>2. StateDone /\ MarkerDone
    <3>1. CASE plan # <<>> /\ Head(plan).do = "poweroff"
      BY <3>1, HeadWhere
    <3>2. CASE ~awake
      <4>1. 0 <= 3 /\ 0 <= 2
        OBVIOUS
      <4> QED BY <3>2, <4>1 DEF StopInv, SleepDone
    <3> QED BY <1>1, <3>1, <3>2 DEF PowerOff, Doing
  <2>3. left'[1] = mem /\ left'[2] = drive /\ left'[3] = quick
    BY <2>1
  <2> QED BY <2>1, <2>2, <2>3 DEF ResumeInv, StateDone, MarkerDone
<1>2. CASE PowerCut \/ Load \/ LoadFails
  BY <1>2 DEF PowerCut, Load, LoadFails, ResumeInv
<1>3. CASE UNCHANGED vars
  <2>1. UNCHANGED <<left, offers, cache, stage, plan, resume, drive>>
    BY <1>3 DEF vars
  <2> QED BY <2>1 DEF ResumeInv
<1>4. CASE Next /\ ~(PowerOff \/ PowerCut \/ Load \/ LoadFails)
  <2>1. UNCHANGED left
    BY <1>4 DEF Next, WriteNothing, WriteOpen, WriteFill, WriteRename, WriteSync, PutFile,
        Unlink, Sync, Boot, autoResume, openRom, openRomResume, Launch, Play, MenuOpen,
        MenuTurn, MenuBack, MenuContinue, SaveState, LoadState, Quit, QuitDone, PowerHeld,
        Sleep, Nap, Wake, Writeback
  <2> SUFFICES ASSUME Awaited PROVE ResumeInv'
    BY <2>1 DEF Awaited, ResumeInv
  <2>2. left[1] \in Nat /\ left[2] \in Discs /\ left[2] \in Nat
    BY <1>0, LeftFacts
  <2>3. /\ "st" \in offers /\ cache[st] = <<left[1], left[2]>>
        /\ \/ stage = "off" /\ cache[AutoResume] = <<left[2], 0>>
           \/ stage = "minui" /\ plan = <<>> /\ cache[AutoResume] = <<left[2], 0>>
           \/ stage = "minui" /\ plan # <<>> /\ Ends(plan, ResumePlan(left[2]))
           \/ stage = "load" /\ resume = AUTO_RESUME_SLOT /\ drive = left[2]
    BY DEF ResumeInv, Awaited
  <2>4. CASE Writeback
    <3>1. UNCHANGED <<left, offers, cache, stage, plan, resume, drive>>
      BY <2>4 DEF Writeback
    <3> QED BY <2>3, <3>1 DEF ResumeInv
  <2>5. CASE stage = "off" /\ Boot
    <3>1. UNCHANGED <<left, offers, cache, plan>> /\ stage' = "minui" /\ plan = <<>>
      BY <2>5 DEF Boot, StopInv
    <3> QED BY <2>3, <2>5, <3>1 DEF ResumeInv
  <2>6. CASE stage = "minui" /\ plan = <<>> /\ (autoResume \/ openRom \/ openRomResume)
    <3>1. cache[AutoResume] = <<left[2], 0>>
      BY <2>3, <2>6
    <3>2. Whole(cache[AutoResume]) /\ cache[AutoResume] # Absent
          /\ cache[AutoResume][1] = left[2]
      BY <2>2, <3>1 DEF Whole, Absent
    <3>3. autoResume
      BY <2>6, <3>2 DEF openRom, openRomResume
    <3>4. Start(<<unlink(AutoResume), sync>>
                \o <<Leave("launch", AUTO_RESUME_SLOT, left[2])>>)
      BY <3>2, <3>3 DEF autoResume
    <3>5. plan' = ResumePlan(left[2])
      BY <3>4, Joined DEF Start, ResumePlan
    <3>6. JobsOK(ResumePlan(left[2])) /\ ResumePlan(left[2]) # <<>>
      BY <2>2, JobFacts, Jobs3 DEF ResumePlan
    <3>7. Ends(plan', ResumePlan(left[2])) /\ plan' # <<>>
      BY <3>5, <3>6, EndsAll DEF JobsOK
    <3>8. UNCHANGED <<left, offers, cache, stage>>
      BY <3>3 DEF autoResume
    <3> QED BY <2>3, <2>6, <3>7, <3>8 DEF ResumeInv
  <2>7. CASE stage = "minui" /\ plan # <<>> /\ (Unlink \/ Sync \/ Launch)
    <3>0. Ends(plan, ResumePlan(left[2]))
      BY <2>3, <2>7
    <3>1. /\ Len(plan) \in {1, 2, 3}
          /\ Len(plan) = 3 => Head(plan) = unlink(AutoResume)
          /\ Len(plan) = 2 => Head(plan) = sync
          /\ Len(plan) = 1 => Head(plan) = Leave("launch", AUTO_RESUME_SLOT, left[2])
          /\ Len(Tail(plan)) = Len(plan) - 1 /\ Ends(Tail(plan), ResumePlan(left[2]))
          /\ Tail(plan) \in Seq(Jobs)
      BY <1>0, <2>2, <2>7, <3>0, ResumeSteps
    <3>2. /\ unlink(AutoResume).do = "unlink" /\ unlink(AutoResume).file = AutoResume
          /\ sync.do = "sync"
          /\ Leave("launch", AUTO_RESUME_SLOT, left[2]).do = "launch"
          /\ Leave("launch", AUTO_RESUME_SLOT, left[2]).val
               = <<AUTO_RESUME_SLOT, left[2]>>
      BY DEF unlink, sync, Leave
    <3>3. plan' = Tail(plan) /\ UNCHANGED <<left, offers>> /\ cache'[st] = cache[st]
      <4>1. plan' = Tail(plan) /\ UNCHANGED <<left, offers>>
        BY <2>7 DEF Unlink, Sync, Launch, Next1
      <4>2. CASE Unlink
        <5>1. Head(plan).do = "unlink" /\ plan # <<>>
          BY <4>2 DEF Unlink, Doing
        <5>2. Target = AutoResume
          BY <3>1, <3>2, <5>1 DEF Target
        <5> QED BY <1>0, <4>1, <4>2, <5>2, FilesApart DEF Unlink
      <4>3. CASE Sync \/ Launch
        BY <4>1, <4>3 DEF Sync, Launch
      <4> QED BY <2>7, <4>1, <4>2, <4>3
    <3>4. CASE Len(plan) = 1
      <4>1. Launch
        BY <2>7, <3>1, <3>2, <3>4 DEF Unlink, Sync, Doing
      <4>2. /\ stage' = "load" /\ resume' = AUTO_RESUME_SLOT /\ drive' = left[2]
        BY <3>1, <3>2, <3>4, <4>1 DEF Launch
      <4> QED BY <2>3, <3>3, <4>2 DEF ResumeInv
    <3>5. CASE Len(plan) \in {2, 3}
      <4>1. ~Launch
        BY <3>1, <3>2, <3>5 DEF Launch, Doing
      <4>2. stage' = "minui"
        BY <2>7, <4>1 DEF Unlink, Sync
      <4>3. plan' # <<>>
        <5>1. Len(plan') # 0
          BY <3>1, <3>3, <3>5
        <5> QED BY <3>1, <3>3, <5>1, EmptySeq
      <4> QED BY <2>3, <3>1, <3>3, <4>2, <4>3 DEF ResumeInv
    <3> QED BY <3>1, <3>4, <3>5
  <2> QED BY <1>4, <2>3, <2>4, <2>5, <2>6, <2>7, WaitActs
<1> QED BY <1>1, <1>2, <1>3, <1>4

(* After a power-off whose autosave and marker were written, the next game  *)
(* started is that one, on the same disc, where it was left: autoResume    *)
(* launches what the marker names and State_resume reads slot 9 back.       *)
THEOREM QuicksaveComesBack == Spec => QuicksaveResumes
<1> DEFINE Back == (stage = "load" /\ stage' # stage /\ left # <<>> /\ cuts' = cuts /\ left[3]
                      /\ left[2] # None)
                   => (stage' = "play" /\ mem' = left[1] /\ drive' = left[2])
<1>1. ASSUME SavesInv, StopInv, ResumeInv, [Next]_vars PROVE [Back]_vars
  <2> SUFFICES ASSUME stage = "load", stage' # stage, cuts' = cuts, Awaited
               PROVE  stage' = "play" /\ mem' = left[1] /\ drive' = left[2]
    BY DEF Awaited
  <2>0. TypeOK /\ cuts \in Nat
    <3>1. TypeOK
      BY <1>1 DEF SavesInv
    <3>2. cuts \in 0 .. MaxCuts
      BY <3>1 DEF TypeOK
    <3> QED BY <3>1, <3>2, SavesAssumption DEF SavesAssumption
  <2>1. /\ resume = AUTO_RESUME_SLOT /\ drive = left[2] /\ "st" \in offers
        /\ cache[St(AUTO_RESUME_SLOT)] = <<left[1], left[2]>>
    BY <1>1 DEF ResumeInv, Awaited
  <2>2. left[1] \in Nat /\ left[2] # None
    BY <2>0, LeftFacts DEF Awaited
  <2>3. Load
    <3>1. Next /\ ~Writeback /\ ~PowerCut
      BY <1>1, <2>0 DEF vars, Writeback, PowerCut
    <3>2. ~LoadFails
      BY <2>1, <2>2 DEF LoadFails
    <3> QED BY <1>1, <3>1, <3>2, WaitActs
  <2>4. State_read(resume) = <<left[1], left[2]>>
    BY <2>1 DEF State_read
  <2>5. Loaded = left[1]
    BY <2>2, <2>4 DEF Loaded, Whole
  <2> QED BY <2>1, <2>3, <2>5 DEF Load
<1>2. Init => ResumeInv
  BY DEF Init, ResumeInv
<1>3. SavesInv /\ StopInv /\ ResumeInv /\ [Next]_vars => ResumeInv'
  BY ResumeStep
<1>4. Spec => []ResumeInv
  BY <1>2, <1>3, StopCorrect, PTL DEF Spec
<1>5. SavesInv /\ StopInv /\ ResumeInv /\ [Next]_vars => [Back]_vars
  BY <1>1
<1>6. Spec => [][Back]_vars
  BY <1>4, <1>5, StopCorrect, PTL DEF Spec
<1> QED BY <1>6 DEF QuicksaveResumes

=============================================================================
