---------------------------- MODULE ThreadProofs -----------------------------
(***************************************************************************)
(* Proofs about the two places where a thread runs beside the core's: the  *)
(* audio ring, for every ring size, every pair of sample rates, every      *)
(* batch and callback size and every number of frames; and the two ways of *)
(* running a core, for any number of button events.                        *)
(*                                                                         *)
(* RingHoldsBacklog alone is not inductive: that the writer's slot is free *)
(* rests on RingShape, that the two threads do not write the indices at    *)
(* once on LockDiscipline, that SND_init does not drop queued frames on    *)
(* BeforeInit, and that the frames written are input frames on Budget.     *)
(*                                                                         *)
(* What makes threaded video's properties inductive is ModeInv: which      *)
(* thread exists in which mode and at which point of main's loop, who      *)
(* holds core_mx, and that a thread outside core.run owes no callback.     *)
(***************************************************************************)
EXTENDS AudioRing, ThreadedVideo, TLAPS

-----------------------------------------------------------------------------
(* The audio ring.                                                         *)

(* Nothing was queued before the device was opened. *)
BeforeInit ==
  status = "closed" => /\ frame_count = 0 /\ frame_in = frame_out
                       /\ log = << >> /\ heard = << >>

(* The batch in progress still fits in the bound on the input. *)
Budget == /\ amount <= frames_left
          /\ fed + frames_left <= MaxFed

RingInv == /\ RingTypeOK /\ LockDiscipline /\ RingShape /\ RingHoldsBacklog
           /\ BeforeInit /\ Budget

-----------------------------------------------------------------------------
(* Succ stays inside the ring and is injective on it, so the slot before a  *)
(* slot is unique.                                                          *)
LEMMA SuccType == \A i \in Slots : Succ(i) \in Slots
BY AudioAssumption DEF AudioAssumption, Slots, Succ

LEMMA SuccInjective == \A i, j \in Slots : Succ(i) = Succ(j) => i = j
BY AudioAssumption DEF AudioAssumption, Slots, Succ

(* While a slot is free, writing at frame_in extends the backlog by one and *)
(* moves none of the frames already in it.                                  *)
LEMMA WriteSlot ==
  ASSUME RingTypeOK, RingShape, frame_count # 0, frame_in # frame_filled
  PROVE  /\ Used \in 0 .. FrameCount - 2
         /\ Slot(Used) = frame_in
         /\ \A j \in 0 .. Used - 1 : Slot(j) \in Slots /\ Slot(j) # frame_in
         /\ frame_in' = Succ(frame_in) /\ UNCHANGED frame_out =>
              Used' = Used + 1
<1>0. /\ FrameCount \in Nat /\ FrameCount > 1
      /\ frame_in \in Int /\ frame_out \in Int /\ frame_filled \in Int
      /\ 0 <= frame_in /\ frame_in < FrameCount
      /\ 0 <= frame_out /\ frame_out < FrameCount
      /\ 0 <= frame_filled /\ frame_filled < FrameCount
  BY AudioAssumption DEF AudioAssumption, RingTypeOK, Slots
<1>1. frame_in + 1 # frame_out /\ ~(frame_in + 1 = FrameCount /\ frame_out = 0)
  BY <1>0 DEF RingShape, Succ
<1>2. Used \in 0 .. FrameCount - 2
  BY <1>0, <1>1 DEF Used
<1>3. Slot(Used) = frame_in
  BY <1>0 DEF Used, Slot
<1>4. \A j \in 0 .. Used - 1 : Slot(j) \in Slots /\ Slot(j) # frame_in
  BY <1>0 DEF Used, Slot, Slots
<1>5. frame_in' = Succ(frame_in) /\ UNCHANGED frame_out => Used' = Used + 1
  BY <1>0, <1>1 DEF Used, Succ
<1> QED BY <1>2, <1>3, <1>4, <1>5

(* Playing the frame at frame_out takes the oldest frame of the backlog.    *)
LEMMA PlaySlot ==
  ASSUME RingTypeOK, frame_out # frame_in,
         frame_out' = Succ(frame_out), UNCHANGED frame_in
  PROVE  /\ Used \in 1 .. FrameCount - 1
         /\ Used' = Used - 1
         /\ Slot(0) = frame_out
         /\ \A j \in 0 .. Used - 2 : Slot(j)' = Slot(j + 1)
BY AudioAssumption DEF AudioAssumption, RingTypeOK, Succ, Slots, Used, Slot

(* The backlog is a natural number smaller than the ring.                   *)
LEMMA UsedType == RingTypeOK => Used \in 0 .. FrameCount - 1
BY AudioAssumption DEF AudioAssumption, RingTypeOK, Slots, Used

-----------------------------------------------------------------------------
LEMMA RingInitInv == RingInit => RingInv
<1>1. RingInit => RingTypeOK
  BY AudioAssumption DEF AudioAssumption, RingInit, RingTypeOK, Slots
<1>2. RingInit => LockDiscipline /\ RingShape /\ BeforeInit /\ Budget
  BY AudioAssumption DEF AudioAssumption, RingInit, LockDiscipline, RingShape, BeforeInit, Budget
<1>3. RingInit => RingHoldsBacklog
  BY AudioAssumption DEF AudioAssumption, RingInit, RingHoldsBacklog, Used, Slots
<1> QED BY <1>1, <1>2, <1>3 DEF RingInv

(* A step that leaves the ring and its history alone keeps the backlog. *)
LEMMA RingUnchanged ==
  ASSUME RingHoldsBacklog, UNCHANGED <<ringVars, log, heard>>
  PROVE  RingHoldsBacklog'
BY DEF RingHoldsBacklog, ringVars, Used, Slot

(* SND_batchSamples's writing step keeps the backlog in order. *)
LEMMA WriteKeepsBacklog ==
  ASSUME RingTypeOK, RingShape, RingHoldsBacklog, frame_count # 0,
         frame_in # frame_filled, UNCHANGED heard,
         NEW f \in Nat, WriteFrame(f)
  PROVE  RingHoldsBacklog'
<1>1. /\ Used \in Nat
      /\ Slot(Used) = frame_in
      /\ \A j \in 0 .. Used - 1 : Slot(j) \in Slots /\ Slot(j) # frame_in
      /\ Used' = Used + 1
  BY WriteSlot, AudioAssumption DEF AudioAssumption, WriteFrame
<1>2. \A j : Slot(j)' = Slot(j)
  BY DEF WriteFrame, Slot
<1>3. /\ log \in Seq(Nat) /\ heard \in Seq(Nat) /\ Len(log) = Len(heard) + Used
      /\ log' = Append(log, f) /\ heard' = heard
      /\ Len(log') = Len(log) + 1
      /\ log'[Len(log) + 1] = f
      /\ \A k \in 1 .. Len(log) : log'[k] = log[k]
  BY DEF RingTypeOK, RingHoldsBacklog, WriteFrame
<1>4. ASSUME NEW j \in 0 .. Used' - 1
      PROVE  buffer'[Slot(j)'] = log'[Len(heard') + j + 1]
  <2> SUFFICES buffer'[Slot(j)] = log'[Len(heard) + j + 1]
    BY <1>2, <1>3
  <2>0. j \in 0 .. Used
    BY <1>1
  <2>1. CASE j = Used
    BY <2>1, <1>1, <1>3 DEF WriteFrame, RingTypeOK
  <2>2. CASE j < Used
    <3>1. j \in 0 .. Used - 1
      BY <2>0, <2>2, <1>1
    <3>2. buffer'[Slot(j)] = buffer[Slot(j)]
      BY <3>1, <1>1 DEF WriteFrame, RingTypeOK
    <3>3. buffer[Slot(j)] = log[Len(heard) + j + 1]
      BY <3>1 DEF RingHoldsBacklog
    <3>4. Len(heard) + j + 1 \in 1 .. Len(log)
      BY <3>1, <1>1, <1>3
    <3> QED BY <3>2, <3>3, <3>4, <1>3
  <2> QED BY <2>0, <2>1, <2>2, <1>1
<1>5. \A j \in 1 .. Len(heard') : heard'[j] = log'[j]
  BY <1>1, <1>3 DEF RingHoldsBacklog
<1>6. Len(log') = Len(heard') + Used'
  BY <1>1, <1>3
<1> QED BY <1>4, <1>5, <1>6 DEF RingHoldsBacklog

(* SND_audioCallback's playing step keeps the backlog in order. *)
LEMMA PlayKeepsBacklog ==
  ASSUME RingTypeOK, RingHoldsBacklog, CallbackFrame
  PROVE  RingHoldsBacklog'
<1>1. /\ Used \in Nat /\ Used > 0 /\ Used' = Used - 1
      /\ Slot(0) = frame_out
      /\ \A j \in 0 .. Used - 2 : Slot(j)' = Slot(j + 1)
  BY PlaySlot, AudioAssumption DEF AudioAssumption, CallbackFrame
<1>2. /\ log \in Seq(Nat) /\ heard \in Seq(Nat) /\ Len(log) = Len(heard) + Used
      /\ buffer[frame_out] = log[Len(heard) + 1]
      /\ heard' = Append(heard, buffer[frame_out]) /\ log' = log /\ buffer' = buffer
  BY <1>1 DEF RingTypeOK, RingHoldsBacklog, CallbackFrame
<1>3. /\ Len(heard) \in Nat /\ Len(heard') = Len(heard) + 1
      /\ heard'[Len(heard) + 1] = log[Len(heard) + 1]
      /\ \A k \in 1 .. Len(heard) : heard'[k] = heard[k]
  BY <1>2
<1>4. ASSUME NEW j \in 0 .. Used' - 1
      PROVE  buffer'[Slot(j)'] = log'[Len(heard') + j + 1]
  <2>1. j \in 0 .. Used - 2 /\ j + 1 \in 0 .. Used - 1
    BY <1>1
  <2>2. buffer[Slot(j + 1)] = log[Len(heard) + (j + 1) + 1]
    BY <2>1 DEF RingHoldsBacklog
  <2>3. Len(heard) + (j + 1) + 1 = Len(heard') + j + 1
    BY <2>1, <1>3
  <2> QED BY <2>1, <2>2, <2>3, <1>1, <1>2
<1>5. \A j \in 1 .. Len(heard') : heard'[j] = log'[j]
  BY <1>2, <1>3 DEF RingHoldsBacklog
<1>6. Len(log') = Len(heard') + Used'
  <2>1. Len(log') = Len(log) /\ Len(log) = Len(heard) + Used
    BY <1>2
  <2> QED BY <2>1, <1>1, <1>3
<1> QED BY <1>4, <1>5, <1>6 DEF RingHoldsBacklog

-----------------------------------------------------------------------------
(* The two resamplers write at most one frame, and only input frames.       *)
LEMMA PushStep ==
  ASSUME RingInv, BatchPush
  PROVE  /\ frame_count # 0 /\ frame_in # frame_filled /\ amount > 0
         /\ fed + 1 \in 1 .. MaxFed
         /\ WriteFrame(fed + 1) \/ UNCHANGED <<ringVars, log>>
         /\ diff' \in Nat
         /\ \E n \in {0, 1} : Consume(n)
<1>1. frame_count # 0 /\ frame_in # frame_filled /\ amount > 0 /\ pc = "push"
  BY DEF RingInv, LockDiscipline, BatchPush, MayPush
<1>2. fed + 1 \in 1 .. MaxFed
  BY <1>1, AudioAssumption DEF AudioAssumption, RingInv, RingTypeOK, Budget
<1>3. CASE SND_resampleNone
  BY <1>1, <1>2, <1>3 DEF SND_resampleNone, RingInv, RingTypeOK
<1>4. CASE SND_resampleNear
  BY <1>1, <1>2, <1>4 DEF SND_resampleNear, RingInv, RingTypeOK
<1> QED BY <1>3, <1>4 DEF BatchPush

(* Every step of either thread keeps the types: the ring's indices stay     *)
(* inside the buffer.                                                       *)
LEMMA RingTypeStep == RingInv /\ [RingNext]_audioVars => RingTypeOK'
<1> SUFFICES ASSUME RingInv, [RingNext]_audioVars PROVE RingTypeOK'
  OBVIOUS
<1>0. RingTypeOK
  BY DEF RingInv
<1> USE AudioAssumption DEF AudioAssumption, RingTypeOK, ringVars, rates, batchVars, histVars
<1>1. CASE SND_init
  <2>1. /\ frame_count' \in {0, FrameCount} /\ buffer' \in [Slots -> Nat]
        /\ frame_in' \in Slots /\ frame_out' \in Slots /\ frame_filled' \in Slots
    <3>1. CASE UNCHANGED <<frame_count, ringVars>>
      BY <1>0, <3>1
    <3>2. CASE /\ frame_count' = FrameCount /\ buffer' = [i \in Slots |-> 0]
               /\ frame_in' = 0 /\ frame_out' = 0 /\ frame_filled' = FrameCount - 1
      BY <3>2 DEF Slots
    <3> QED BY <1>1, <3>1, <3>2 DEF SND_init
  <2>2. sample_rate_in' \in Nat /\ sample_rate_out' \in Nat
    BY <1>1 DEF SND_init
  <2> QED BY <1>0, <1>1, <2>1, <2>2 DEF SND_init
<1>2. CASE SND_quit \/ PauseAudio \/ ResumeAudio
  BY <1>0, <1>2 DEF SND_quit, PauseAudio, ResumeAudio
<1>3. CASE \E k \in 1 .. MaxBatch : BatchBegin(k)
  BY <1>0, <1>3 DEF BatchBegin, Lesser
<1>4. CASE BatchUnlock \/ BatchRelock \/ BatchWaited \/ BatchAgain \/ BatchReturn
  <2>1. CASE BatchUnlock
    BY <1>0, <2>1 DEF BatchUnlock
  <2>2. CASE BatchRelock \/ BatchWaited \/ BatchReturn
    BY <1>0, <2>2 DEF BatchRelock, BatchWaited, BatchReturn
  <2>3. CASE BatchAgain
    BY <1>0, <2>3 DEF BatchAgain, Lesser
  <2> QED BY <1>4, <2>1, <2>2, <2>3
<1>5. CASE BatchPush
  <2>1. amount' \in Nat /\ frames_left' \in Nat /\ fed' \in Nat /\ diff' \in Nat
    BY <1>0, <1>5, PushStep DEF RingInv, Budget, Consume
  <2>2. /\ frame_in' \in Slots /\ frame_out' \in Slots /\ frame_filled' \in Slots
        /\ buffer' \in [Slots -> Nat] /\ log' \in Seq(Nat)
    <3>1. CASE WriteFrame(fed + 1)
      BY <1>0, <3>1, SuccType DEF WriteFrame
    <3>2. CASE UNCHANGED <<ringVars, log>>
      BY <1>0, <3>2
    <3> QED BY <1>5, <3>1, <3>2, PushStep
  <2> QED BY <1>0, <1>5, <2>1, <2>2 DEF BatchPush
<1>6. CASE CallbackBegin \/ CallbackEnd
  <2>1. len' \in Nat /\ lock' \in {"none", "core", "sdl"}
    BY <1>6 DEF CallbackBegin, CallbackEnd
  <2> QED BY <1>0, <1>6, <2>1 DEF CallbackBegin, CallbackEnd
<1>7. CASE CallbackFrame
  <2>1. frame_out' \in Slots /\ frame_filled' \in Slots /\ len' \in Nat
    BY <1>0, <1>7, SuccType DEF CallbackFrame
  <2>2. heard' \in Seq(Nat)
    BY <1>0, <1>7 DEF CallbackFrame
  <2> QED BY <1>0, <1>7, <2>1, <2>2 DEF CallbackFrame
<1>8. CASE UNCHANGED audioVars
  BY <1>0, <1>8 DEF audioVars
<1> QED BY <1>1, <1>2, <1>3, <1>4, <1>5, <1>6, <1>7, <1>8 DEF RingNext, BatchStep, SdlStep

(* Every step keeps the lock discipline, the shape of the ring, the backlog *)
(* and the bounds on the batch.                                             *)
LEMMA RingInvStep == RingInv /\ [RingNext]_audioVars => RingInv'
<1> SUFFICES ASSUME RingInv, [RingNext]_audioVars PROVE RingInv'
  OBVIOUS
<1>0. RingTypeOK /\ LockDiscipline /\ RingShape /\ RingHoldsBacklog /\ BeforeInit /\ Budget
  BY DEF RingInv
<1>t. RingTypeOK'
  BY RingTypeStep
<1>1. LockDiscipline'
  <2> USE <1>0 DEF LockDiscipline, batchVars
  <2>1. CASE SND_init
    BY <2>1, AudioAssumption DEF SND_init, BeforeInit, AudioAssumption
  <2>2. CASE SND_quit \/ PauseAudio \/ ResumeAudio
    BY <2>2 DEF SND_quit, PauseAudio, ResumeAudio
  <2>3. CASE \E k \in 1 .. MaxBatch : BatchBegin(k)
    BY <2>3 DEF BatchBegin
  <2>4. CASE BatchStep
    BY <2>4 DEF BatchStep, BatchUnlock, BatchRelock, BatchWaited, BatchPush, BatchAgain, BatchReturn
  <2>5. CASE SdlStep
    BY <2>5 DEF SdlStep, CallbackBegin, CallbackFrame, CallbackEnd
  <2>6. CASE UNCHANGED audioVars
    BY <2>6 DEF audioVars
  <2> QED BY <2>1, <2>2, <2>3, <2>4, <2>5, <2>6 DEF RingNext
<1>2. RingShape'
  <2> USE <1>0 DEF RingShape, ringVars
  <2>1. CASE SND_init
    BY <2>1, AudioAssumption DEF SND_init, BeforeInit, AudioAssumption, Succ
  <2>2. CASE SND_quit \/ PauseAudio \/ ResumeAudio
    BY <2>2 DEF SND_quit, PauseAudio, ResumeAudio
  <2>3. CASE \E k \in 1 .. MaxBatch : BatchBegin(k)
    BY <2>3 DEF BatchBegin
  <2>4. CASE BatchUnlock \/ BatchRelock \/ BatchWaited \/ BatchAgain \/ BatchReturn
    BY <2>4 DEF BatchUnlock, BatchRelock, BatchWaited, BatchAgain, BatchReturn
  <2>5. CASE BatchPush
    BY <2>5, PushStep DEF WriteFrame, BatchPush
  <2>6. CASE SdlStep
    BY <2>6 DEF SdlStep, CallbackBegin, CallbackFrame, CallbackEnd
  <2>7. CASE UNCHANGED audioVars
    BY <2>7 DEF audioVars
  <2> QED BY <2>1, <2>2, <2>3, <2>4, <2>5, <2>6, <2>7 DEF RingNext, BatchStep
<1>3. RingHoldsBacklog'
  <2>1. CASE SND_init
    <3>1. CASE UNCHANGED ringVars
      BY <1>0, <2>1, <3>1, RingUnchanged DEF SND_init, histVars
    <3>2. CASE frame_in' = 0 /\ frame_out' = 0
      <4>1. log' = << >> /\ heard' = << >>
        BY <1>0, <2>1 DEF SND_init, BeforeInit, histVars
      <4>2. Used' = 0
        BY <3>2 DEF Used
      <4> QED BY <4>1, <4>2 DEF RingHoldsBacklog
    <3> QED BY <2>1, <3>1, <3>2 DEF SND_init
  <2>2. CASE SND_quit \/ PauseAudio \/ ResumeAudio
    BY <1>0, <2>2, RingUnchanged DEF SND_quit, PauseAudio, ResumeAudio, histVars
  <2>3. CASE \E k \in 1 .. MaxBatch : BatchBegin(k)
    BY <1>0, <2>3, RingUnchanged DEF BatchBegin, histVars
  <2>4. CASE BatchUnlock \/ BatchRelock \/ BatchWaited \/ BatchAgain \/ BatchReturn
    BY <1>0, <2>4, RingUnchanged
       DEF BatchUnlock, BatchRelock, BatchWaited, BatchAgain, BatchReturn, histVars
  <2>5. CASE BatchPush
    <3>1. UNCHANGED heard /\ fed + 1 \in Nat
      BY <1>0, <2>5 DEF BatchPush, RingTypeOK
    <3>2. CASE WriteFrame(fed + 1)
      BY <1>0, <2>5, <3>1, <3>2, PushStep, WriteKeepsBacklog
    <3>3. CASE UNCHANGED <<ringVars, log>>
      BY <1>0, <3>1, <3>3, RingUnchanged
    <3> QED BY <2>5, <3>2, <3>3, PushStep
  <2>6. CASE CallbackBegin \/ CallbackEnd
    BY <1>0, <2>6, RingUnchanged DEF CallbackBegin, CallbackEnd, histVars
  <2>7. CASE CallbackFrame
    BY <1>0, <2>7, PlayKeepsBacklog
  <2>8. CASE UNCHANGED audioVars
    BY <1>0, <2>8, RingUnchanged DEF audioVars, histVars
  <2> QED BY <2>1, <2>2, <2>3, <2>4, <2>5, <2>6, <2>7, <2>8 DEF RingNext, BatchStep, SdlStep
<1>4. BeforeInit'
  <2>1. CASE SND_init
    BY <2>1 DEF SND_init, BeforeInit
  <2>2. CASE SND_quit \/ PauseAudio \/ ResumeAudio
    BY <2>2 DEF SND_quit, PauseAudio, ResumeAudio, BeforeInit
  <2>3. CASE \E k \in 1 .. MaxBatch : BatchBegin(k)
    BY <2>3 DEF BatchBegin, BeforeInit
  <2>4. CASE BatchStep
    <3>1. UNCHANGED status
      BY <2>4 DEF BatchStep, BatchUnlock, BatchRelock, BatchWaited, BatchPush, BatchAgain, BatchReturn
    <3>2. pc # "idle"
      BY <2>4 DEF BatchStep, BatchUnlock, BatchRelock, BatchWaited, BatchPush, BatchAgain, BatchReturn
    <3> QED BY <1>0, <3>1, <3>2 DEF BeforeInit, LockDiscipline
  <2>5. CASE SdlStep
    <3>1. UNCHANGED status /\ frame_count # 0
      BY <1>0, <2>5 DEF SdlStep, CallbackBegin, CallbackFrame, CallbackEnd, LockDiscipline
    <3> QED BY <1>0, <3>1 DEF BeforeInit
  <2>6. CASE UNCHANGED audioVars
    BY <1>0, <2>6 DEF audioVars, BeforeInit, ringVars, histVars
  <2> QED BY <2>1, <2>2, <2>3, <2>4, <2>5, <2>6 DEF RingNext
<1>5. Budget'
  <2> USE <1>0, AudioAssumption DEF AudioAssumption, RingTypeOK, Budget, batchVars, histVars
  <2>1. CASE SND_init \/ SND_quit \/ PauseAudio \/ ResumeAudio
    BY <2>1 DEF SND_init, SND_quit, PauseAudio, ResumeAudio
  <2>2. CASE \E k \in 1 .. MaxBatch : BatchBegin(k)
    BY <2>2 DEF BatchBegin, Lesser
  <2>3. CASE BatchUnlock \/ BatchRelock \/ BatchWaited \/ BatchReturn
    BY <2>3 DEF BatchUnlock, BatchRelock, BatchWaited, BatchReturn
  <2>4. CASE BatchAgain
    BY <2>4 DEF BatchAgain, Lesser
  <2>5. CASE BatchPush
    BY <2>5, PushStep DEF Consume
  <2>6. CASE SdlStep
    BY <2>6 DEF SdlStep, CallbackBegin, CallbackFrame, CallbackEnd
  <2>7. CASE UNCHANGED audioVars
    BY <2>7 DEF audioVars
  <2> QED BY <2>1, <2>2, <2>3, <2>4, <2>5, <2>6, <2>7 DEF RingNext, BatchStep
<1> QED BY <1>t, <1>1, <1>2, <1>3, <1>4, <1>5 DEF RingInv

-----------------------------------------------------------------------------
(* The inductive invariant holds of every behaviour of the ring. *)
THEOREM RingCorrect == RingSpec => []RingInv
BY RingInitInv, RingInvStep, PTL DEF RingSpec

(* Every index into the ring is inside the buffer, whatever the sizes.      *)
THEOREM RingTypes == RingSpec => []RingTypeOK
<1>1. RingInv => RingTypeOK
  BY DEF RingInv
<1> QED BY <1>1, RingCorrect, PTL

(* Frames leave the ring in the order they entered it, none is lost,        *)
(* repeated or overwritten: what the ring holds is the backlog.             *)
THEOREM RingIsFaithful == RingSpec => []RingHoldsBacklog
<1>1. RingInv => RingHoldsBacklog
  BY DEF RingInv
<1> QED BY <1>1, RingCorrect, PTL

(* The threads touch the ring only under the SDL audio lock, and the writer *)
(* stops one slot short of the reader.                                      *)
THEOREM RingLocked == RingSpec => [](LockDiscipline /\ RingShape)
<1>1. RingInv => LockDiscipline /\ RingShape
  BY DEF RingInv
<1> QED BY <1>1, RingCorrect, PTL

-----------------------------------------------------------------------------
(* Drift.  NoDrift says nothing of the rates themselves: that they are not  *)
(* zero while frames are written, and that SND_init changes them only while *)
(* nothing was written, is RatesInv.                                        *)
RatesInv ==
  IF status = "closed" THEN fed = 0 /\ diff = 0 /\ log = << >> /\ pc = "idle"
  ELSE sample_rate_in > 0 /\ sample_rate_out > 0

DriftInv == RingInv /\ RatesInv /\ NoDrift

(* The quotient of an exact division with a remainder. *)
LEMMA DivOf ==
  ASSUME NEW q \in Nat, NEW d \in Nat \ {0}, NEW r \in Nat, r < d
  PROVE  (q * d + r) \div d = q
OBVIOUS

LEMMA Distribute == \A a, b, c \in Int : (a + b) * c = a * c + b * c
OBVIOUS

(* A step that writes nothing and leaves rates, diff and fed alone. *)
LEMMA DriftUnchanged ==
  ASSUME NoDrift, UNCHANGED <<rates, diff, fed, log>>
  PROVE  NoDrift'
BY DEF NoDrift, ResampleExact, DiffIsClockSkew, rates

(* A written frame extends an exact log when its tick falls into the input  *)
(* frame in force.                                                          *)
LEMMA WriteKeepsExact ==
  ASSUME RingTypeOK, ResampleExact, UNCHANGED rates, log' = Append(log, fed + 1),
         (Len(log) * sample_rate_in) \div sample_rate_out = fed
  PROVE  ResampleExact'
<1>1. /\ log \in Seq(Nat) /\ Len(log) \in Nat /\ Len(log') = Len(log) + 1
      /\ log'[Len(log) + 1] = fed + 1
      /\ \A k \in 1 .. Len(log) : log'[k] = log[k]
  BY DEF RingTypeOK
<1>2. sample_rate_in' = sample_rate_in /\ sample_rate_out' = sample_rate_out
  BY DEF rates
<1> SUFFICES ASSUME NEW n \in 1 .. Len(log) + 1
             PROVE  log'[n] = ((n - 1) * sample_rate_in) \div sample_rate_out + 1
  BY <1>1, <1>2 DEF ResampleExact
<1>3. CASE n \in 1 .. Len(log)
  BY <1>1, <1>3 DEF ResampleExact
<1>4. CASE n = Len(log) + 1
  <2>1. n - 1 = Len(log)
    BY <1>1, <1>4
  <2> QED BY <1>1, <1>4, <2>1
<1> QED BY <1>1, <1>3, <1>4

(* SND_resampleNone copies: the n-th frame out is the n-th frame in. *)
LEMMA NoneKeepsExact ==
  ASSUME DriftInv, BatchPush, SND_resampleNone
  PROVE  NoDrift'
<1>0. /\ RingTypeOK /\ ResampleExact /\ diff = 0 /\ fed = Len(log) /\ fed \in Nat
      /\ sample_rate_in = sample_rate_out /\ sample_rate_out \in Nat \ {0}
      /\ UNCHANGED rates
  BY DEF DriftInv, RingInv, NoDrift, DiffIsClockSkew, RatesInv, SND_resampleNone, RingTypeOK,
         BatchPush, LockDiscipline
<1>1. log' = Append(log, fed + 1) /\ fed' = fed + 1 /\ diff' = diff
  BY DEF SND_resampleNone, WriteFrame, Consume
<1>2. (Len(log) * sample_rate_in) \div sample_rate_out = fed
  <2>1. Len(log) * sample_rate_in = fed * sample_rate_out + 0
    BY <1>0
  <2> QED BY <1>0, <2>1, DivOf
<1>3. ResampleExact'
  BY <1>0, <1>1, <1>2, WriteKeepsExact
<1>4. Len(log') = Len(log) + 1
  BY <1>0, <1>1 DEF RingTypeOK
<1> QED BY <1>0, <1>1, <1>3, <1>4 DEF NoDrift, DiffIsClockSkew, rates

(* SND_resampleNear carries the remainder: diff stays the distance between  *)
(* the two clocks, so each frame is written at its own tick.                *)
LEMMA NearKeepsExact ==
  ASSUME DriftInv, BatchPush, SND_resampleNear
  PROVE  NoDrift'
<1> DEFINE in == sample_rate_in
           out == sample_rate_out
           n == Len(log)
           writes == diff < out
           grown == IF writes THEN diff + in ELSE diff
           takes == grown >= out
<1>0. /\ RingTypeOK /\ ResampleExact
      /\ in # out /\ in \in Nat \ {0} /\ out \in Nat \ {0}
      /\ diff \in Nat /\ fed \in Nat /\ n \in Nat /\ log \in Seq(Nat)
      /\ UNCHANGED rates
  BY DEF DriftInv, RingInv, NoDrift, RatesInv, SND_resampleNear, RingTypeOK, BatchPush,
         LockDiscipline
<1>1. diff = n * in - fed * out /\ (diff < in \/ diff < out)
  BY <1>0 DEF DriftInv, NoDrift, DiffIsClockSkew
<1>2. /\ IF writes THEN log' = Append(log, fed + 1) ELSE log' = log
      /\ diff' = IF takes THEN grown - out ELSE grown
      /\ fed' = IF takes THEN fed + 1 ELSE fed
  BY <1>0 DEF SND_resampleNear, WriteFrame, Consume
<1>3. n * in \in Nat /\ fed * out \in Nat /\ n * in = fed * out + diff
  BY <1>0, <1>1
<1>4. ResampleExact'
  <2>1. CASE writes
    <3>1. (n * in) \div out = fed
      BY <1>0, <1>3, <2>1, DivOf
    <3> QED BY <1>0, <1>2, <2>1, <3>1, WriteKeepsExact
  <2>2. CASE ~writes
    BY <1>0, <1>2, <2>2 DEF ResampleExact, rates
  <2> QED BY <2>1, <2>2
<1>5. Len(log') * in = n * in + (IF writes THEN in ELSE 0)
  <2>1. CASE writes
    <3>1. Len(log') = n + 1
      BY <1>0, <1>2, <2>1
    <3>2. (n + 1) * in = n * in + 1 * in
      BY <1>0, Distribute
    <3> QED BY <1>0, <2>1, <3>1, <3>2
  <2>2. CASE ~writes
    BY <1>0, <1>2, <2>2
  <2> QED BY <2>1, <2>2
<1>6. fed' * out = fed * out + (IF takes THEN out ELSE 0)
  <2>1. CASE takes
    <3>1. (fed + 1) * out = fed * out + 1 * out
      BY <1>0, Distribute
    <3> QED BY <1>0, <1>2, <2>1, <3>1
  <2>2. CASE ~takes
    BY <1>0, <1>2, <2>2
  <2> QED BY <2>1, <2>2
<1>7. diff' = Len(log') * in - fed' * out
  <2> HIDE DEF n
  <2>1. \A a, b, x, y \in Int : a = b + diff => (a + x) - (b + y) = diff + x - y
    BY <1>0
  <2> QED BY <1>0, <1>2, <1>3, <1>5, <1>6
<1>8. diff' < in \/ diff' < out
  BY <1>0, <1>1, <1>2
<1> QED BY <1>0, <1>4, <1>7, <1>8 DEF NoDrift, DiffIsClockSkew, rates

LEMMA DriftStep == DriftInv /\ [RingNext]_audioVars => DriftInv'
<1> SUFFICES ASSUME DriftInv, [RingNext]_audioVars PROVE DriftInv'
  OBVIOUS
<1>0. RingInv /\ RatesInv /\ NoDrift /\ RingTypeOK
  BY DEF DriftInv, RingInv
<1>1. RingInv'
  BY <1>0, RingInvStep
<1> USE AudioAssumption DEF AudioAssumption, rates, histVars, batchVars
<1>2. CASE SND_init
  <2>1. RatesInv'
    BY <1>2 DEF SND_init, RatesInv
  <2>2. fed' = 0 /\ diff' = 0 /\ log' = << >>
    BY <1>0, <1>2 DEF SND_init, RatesInv
  <2>3. NoDrift'
    <3>1. sample_rate_in' \in Nat /\ sample_rate_out' \in Nat
      BY <1>1 DEF RingInv, RingTypeOK
    <3>2. diff' < sample_rate_in' \/ diff' < sample_rate_out'
      BY <1>2, <2>2, <3>1 DEF SND_init
    <3>3. Len(log') = 0
      BY <2>2
    <3>4. ResampleExact'
      BY <3>3 DEF ResampleExact
    <3>5. Len(log') * sample_rate_in' - fed' * sample_rate_out' = 0
      <4>1. \A a, b \in Nat : 0 * a - 0 * b = 0
        OBVIOUS
      <4>2. 0 * sample_rate_in' - 0 * sample_rate_out' = 0
        BY <3>1, <4>1
      <4>3. fed' = 0
        BY <2>2
      <4> HIDE AudioAssumption DEF AudioAssumption, rates, histVars, batchVars
      <4> QED BY <3>3, <4>2, <4>3
    <3>6. DiffIsClockSkew'
      BY <2>2, <3>2, <3>3, <3>5 DEF DiffIsClockSkew
    <3> QED BY <3>4, <3>6 DEF NoDrift
  <2> QED BY <1>1, <2>1, <2>3 DEF DriftInv
<1>3. CASE BatchPush
  <2>1. NoDrift'
    BY <1>3, NoneKeepsExact, NearKeepsExact DEF BatchPush
  <2>2. RatesInv'
    BY <1>0, <1>3 DEF BatchPush, RatesInv
  <2> QED BY <1>1, <2>1, <2>2 DEF DriftInv
<1>4. CASE SND_quit \/ PauseAudio \/ ResumeAudio
  BY <1>0, <1>1, <1>4, DriftUnchanged DEF SND_quit, PauseAudio, ResumeAudio, RatesInv, DriftInv
<1>5. CASE \E k \in 1 .. MaxBatch : BatchBegin(k)
  BY <1>0, <1>1, <1>5, DriftUnchanged DEF BatchBegin, RatesInv, DriftInv
<1>6. CASE BatchUnlock \/ BatchRelock \/ BatchWaited \/ BatchAgain \/ BatchReturn
  BY <1>0, <1>1, <1>6, DriftUnchanged
     DEF BatchUnlock, BatchRelock, BatchWaited, BatchAgain, BatchReturn, RatesInv, DriftInv
<1>7. CASE SdlStep
  BY <1>0, <1>1, <1>7, DriftUnchanged
     DEF SdlStep, CallbackBegin, CallbackFrame, CallbackEnd, RatesInv, DriftInv
<1>8. CASE UNCHANGED audioVars
  BY <1>0, <1>1, <1>8, DriftUnchanged DEF audioVars, RatesInv, DriftInv
<1> QED BY <1>2, <1>3, <1>4, <1>5, <1>6, <1>7, <1>8 DEF RingNext, BatchStep

(* However SND_batchSamples cuts the input and however often it waits, the  *)
(* n-th frame written is the input frame in force at the n-th tick of the   *)
(* device's clock, and the carried remainder is the distance of the clocks, *)
(* for every pair of rates.                                                 *)
THEOREM RingNeverDrifts == RingSpec => []NoDrift
<1>1. RingInit => DriftInv
  <2>1. RingInit => RatesInv
    BY DEF RingInit, RatesInv
  <2>2. RingInit => NoDrift
    BY DEF RingInit, NoDrift, ResampleExact, DiffIsClockSkew
  <2> QED BY <2>1, <2>2, RingInitInv DEF DriftInv
<1>2. DriftInv => NoDrift
  BY DEF DriftInv
<1> QED BY <1>1, <1>2, DriftStep, PTL DEF RingSpec

-----------------------------------------------------------------------------
(* Refinement: every write is an Accept, every playing step a Play, and all *)
(* other steps leave the queue as it is.                                    *)
LEMMA InitRefines == RingInit => Fifo!FifoInit
BY DEF RingInit, Fifo!FifoInit

LEMMA StepRefines == RingInv /\ [RingNext]_audioVars => [Fifo!FifoNext]_(Fifo!fifoVars)
<1> SUFFICES ASSUME RingInv, [RingNext]_audioVars PROVE [Fifo!FifoNext]_(Fifo!fifoVars)
  OBVIOUS
<1> USE DEF Fifo!fifoVars
<1>0. RingTypeOK /\ RingShape /\ RingHoldsBacklog
  BY DEF RingInv
<1>1. CASE SND_init \/ SND_quit \/ PauseAudio \/ ResumeAudio
  BY <1>1 DEF SND_init, SND_quit, PauseAudio, ResumeAudio, histVars
<1>2. CASE \E k \in 1 .. MaxBatch : BatchBegin(k)
  BY <1>2 DEF BatchBegin, histVars
<1>3. CASE BatchUnlock \/ BatchRelock \/ BatchWaited \/ BatchAgain \/ BatchReturn
  BY <1>3 DEF BatchUnlock, BatchRelock, BatchWaited, BatchAgain, BatchReturn, histVars
<1>4. CASE BatchPush
  <2>1. UNCHANGED heard
    BY <1>4 DEF BatchPush
  <2>2. CASE WriteFrame(fed + 1)
    <3>1. Len(log) - Len(heard) < FrameCount - 1
      <4>1. Used \in 0 .. FrameCount - 2
        BY <1>0, <1>4, PushStep, WriteSlot
      <4>2. Len(log) = Len(heard) + Used /\ Len(heard) \in Nat
        BY <1>0 DEF RingHoldsBacklog, RingTypeOK
      <4> QED BY <4>1, <4>2, AudioAssumption DEF AudioAssumption
    <3>2. log' = Append(log, fed + 1) /\ fed + 1 \in 1 .. MaxFed
      BY <1>4, <2>2, PushStep DEF WriteFrame
    <3> QED BY <2>1, <3>1, <3>2 DEF Fifo!FifoNext, Fifo!Accept
  <2>3. CASE UNCHANGED <<ringVars, log>>
    BY <2>1, <2>3
  <2> QED BY <1>4, <2>2, <2>3, PushStep
<1>5. CASE CallbackBegin \/ CallbackEnd
  BY <1>5 DEF CallbackBegin, CallbackEnd, histVars
<1>6. CASE CallbackFrame
  <2>1. Used \in Nat /\ Used > 0 /\ Slot(0) = frame_out
    BY <1>0, <1>6, PlaySlot, AudioAssumption DEF AudioAssumption, CallbackFrame
  <2>2. Len(heard) < Len(log)
    BY <1>0, <2>1 DEF RingHoldsBacklog, RingTypeOK
  <2>3. buffer[frame_out] = log[Len(heard) + 1]
    BY <1>0, <2>1 DEF RingHoldsBacklog, RingTypeOK
  <2>4. heard' = Append(heard, log[Len(heard) + 1]) /\ UNCHANGED log
    BY <1>6, <2>3 DEF CallbackFrame
  <2> QED BY <2>2, <2>4 DEF Fifo!FifoNext, Fifo!Play
<1>7. CASE UNCHANGED audioVars
  BY <1>7 DEF audioVars, histVars
<1> QED BY <1>1, <1>2, <1>3, <1>4, <1>5, <1>6, <1>7 DEF RingNext, BatchStep, SdlStep

(* The audio ring implements the bounded first-in first-out queue of        *)
(* AudioFifo, of capacity one less than the number of slots.                *)
THEOREM RingImplementsFifo == RingSpec => FifoSpec
<1>1. RingInit => Fifo!FifoInit
  BY InitRefines
<1>2. RingInv /\ [RingNext]_audioVars => [Fifo!FifoNext]_(Fifo!fifoVars)
  BY StepRefines
<1> QED BY <1>1, <1>2, RingCorrect, PTL DEF RingSpec, FifoSpec, Fifo!FifoSpec

-----------------------------------------------------------------------------
(* Threaded video.                                                         *)

(* coreThread exists exactly while thread_video is set, up to the two       *)
(* places where main is about to create or to join it.                      *)
ModeInv ==
  /\ ~thread_video /\ main \notin {"cancel", "join"} => core = "none"
  /\ main \in {"run", "cancel", "join"} => ~thread_video
  /\ main \in {"lock", "test", "wait", "relock", "render"} => thread_video
  /\ main = "create" => thread_video /\ core = "none"
  /\ mx <=> main \in {"test", "render"}

(* Only a thread inside core.run has callbacks or the end of one to do. *)
OwedInv ==
  /\ main # "run" => todo["main"] = {} /\ pend["main"] = "none"
  /\ core # "run" => todo["core"] = {} /\ pend["core"] = "none"

(* With threading on, from the press of MENU until the menu's end coreThread *)
(* neither starts a run nor polls again.                                     *)
PausedInv ==
  /\ main = "menu" => show_menu
  /\ main = "menuEnd" => ~show_menu
  /\ ~thread_video /\ main \in {"toggle?", "flip"} => ~show_menu
  /\ main = "create" => ~show_menu
  /\ thread_video /\ (show_menu \/ main = "menuEnd") =>
       /\ core = "head" => ~should_run_core
       /\ core = "run" => "poll" \notin todo["core"]
       /\ core = "run" => pend["core"] = "pause" \/ ~should_run_core

VideoInv == TypeOK /\ ModeInv /\ OwedInv /\ PausedInv /\ QuitWakesWaiter

-----------------------------------------------------------------------------
LEMMA InitVideo == Init => VideoInv
<1> SUFFICES ASSUME Init PROVE VideoInv
  OBVIOUS
<1>1. TypeOK
  BY InputsAssumption DEF InputsAssumption, Init, TypeOK, FlagsOK, PlacesOK, Threads, Callbacks
<1>2. ModeInv /\ PausedInv /\ QuitWakesWaiter
  BY DEF Init, ModeInv, PausedInv, QuitWakesWaiter
<1>3. OwedInv
  BY DEF Init, OwedInv, Threads
<1> QED BY <1>1, <1>2, <1>3 DEF VideoInv

(* Every step keeps the flags truth values. *)
LEMMA FlagsStep == VideoInv /\ [Next]_vars => FlagsOK'
<1> SUFFICES ASSUME VideoInv, [Next]_vars PROVE FlagsOK'
  OBVIOUS
<1> USE DEF VideoInv, TypeOK, FlagsOK
<1>1. ASSUME NEW t \in Threads, Callback(t) PROVE FlagsOK'
  <2>1. CASE VideoCallback(t)
    BY <2>1 DEF VideoCallback, Woken, InRun, flags, run
  <2>2. CASE AudioCallback(t)
    BY <2>2 DEF AudioCallback, InRun, flags, run
  <2>3. CASE PollIdle(t)
    BY <2>3 DEF PollIdle, Polling, InRun, flags, run
  <2>4. CASE PollPowerPress(t)
    BY <2>4 DEF PollPowerPress, Polling, Pressed, InRun, flags, run
  <2>5. CASE PollPowerRelease(t)
    BY <2>5 DEF PollPowerRelease, Polling, InRun, flags, run
  <2>6. CASE PollToggleFF(t)
    BY <2>6 DEF PollToggleFF, Polling, Pressed, setFastForward, InRun, flags, run
  <2>7. CASE PollHoldFF(t)
    BY <2>7 DEF PollHoldFF, Polling, Pressed, setFastForward, InRun, flags, run
  <2>8. CASE PollSaveQuit(t)
    BY <2>8 DEF PollSaveQuit, Polling, Pressed, InRun, flags, run
  <2>9. CASE PollMenu(t)
    BY <2>9 DEF PollMenu, Polling, Pressed, InRun, flags, run
  <2>10. CASE PollBroadcast(t)
    BY <2>10 DEF PollBroadcast, Woken, InRun, flags, run
  <2>11. CASE PollPause(t)
    BY <2>11 DEF PollPause, InRun, flags, run
  <2> QED BY <1>1, <2>1, <2>2, <2>3, <2>4, <2>5, <2>6, <2>7, <2>8, <2>9, <2>10, <2>11 DEF Callback, PollEvent
<1>2. CASE CoreRun
  BY <1>2 DEF CoreRun, Runs, Goto, flags, run
<1>3. CASE CoreSpin
  BY <1>3 DEF CoreSpin, vars, Goto, flags, run
<1>4. CASE CoreRunDone
  BY <1>4 DEF CoreRunDone, RunOver, InRun, Goto, flags, run
<1>5. CASE CoreExit
  BY <1>5 DEF CoreExit, Goto, flags, run
<1>6. CASE CoreCancelled
  BY <1>6 DEF CoreCancelled, Goto, flags, run
<1>7. CASE LoopExit
  BY <1>7 DEF LoopExit, Goto, flags, run
<1>8. CASE LoopRun
  BY <1>8 DEF LoopRun, Runs, Goto, flags, run
<1>9. CASE LoopRunDone
  BY <1>9 DEF LoopRunDone, RunOver, InRun, Goto, flags, run
<1>10. CASE LoopThreaded
  BY <1>10 DEF LoopThreaded, Goto, flags, run
<1>11. CASE FrameLock
  BY <1>11 DEF FrameLock, Goto, flags, run
<1>12. CASE FrameSkip
  BY <1>12 DEF FrameSkip, Goto, flags, run
<1>13. CASE FrameWait
  BY <1>13 DEF FrameWait, Goto, flags, run
<1>14. CASE FrameTake
  BY <1>14 DEF FrameTake, Goto, flags, run
<1>15. CASE FrameRender
  BY <1>15 DEF FrameRender, Goto, flags, run
<1>16. CASE FrameSpurious
  BY <1>16 DEF FrameSpurious, Goto, flags, run
<1>17. CASE MenuCheck
  BY <1>17 DEF MenuCheck, Goto, flags, run
<1>18. CASE MenuSetThread
  BY <1>18 DEF MenuSetThread, Pressed, Goto, flags, run
<1>19. CASE MenuLeave
  BY <1>19 DEF MenuLeave, Goto, flags, run
<1>20. CASE MenuEnd
  BY <1>20 DEF MenuEnd, Goto, flags, run
<1>21. CASE ToggleSkip
  BY <1>21 DEF ToggleSkip, Goto, flags, run
<1>22. CASE ToggleTake
  BY <1>22 DEF ToggleTake, Goto, flags, run
<1>23. CASE ToggleFlip
  BY <1>23 DEF ToggleFlip, Goto, flags, run
<1>24. CASE ToggleCreate
  BY <1>24 DEF ToggleCreate, Goto, flags, run
<1>25. CASE ToggleCancel
  BY <1>25 DEF ToggleCancel, Goto, flags, run
<1>26. CASE ToggleJoin
  BY <1>26 DEF ToggleJoin, Goto, flags, run
<1>27. CASE ToggleJoinNone
  BY <1>27 DEF ToggleJoinNone, Goto, flags, run
<1>28. CASE hdmimon
  BY <1>28, ZenonT(30) DEF hdmimon, Goto, flags, run
<1>29. CASE Teardown
  BY <1>29 DEF Teardown, Goto, flags, run
<1>30. CASE Terminated \/ UNCHANGED vars
  BY <1>30 DEF Terminated, vars, flags, run
<1> QED BY <1>1, <1>2, <1>3, <1>4, <1>5, <1>6, <1>7, <1>8, <1>9, <1>10, <1>11, <1>12, <1>13, <1>14, <1>15, <1>16, <1>17, <1>18, <1>19, <1>20, <1>21, <1>22, <1>23, <1>24, <1>25, <1>26, <1>27, <1>28, <1>29, <1>30
   DEF Next, CoreStep, MainStep, FrameStep, ToggleStep, UserStep

(* Every step keeps every thread at a known place. *)
LEMMA PlacesStep == VideoInv /\ [Next]_vars => PlacesOK'
<1> SUFFICES ASSUME VideoInv, [Next]_vars PROVE PlacesOK'
  OBVIOUS
<1> USE DEF VideoInv, TypeOK, PlacesOK, Threads, Callbacks
<1>1. ASSUME NEW t \in Threads, Callback(t) PROVE PlacesOK'
  <2>1. CASE VideoCallback(t)
    BY <2>1 DEF VideoCallback, Woken, InRun, flags, run
  <2>2. CASE AudioCallback(t)
    BY <2>2 DEF AudioCallback, InRun, flags, run
  <2>3. CASE PollIdle(t)
    BY <2>3 DEF PollIdle, Polling, InRun, flags, run
  <2>4. CASE PollPowerPress(t)
    BY <2>4 DEF PollPowerPress, Polling, Pressed, InRun, flags, run
  <2>5. CASE PollPowerRelease(t)
    BY <2>5 DEF PollPowerRelease, Polling, InRun, flags, run
  <2>6. CASE PollToggleFF(t)
    BY <2>6 DEF PollToggleFF, Polling, Pressed, setFastForward, InRun, flags, run
  <2>7. CASE PollHoldFF(t)
    BY <2>7 DEF PollHoldFF, Polling, Pressed, setFastForward, InRun, flags, run
  <2>8. CASE PollSaveQuit(t)
    BY <2>8 DEF PollSaveQuit, Polling, Pressed, InRun, flags, run
  <2>9. CASE PollMenu(t)
    BY <2>9 DEF PollMenu, Polling, Pressed, InRun, flags, run
  <2>10. CASE PollBroadcast(t)
    BY <2>10 DEF PollBroadcast, Woken, InRun, flags, run
  <2>11. CASE PollPause(t)
    BY <2>11 DEF PollPause, InRun, flags, run
  <2> QED BY <1>1, <2>1, <2>2, <2>3, <2>4, <2>5, <2>6, <2>7, <2>8, <2>9, <2>10, <2>11 DEF Callback, PollEvent
<1>2. CASE CoreRun
  BY <1>2 DEF CoreRun, Runs, Goto, flags, run
<1>3. CASE CoreSpin
  BY <1>3 DEF CoreSpin, vars, Goto, flags, run
<1>4. CASE CoreRunDone
  BY <1>4 DEF CoreRunDone, RunOver, InRun, Goto, flags, run
<1>5. CASE CoreExit
  BY <1>5 DEF CoreExit, Goto, flags, run
<1>6. CASE CoreCancelled
  BY <1>6 DEF CoreCancelled, Goto, flags, run
<1>7. CASE LoopExit
  BY <1>7 DEF LoopExit, Goto, flags, run
<1>8. CASE LoopRun
  BY <1>8 DEF LoopRun, Runs, Goto, flags, run
<1>9. CASE LoopRunDone
  BY <1>9 DEF LoopRunDone, RunOver, InRun, Goto, flags, run
<1>10. CASE LoopThreaded
  BY <1>10 DEF LoopThreaded, Goto, flags, run
<1>11. CASE FrameLock
  BY <1>11 DEF FrameLock, Goto, flags, run
<1>12. CASE FrameSkip
  BY <1>12 DEF FrameSkip, Goto, flags, run
<1>13. CASE FrameWait
  BY <1>13 DEF FrameWait, Goto, flags, run
<1>14. CASE FrameTake
  BY <1>14 DEF FrameTake, Goto, flags, run
<1>15. CASE FrameRender
  BY <1>15 DEF FrameRender, Goto, flags, run
<1>16. CASE FrameSpurious
  BY <1>16 DEF FrameSpurious, Goto, flags, run
<1>17. CASE MenuCheck
  BY <1>17 DEF MenuCheck, Goto, flags, run
<1>18. CASE MenuSetThread
  BY <1>18 DEF MenuSetThread, Pressed, Goto, flags, run
<1>19. CASE MenuLeave
  BY <1>19 DEF MenuLeave, Goto, flags, run
<1>20. CASE MenuEnd
  BY <1>20 DEF MenuEnd, Goto, flags, run
<1>21. CASE ToggleSkip
  BY <1>21 DEF ToggleSkip, Goto, flags, run
<1>22. CASE ToggleTake
  BY <1>22 DEF ToggleTake, Goto, flags, run
<1>23. CASE ToggleFlip
  BY <1>23 DEF ToggleFlip, Goto, flags, run
<1>24. CASE ToggleCreate
  BY <1>24 DEF ToggleCreate, Goto, flags, run
<1>25. CASE ToggleCancel
  BY <1>25 DEF ToggleCancel, Goto, flags, run
<1>26. CASE ToggleJoin
  BY <1>26 DEF ToggleJoin, Goto, flags, run
<1>27. CASE ToggleJoinNone
  BY <1>27 DEF ToggleJoinNone, Goto, flags, run
<1>28. CASE hdmimon
  BY <1>28 DEF hdmimon, Goto, flags, run
<1>29. CASE Teardown
  BY <1>29 DEF Teardown, Goto, flags, run
<1>30. CASE Terminated \/ UNCHANGED vars
  BY <1>30 DEF Terminated, vars, flags, run
<1> QED BY <1>1, <1>2, <1>3, <1>4, <1>5, <1>6, <1>7, <1>8, <1>9, <1>10, <1>11, <1>12, <1>13, <1>14, <1>15, <1>16, <1>17, <1>18, <1>19, <1>20, <1>21, <1>22, <1>23, <1>24, <1>25, <1>26, <1>27, <1>28, <1>29, <1>30
   DEF Next, CoreStep, MainStep, FrameStep, ToggleStep, UserStep

(* Every step keeps the tie between mode, threads and mutex. *)
LEMMA ModeStep == VideoInv /\ [Next]_vars => ModeInv'
<1> SUFFICES ASSUME VideoInv, [Next]_vars PROVE ModeInv'
  OBVIOUS
<1> USE DEF VideoInv, TypeOK, PlacesOK, ModeInv, OwedInv, Threads
<1>1. ASSUME NEW t \in Threads, Callback(t) PROVE ModeInv'
  <2>1. CASE VideoCallback(t)
    BY <2>1 DEF VideoCallback, Woken, InRun, flags, run
  <2>2. CASE AudioCallback(t)
    BY <2>2 DEF AudioCallback, InRun, flags, run
  <2>3. CASE PollIdle(t)
    BY <2>3 DEF PollIdle, Polling, InRun, flags, run
  <2>4. CASE PollPowerPress(t)
    BY <2>4 DEF PollPowerPress, Polling, Pressed, InRun, flags, run
  <2>5. CASE PollPowerRelease(t)
    BY <2>5 DEF PollPowerRelease, Polling, InRun, flags, run
  <2>6. CASE PollToggleFF(t)
    BY <2>6 DEF PollToggleFF, Polling, Pressed, setFastForward, InRun, flags, run
  <2>7. CASE PollHoldFF(t)
    BY <2>7 DEF PollHoldFF, Polling, Pressed, setFastForward, InRun, flags, run
  <2>8. CASE PollSaveQuit(t)
    BY <2>8 DEF PollSaveQuit, Polling, Pressed, InRun, flags, run
  <2>9. CASE PollMenu(t)
    BY <2>9 DEF PollMenu, Polling, Pressed, InRun, flags, run
  <2>10. CASE PollBroadcast(t)
    BY <2>10 DEF PollBroadcast, Woken, InRun, flags, run
  <2>11. CASE PollPause(t)
    BY <2>11 DEF PollPause, InRun, flags, run
  <2> QED BY <1>1, <2>1, <2>2, <2>3, <2>4, <2>5, <2>6, <2>7, <2>8, <2>9, <2>10, <2>11 DEF Callback, PollEvent
<1>2. CASE CoreRun
  BY <1>2 DEF CoreRun, Runs, Goto, flags, run
<1>3. CASE CoreSpin
  BY <1>3 DEF CoreSpin, vars, Goto, flags, run
<1>4. CASE CoreRunDone
  BY <1>4 DEF CoreRunDone, RunOver, InRun, Goto, flags, run
<1>5. CASE CoreExit
  BY <1>5 DEF CoreExit, Goto, flags, run
<1>6. CASE CoreCancelled
  BY <1>6 DEF CoreCancelled, Goto, flags, run
<1>7. CASE LoopExit
  BY <1>7 DEF LoopExit, Goto, flags, run
<1>8. CASE LoopRun
  BY <1>8 DEF LoopRun, Runs, Goto, flags, run
<1>9. CASE LoopRunDone
  BY <1>9 DEF LoopRunDone, RunOver, InRun, Goto, flags, run
<1>10. CASE LoopThreaded
  BY <1>10 DEF LoopThreaded, Goto, flags, run
<1>11. CASE FrameLock
  BY <1>11 DEF FrameLock, Goto, flags, run
<1>12. CASE FrameSkip
  BY <1>12 DEF FrameSkip, Goto, flags, run
<1>13. CASE FrameWait
  BY <1>13 DEF FrameWait, Goto, flags, run
<1>14. CASE FrameTake
  BY <1>14 DEF FrameTake, Goto, flags, run
<1>15. CASE FrameRender
  BY <1>15 DEF FrameRender, Goto, flags, run
<1>16. CASE FrameSpurious
  BY <1>16 DEF FrameSpurious, Goto, flags, run
<1>17. CASE MenuCheck
  BY <1>17 DEF MenuCheck, Goto, flags, run
<1>18. CASE MenuSetThread
  BY <1>18 DEF MenuSetThread, Pressed, Goto, flags, run
<1>19. CASE MenuLeave
  BY <1>19 DEF MenuLeave, Goto, flags, run
<1>20. CASE MenuEnd
  BY <1>20 DEF MenuEnd, Goto, flags, run
<1>21. CASE ToggleSkip
  BY <1>21 DEF ToggleSkip, Goto, flags, run
<1>22. CASE ToggleTake
  BY <1>22 DEF ToggleTake, Goto, flags, run
<1>23. CASE ToggleFlip
  BY <1>23 DEF ToggleFlip, Goto, flags, run
<1>24. CASE ToggleCreate
  BY <1>24 DEF ToggleCreate, Goto, flags, run
<1>25. CASE ToggleCancel
  BY <1>25 DEF ToggleCancel, Goto, flags, run
<1>26. CASE ToggleJoin
  BY <1>26 DEF ToggleJoin, Goto, flags, run
<1>27. CASE ToggleJoinNone
  BY <1>27 DEF ToggleJoinNone, Goto, flags, run
<1>28. CASE hdmimon
  BY <1>28 DEF hdmimon, Goto, flags, run
<1>29. CASE Teardown
  BY <1>29 DEF Teardown, Goto, flags, run
<1>30. CASE Terminated \/ UNCHANGED vars
  BY <1>30 DEF Terminated, vars, flags, run
<1> QED BY <1>1, <1>2, <1>3, <1>4, <1>5, <1>6, <1>7, <1>8, <1>9, <1>10, <1>11, <1>12, <1>13, <1>14, <1>15, <1>16, <1>17, <1>18, <1>19, <1>20, <1>21, <1>22, <1>23, <1>24, <1>25, <1>26, <1>27, <1>28, <1>29, <1>30
   DEF Next, CoreStep, MainStep, FrameStep, ToggleStep, UserStep

(* Every step keeps the owed callbacks inside core.run. *)
LEMMA OwedStep == VideoInv /\ [Next]_vars => OwedInv'
<1> SUFFICES ASSUME VideoInv, [Next]_vars PROVE OwedInv'
  OBVIOUS
<1> USE DEF VideoInv, TypeOK, PlacesOK, ModeInv, OwedInv, Threads
<1>1. ASSUME NEW t \in Threads, Callback(t) PROVE OwedInv'
  <2>1. CASE VideoCallback(t)
    BY <2>1 DEF VideoCallback, Woken, InRun, flags, run
  <2>2. CASE AudioCallback(t)
    BY <2>2 DEF AudioCallback, InRun, flags, run
  <2>3. CASE PollIdle(t)
    BY <2>3 DEF PollIdle, Polling, InRun, flags, run
  <2>4. CASE PollPowerPress(t)
    BY <2>4 DEF PollPowerPress, Polling, Pressed, InRun, flags, run
  <2>5. CASE PollPowerRelease(t)
    BY <2>5 DEF PollPowerRelease, Polling, InRun, flags, run
  <2>6. CASE PollToggleFF(t)
    BY <2>6 DEF PollToggleFF, Polling, Pressed, setFastForward, InRun, flags, run
  <2>7. CASE PollHoldFF(t)
    BY <2>7 DEF PollHoldFF, Polling, Pressed, setFastForward, InRun, flags, run
  <2>8. CASE PollSaveQuit(t)
    BY <2>8 DEF PollSaveQuit, Polling, Pressed, InRun, flags, run
  <2>9. CASE PollMenu(t)
    BY <2>9 DEF PollMenu, Polling, Pressed, InRun, flags, run
  <2>10. CASE PollBroadcast(t)
    BY <2>10 DEF PollBroadcast, Woken, InRun, flags, run
  <2>11. CASE PollPause(t)
    BY <2>11 DEF PollPause, InRun, flags, run
  <2> QED BY <1>1, <2>1, <2>2, <2>3, <2>4, <2>5, <2>6, <2>7, <2>8, <2>9, <2>10, <2>11 DEF Callback, PollEvent
<1>2. CASE CoreRun
  BY <1>2 DEF CoreRun, Runs, Goto, flags, run
<1>3. CASE CoreSpin
  BY <1>3 DEF CoreSpin, vars, Goto, flags, run
<1>4. CASE CoreRunDone
  BY <1>4 DEF CoreRunDone, RunOver, InRun, Goto, flags, run
<1>5. CASE CoreExit
  BY <1>5 DEF CoreExit, Goto, flags, run
<1>6. CASE CoreCancelled
  BY <1>6 DEF CoreCancelled, Goto, flags, run
<1>7. CASE LoopExit
  BY <1>7 DEF LoopExit, Goto, flags, run
<1>8. CASE LoopRun
  BY <1>8 DEF LoopRun, Runs, Goto, flags, run
<1>9. CASE LoopRunDone
  BY <1>9 DEF LoopRunDone, RunOver, InRun, Goto, flags, run
<1>10. CASE LoopThreaded
  BY <1>10 DEF LoopThreaded, Goto, flags, run
<1>11. CASE FrameLock
  BY <1>11 DEF FrameLock, Goto, flags, run
<1>12. CASE FrameSkip
  BY <1>12 DEF FrameSkip, Goto, flags, run
<1>13. CASE FrameWait
  BY <1>13 DEF FrameWait, Goto, flags, run
<1>14. CASE FrameTake
  BY <1>14 DEF FrameTake, Goto, flags, run
<1>15. CASE FrameRender
  BY <1>15 DEF FrameRender, Goto, flags, run
<1>16. CASE FrameSpurious
  BY <1>16 DEF FrameSpurious, Goto, flags, run
<1>17. CASE MenuCheck
  BY <1>17 DEF MenuCheck, Goto, flags, run
<1>18. CASE MenuSetThread
  BY <1>18 DEF MenuSetThread, Pressed, Goto, flags, run
<1>19. CASE MenuLeave
  BY <1>19 DEF MenuLeave, Goto, flags, run
<1>20. CASE MenuEnd
  BY <1>20 DEF MenuEnd, Goto, flags, run
<1>21. CASE ToggleSkip
  BY <1>21 DEF ToggleSkip, Goto, flags, run
<1>22. CASE ToggleTake
  BY <1>22 DEF ToggleTake, Goto, flags, run
<1>23. CASE ToggleFlip
  BY <1>23 DEF ToggleFlip, Goto, flags, run
<1>24. CASE ToggleCreate
  BY <1>24 DEF ToggleCreate, Goto, flags, run
<1>25. CASE ToggleCancel
  BY <1>25 DEF ToggleCancel, Goto, flags, run
<1>26. CASE ToggleJoin
  BY <1>26 DEF ToggleJoin, Goto, flags, run
<1>27. CASE ToggleJoinNone
  BY <1>27 DEF ToggleJoinNone, Goto, flags, run
<1>28. CASE hdmimon
  BY <1>28 DEF hdmimon, Goto, flags, run
<1>29. CASE Teardown
  BY <1>29 DEF Teardown, Goto, flags, run
<1>30. CASE Terminated \/ UNCHANGED vars
  BY <1>30 DEF Terminated, vars, flags, run
<1> QED BY <1>1, <1>2, <1>3, <1>4, <1>5, <1>6, <1>7, <1>8, <1>9, <1>10, <1>11, <1>12, <1>13, <1>14, <1>15, <1>16, <1>17, <1>18, <1>19, <1>20, <1>21, <1>22, <1>23, <1>24, <1>25, <1>26, <1>27, <1>28, <1>29, <1>30
   DEF Next, CoreStep, MainStep, FrameStep, ToggleStep, UserStep

(* Every step keeps coreThread paused while the menu is wanted or open. *)
LEMMA PausedStep == VideoInv /\ [Next]_vars => PausedInv'
<1> SUFFICES ASSUME VideoInv, [Next]_vars PROVE PausedInv'
  OBVIOUS
<1> USE DEF VideoInv, TypeOK, PlacesOK, ModeInv, OwedInv, PausedInv, Threads
<1>1. ASSUME NEW t \in Threads, Callback(t) PROVE PausedInv'
  <2>1. CASE VideoCallback(t)
    BY <2>1 DEF VideoCallback, Woken, InRun, flags, run
  <2>2. CASE AudioCallback(t)
    BY <2>2 DEF AudioCallback, InRun, flags, run
  <2>3. CASE PollIdle(t)
    BY <2>3 DEF PollIdle, Polling, InRun, flags, run
  <2>4. CASE PollPowerPress(t)
    BY <2>4 DEF PollPowerPress, Polling, Pressed, InRun, flags, run
  <2>5. CASE PollPowerRelease(t)
    BY <2>5 DEF PollPowerRelease, Polling, InRun, flags, run
  <2>6. CASE PollToggleFF(t)
    BY <2>6 DEF PollToggleFF, Polling, Pressed, setFastForward, InRun, flags, run
  <2>7. CASE PollHoldFF(t)
    BY <2>7 DEF PollHoldFF, Polling, Pressed, setFastForward, InRun, flags, run
  <2>8. CASE PollSaveQuit(t)
    BY <2>8 DEF PollSaveQuit, Polling, Pressed, InRun, flags, run
  <2>9. CASE PollMenu(t)
    BY <2>9 DEF PollMenu, Polling, Pressed, InRun, flags, run
  <2>10. CASE PollBroadcast(t)
    BY <2>10 DEF PollBroadcast, Woken, InRun, flags, run
  <2>11. CASE PollPause(t)
    BY <2>11 DEF PollPause, InRun, flags, run
  <2> QED BY <1>1, <2>1, <2>2, <2>3, <2>4, <2>5, <2>6, <2>7, <2>8, <2>9, <2>10, <2>11 DEF Callback, PollEvent
<1>2. CASE CoreRun
  BY <1>2 DEF CoreRun, Runs, Goto, flags, run
<1>3. CASE CoreSpin
  BY <1>3 DEF CoreSpin, vars, Goto, flags, run
<1>4. CASE CoreRunDone
  BY <1>4 DEF CoreRunDone, RunOver, InRun, Goto, flags, run
<1>5. CASE CoreExit
  BY <1>5 DEF CoreExit, Goto, flags, run
<1>6. CASE CoreCancelled
  BY <1>6 DEF CoreCancelled, Goto, flags, run
<1>7. CASE LoopExit
  BY <1>7 DEF LoopExit, Goto, flags, run
<1>8. CASE LoopRun
  BY <1>8 DEF LoopRun, Runs, Goto, flags, run
<1>9. CASE LoopRunDone
  BY <1>9 DEF LoopRunDone, RunOver, InRun, Goto, flags, run
<1>10. CASE LoopThreaded
  BY <1>10 DEF LoopThreaded, Goto, flags, run
<1>11. CASE FrameLock
  BY <1>11 DEF FrameLock, Goto, flags, run
<1>12. CASE FrameSkip
  BY <1>12 DEF FrameSkip, Goto, flags, run
<1>13. CASE FrameWait
  BY <1>13 DEF FrameWait, Goto, flags, run
<1>14. CASE FrameTake
  BY <1>14 DEF FrameTake, Goto, flags, run
<1>15. CASE FrameRender
  BY <1>15 DEF FrameRender, Goto, flags, run
<1>16. CASE FrameSpurious
  BY <1>16 DEF FrameSpurious, Goto, flags, run
<1>17. CASE MenuCheck
  BY <1>17 DEF MenuCheck, Goto, flags, run
<1>18. CASE MenuSetThread
  BY <1>18 DEF MenuSetThread, Pressed, Goto, flags, run
<1>19. CASE MenuLeave
  BY <1>19 DEF MenuLeave, Goto, flags, run
<1>20. CASE MenuEnd
  BY <1>20 DEF MenuEnd, Goto, flags, run
<1>21. CASE ToggleSkip
  BY <1>21 DEF ToggleSkip, Goto, flags, run
<1>22. CASE ToggleTake
  BY <1>22 DEF ToggleTake, Goto, flags, run
<1>23. CASE ToggleFlip
  BY <1>23 DEF ToggleFlip, Goto, flags, run
<1>24. CASE ToggleCreate
  BY <1>24 DEF ToggleCreate, Goto, flags, run
<1>25. CASE ToggleCancel
  BY <1>25 DEF ToggleCancel, Goto, flags, run
<1>26. CASE ToggleJoin
  BY <1>26 DEF ToggleJoin, Goto, flags, run
<1>27. CASE ToggleJoinNone
  BY <1>27 DEF ToggleJoinNone, Goto, flags, run
<1>28. CASE hdmimon
  BY <1>28 DEF hdmimon, Goto, flags, run
<1>29. CASE Teardown
  BY <1>29 DEF Teardown, Goto, flags, run
<1>30. CASE Terminated \/ UNCHANGED vars
  BY <1>30 DEF Terminated, vars, flags, run
<1> QED BY <1>1, <1>2, <1>3, <1>4, <1>5, <1>6, <1>7, <1>8, <1>9, <1>10, <1>11, <1>12, <1>13, <1>14, <1>15, <1>16, <1>17, <1>18, <1>19, <1>20, <1>21, <1>22, <1>23, <1>24, <1>25, <1>26, <1>27, <1>28, <1>29, <1>30
   DEF Next, CoreStep, MainStep, FrameStep, ToggleStep, UserStep

(* Every step keeps a broadcast coming for a waiting main. *)
LEMMA WakeStep == VideoInv /\ [Next]_vars => QuitWakesWaiter'
<1> SUFFICES ASSUME VideoInv, [Next]_vars PROVE QuitWakesWaiter'
  OBVIOUS
<1> USE DEF VideoInv, TypeOK, PlacesOK, ModeInv, OwedInv, QuitWakesWaiter, Threads
<1>1. ASSUME NEW t \in Threads, Callback(t) PROVE QuitWakesWaiter'
  <2>1. CASE VideoCallback(t)
    BY <2>1 DEF VideoCallback, Woken, InRun, flags, run
  <2>2. CASE AudioCallback(t)
    BY <2>2 DEF AudioCallback, InRun, flags, run
  <2>3. CASE PollIdle(t)
    BY <2>3 DEF PollIdle, Polling, InRun, flags, run
  <2>4. CASE PollPowerPress(t)
    BY <2>4 DEF PollPowerPress, Polling, Pressed, InRun, flags, run
  <2>5. CASE PollPowerRelease(t)
    BY <2>5 DEF PollPowerRelease, Polling, InRun, flags, run
  <2>6. CASE PollToggleFF(t)
    BY <2>6 DEF PollToggleFF, Polling, Pressed, setFastForward, InRun, flags, run
  <2>7. CASE PollHoldFF(t)
    BY <2>7 DEF PollHoldFF, Polling, Pressed, setFastForward, InRun, flags, run
  <2>8. CASE PollSaveQuit(t)
    BY <2>8 DEF PollSaveQuit, Polling, Pressed, InRun, flags, run
  <2>9. CASE PollMenu(t)
    BY <2>9 DEF PollMenu, Polling, Pressed, InRun, flags, run
  <2>10. CASE PollBroadcast(t)
    BY <2>10 DEF PollBroadcast, Woken, InRun, flags, run
  <2>11. CASE PollPause(t)
    BY <2>11 DEF PollPause, InRun, flags, run
  <2> QED BY <1>1, <2>1, <2>2, <2>3, <2>4, <2>5, <2>6, <2>7, <2>8, <2>9, <2>10, <2>11 DEF Callback, PollEvent
<1>2. CASE CoreRun
  BY <1>2 DEF CoreRun, Runs, Goto, flags, run
<1>3. CASE CoreSpin
  BY <1>3 DEF CoreSpin, vars, Goto, flags, run
<1>4. CASE CoreRunDone
  BY <1>4 DEF CoreRunDone, RunOver, InRun, Goto, flags, run
<1>5. CASE CoreExit
  BY <1>5 DEF CoreExit, Goto, flags, run
<1>6. CASE CoreCancelled
  BY <1>6 DEF CoreCancelled, Goto, flags, run
<1>7. CASE LoopExit
  BY <1>7 DEF LoopExit, Goto, flags, run
<1>8. CASE LoopRun
  BY <1>8 DEF LoopRun, Runs, Goto, flags, run
<1>9. CASE LoopRunDone
  BY <1>9 DEF LoopRunDone, RunOver, InRun, Goto, flags, run
<1>10. CASE LoopThreaded
  BY <1>10 DEF LoopThreaded, Goto, flags, run
<1>11. CASE FrameLock
  BY <1>11 DEF FrameLock, Goto, flags, run
<1>12. CASE FrameSkip
  BY <1>12 DEF FrameSkip, Goto, flags, run
<1>13. CASE FrameWait
  BY <1>13 DEF FrameWait, Goto, flags, run
<1>14. CASE FrameTake
  BY <1>14 DEF FrameTake, Goto, flags, run
<1>15. CASE FrameRender
  BY <1>15 DEF FrameRender, Goto, flags, run
<1>16. CASE FrameSpurious
  BY <1>16 DEF FrameSpurious, Goto, flags, run
<1>17. CASE MenuCheck
  BY <1>17 DEF MenuCheck, Goto, flags, run
<1>18. CASE MenuSetThread
  BY <1>18 DEF MenuSetThread, Pressed, Goto, flags, run
<1>19. CASE MenuLeave
  BY <1>19 DEF MenuLeave, Goto, flags, run
<1>20. CASE MenuEnd
  BY <1>20 DEF MenuEnd, Goto, flags, run
<1>21. CASE ToggleSkip
  BY <1>21 DEF ToggleSkip, Goto, flags, run
<1>22. CASE ToggleTake
  BY <1>22 DEF ToggleTake, Goto, flags, run
<1>23. CASE ToggleFlip
  BY <1>23 DEF ToggleFlip, Goto, flags, run
<1>24. CASE ToggleCreate
  BY <1>24 DEF ToggleCreate, Goto, flags, run
<1>25. CASE ToggleCancel
  BY <1>25 DEF ToggleCancel, Goto, flags, run
<1>26. CASE ToggleJoin
  BY <1>26 DEF ToggleJoin, Goto, flags, run
<1>27. CASE ToggleJoinNone
  BY <1>27 DEF ToggleJoinNone, Goto, flags, run
<1>28. CASE hdmimon
  BY <1>28 DEF hdmimon, Goto, flags, run
<1>29. CASE Teardown
  BY <1>29 DEF Teardown, Goto, flags, run
<1>30. CASE Terminated \/ UNCHANGED vars
  BY <1>30 DEF Terminated, vars, flags, run
<1> QED BY <1>1, <1>2, <1>3, <1>4, <1>5, <1>6, <1>7, <1>8, <1>9, <1>10, <1>11, <1>12, <1>13, <1>14, <1>15, <1>16, <1>17, <1>18, <1>19, <1>20, <1>21, <1>22, <1>23, <1>24, <1>25, <1>26, <1>27, <1>28, <1>29, <1>30
   DEF Next, CoreStep, MainStep, FrameStep, ToggleStep, UserStep

LEMMA StepVideo == VideoInv /\ [Next]_vars => VideoInv'
BY FlagsStep, PlacesStep, ModeStep, OwedStep, PausedStep, WakeStep DEF VideoInv, TypeOK

-----------------------------------------------------------------------------
(* The inductive invariant holds of every behaviour. *)
THEOREM VideoCorrect == Spec => []VideoInv
BY InitVideo, StepVideo, PTL DEF Spec

(* The types hold of every behaviour. *)
THEOREM VideoTypes == Spec => []TypeOK
<1>1. VideoInv => TypeOK
  BY DEF VideoInv
<1> QED BY <1>1, VideoCorrect, PTL

(* However often fast forward, the power button and the options menu switch *)
(* threading, core.run is never entered by two threads at once: main runs   *)
(* the core only when there is no coreThread.                               *)
THEOREM CoreNeverReentered == Spec => []CoreRunExclusive
<1>1. VideoInv => CoreRunExclusive
  BY DEF VideoInv, ModeInv, CoreRunExclusive, InRun
<1> QED BY <1>1, VideoCorrect, PTL

(* A coreThread is created, and core_mx and core_rq initialised, only when  *)
(* there is none.                                                           *)
THEOREM OneCoreThread == Spec => []CreatesOneThread
<1>1. VideoInv => CreatesOneThread
  BY DEF VideoInv, ModeInv, CreatesOneThread
<1> QED BY <1>1, VideoCorrect, PTL

(* coreThread starts no run of the core while the menu is open. *)
THEOREM MenuHoldsCore == Spec => []MenuPausesCore
<1>1. VideoInv => MenuPausesCore
  BY DEF VideoInv, ModeInv, PausedInv, MenuPausesCore
<1> QED BY <1>1, VideoCorrect, PTL

(* A main that waits for a frame is always woken by save-and-quit. *)
THEOREM SaveQuitWakes == Spec => []QuitWakesWaiter
<1>1. VideoInv => QuitWakesWaiter
  BY DEF VideoInv
<1> QED BY <1>1, VideoCorrect, PTL
=============================================================================
