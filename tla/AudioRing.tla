------------------------------ MODULE AudioRing ------------------------------
(***************************************************************************)
(* The audio ring of src/workspace/all/common/snd.c.                       *)
(*                                                                         *)
(* Two threads share it.  The thread that runs the libretro core calls     *)
(* SND_batchSamples, which holds the SDL audio lock except while it sleeps *)
(* waiting for room.  SDL's audio thread calls SND_audioCallback with the  *)
(* same lock held.  Every step below is what one of them does between two  *)
(* points where the other can run, so the while loops are one step per     *)
(* iteration.                                                              *)
(*                                                                         *)
(* A frame is the number of the input frame it came from.  The frames      *)
(* written (log) and delivered to the device (heard) are history.          *)
(***************************************************************************)
EXTENDS Integers, Sequences

CONSTANTS FrameCount,   \* snd.frame_count once the buffer is allocated
          Rates,        \* the sample rates of cores and devices
          Samples,      \* frames the device asks for per callback
          BatchSize,    \* BATCH_SIZE
          MaxTries,     \* the 10 of SND_batchSamples' waiting loop
          MaxBatch,     \* bound: frames of one call of SND_batchSamples
          MaxFed        \* bound: input frames over a whole behaviour

ASSUME AudioAssumption ==
  /\ FrameCount \in Nat \ {0, 1}
  /\ Rates \subseteq Nat \ {0}
  /\ Samples \in Nat \ {0} /\ BatchSize \in Nat \ {0}
  /\ MaxTries \in Nat /\ MaxBatch \in Nat /\ MaxFed \in Nat

VARIABLES
  status,        \* of the device: "closed", "paused", "running", "quit"
  frame_count,   \* snd.frame_count: 0 until a buffer was allocated
  buffer,        \* snd.buffer
  frame_in,      \* next slot to write
  frame_out,     \* next slot to play
  frame_filled,  \* slot that may not be written
  sample_rate_in,  \* the core's rate
  sample_rate_out, \* the device's rate
  diff,          \* the static of SND_resampleNear
  lock,          \* holder of the SDL audio lock: "none", "core", "sdl"
  pc,            \* SND_batchSamples: "idle", "wait", "delay", "push"
  tries,         \* its local variables
  amount,
  frames_left,   \* its parameter frame_count, counted down
  len,           \* SND_audioCallback's len: frames still to deliver
  fed,           \* history: input frames consumed
  log,           \* history: frames written to the ring, in order
  heard          \* history: frames of the ring delivered, in order

ringVars == <<buffer, frame_in, frame_out, frame_filled>>
rates == <<sample_rate_in, sample_rate_out>>
batchVars == <<pc, tries, amount, frames_left>>
histVars == <<fed, log, heard>>
audioVars == <<status, frame_count, ringVars, rates, diff, lock, batchVars, len, histVars>>

Slots == 0 .. FrameCount - 1
Lesser(a, b) == IF a <= b THEN a ELSE b

(* The slot after i, as the two "if (x >= frame_count) x = 0" compute it. *)
Succ(i) == IF i + 1 >= FrameCount THEN 0 ELSE i + 1

RingInit ==
  /\ status = "closed" /\ frame_count = 0
  /\ buffer = [i \in Slots |-> 0]
  /\ frame_in = 0 /\ frame_out = 0 /\ frame_filled = 0
  /\ sample_rate_in = 0 /\ sample_rate_out = 0
  /\ diff = 0 /\ lock = "none"
  /\ pc = "idle" /\ tries = 0 /\ amount = 0 /\ frames_left = 0
  /\ len = 0
  /\ fed = 0 /\ log = << >> /\ heard = << >>

-----------------------------------------------------------------------------
(* Lifecycle.  SND_init opens the device paused, sizes the ring and         *)
(* unpauses; when realloc fails the old (zero) frame_count is kept and      *)
(* every later SND_batchSamples or callback returns at once.                *)

SND_init ==
  /\ status = "closed"
  /\ status' = "running"
  /\ sample_rate_in' \in Rates /\ sample_rate_out' \in Rates
  /\ \/ /\ frame_count' = FrameCount          \* SND_resizeBuffer succeeded
        /\ buffer' = [i \in Slots |-> 0]
        /\ frame_in' = 0 /\ frame_out' = 0
        /\ frame_filled' = FrameCount - 1
     \/ UNCHANGED <<frame_count, ringVars>>   \* realloc returned NULL
  /\ UNCHANGED <<diff, lock, batchVars, len, histVars>>

(* The callers promise that no thread is inside SND_batchSamples, or enters *)
(* it later; ThreadedVideo models whether they keep that promise.           *)
SND_quit ==
  /\ status \in {"running", "paused"}
  /\ pc = "idle" /\ lock # "sdl"              \* SDL_CloseAudio joins the callback
  /\ status' = "quit"
  /\ UNCHANGED <<frame_count, rates, ringVars, diff, lock, batchVars, len, histVars>>

(* SDL_PauseAudio(1) and SDL_PauseAudio(0) around a sleep of the device, by *)
(* whichever thread runs PWR_update.                                        *)
PauseAudio ==
  /\ status = "running"
  /\ status' = "paused"
  /\ UNCHANGED <<frame_count, rates, ringVars, diff, lock, batchVars, len, histVars>>

ResumeAudio ==
  /\ status = "paused"
  /\ status' = "running"
  /\ UNCHANGED <<frame_count, rates, ringVars, diff, lock, batchVars, len, histVars>>

-----------------------------------------------------------------------------
(* SND_batchSamples, called with k frames *)

BatchBegin(k) ==
  /\ pc = "idle" /\ status \in {"running", "paused"}
  /\ frame_count # 0                          \* else it returns 0
  /\ fed + k <= MaxFed                        \* bound
  /\ lock = "none" /\ lock' = "core"
  /\ frames_left' = k
  /\ tries' = 0 /\ amount' = Lesser(BatchSize, k)
  /\ pc' = "wait"
  /\ UNCHANGED <<status, frame_count, rates, ringVars, diff, len, histVars>>

MustWait == tries < MaxTries /\ frame_in = frame_filled

BatchUnlock ==
  /\ pc = "wait" /\ MustWait
  /\ tries' = tries + 1
  /\ lock' = "none"
  /\ pc' = "delay"
  /\ UNCHANGED <<status, frame_count, rates, ringVars, diff, amount, frames_left, len, histVars>>

BatchRelock ==
  /\ pc = "delay"
  /\ lock = "none" /\ lock' = "core"
  /\ pc' = "wait"
  /\ UNCHANGED <<status, frame_count, rates, ringVars, diff, tries, amount, frames_left, len, histVars>>

BatchWaited ==
  /\ pc = "wait" /\ ~MustWait
  /\ pc' = "push"
  /\ UNCHANGED <<status, frame_count, rates, ringVars, diff, lock, tries, amount, frames_left, len, histVars>>

(* snd.buffer[snd.frame_in++] = frame, with the wrap *)
WriteFrame(f) ==
  /\ buffer' = [buffer EXCEPT ![frame_in] = f]
  /\ frame_in' = Succ(frame_in)
  /\ log' = Append(log, f)
  /\ UNCHANGED <<frame_out, frame_filled>>

Consume(n) ==
  /\ amount' = amount - n
  /\ frames_left' = frames_left - n
  /\ fed' = fed + n

SND_resampleNone ==
  /\ sample_rate_in = sample_rate_out
  /\ WriteFrame(fed + 1)
  /\ Consume(1)
  /\ UNCHANGED diff

(* Mutant of SND_resampleNear: the remainder is dropped, not carried. *)
ResampleForgetful ==
  /\ sample_rate_in # sample_rate_out
  /\ LET writes == diff < sample_rate_out
         grown  == IF writes THEN diff + sample_rate_in ELSE diff
         takes  == grown >= sample_rate_out
     IN /\ IF writes THEN WriteFrame(fed + 1) ELSE UNCHANGED <<ringVars, log>>
        /\ diff' = IF takes THEN 0 ELSE grown
        /\ Consume(IF takes THEN 1 ELSE 0)

(* Nearest neighbour: a frame is written while diff is below the output     *)
(* rate, and the next input frame is taken once diff has reached it.        *)
SND_resampleNear ==
  /\ sample_rate_in # sample_rate_out
  /\ LET writes == diff < sample_rate_out
         grown  == IF writes THEN diff + sample_rate_in ELSE diff
         takes  == grown >= sample_rate_out
     IN /\ IF writes THEN WriteFrame(fed + 1) ELSE UNCHANGED <<ringVars, log>>
        /\ diff' = IF takes THEN grown - sample_rate_out ELSE grown
        /\ Consume(IF takes THEN 1 ELSE 0)

(* Mutant of MayPush: a full ring no longer stops the inner loop. *)
MayPushWhenFull == amount > 0

MayPush == amount > 0 /\ frame_in # frame_filled

BatchPush ==
  /\ pc = "push" /\ MayPush
  /\ SND_resampleNone \/ SND_resampleNear
  /\ UNCHANGED <<status, frame_count, rates, lock, pc, tries, len, heard>>

BatchAgain ==
  /\ pc = "push" /\ ~MayPush /\ frames_left > 0
  /\ tries' = 0 /\ amount' = Lesser(BatchSize, frames_left)
  /\ pc' = "wait"
  /\ UNCHANGED <<status, frame_count, rates, ringVars, diff, lock, frames_left, len, histVars>>

BatchReturn ==
  /\ pc = "push" /\ ~MayPush /\ frames_left = 0
  /\ lock' = "none"
  /\ pc' = "idle"
  /\ UNCHANGED <<status, frame_count, rates, ringVars, diff, tries, amount, frames_left, len, histVars>>

-----------------------------------------------------------------------------
(* SND_audioCallback.  SDL takes the lock around it and calls it only while *)
(* the device is not paused.  The padding of an underrun repeats frames of  *)
(* this callback, touches no shared state and is left out.                  *)

CallbackBegin ==
  /\ status = "running" /\ frame_count # 0
  /\ lock = "none" /\ lock' = "sdl"
  /\ len' = Samples
  /\ UNCHANGED <<status, frame_count, rates, ringVars, diff, batchVars, histVars>>

(* Mutant of CallbackFrame: frame_filled is not moved along. *)
CallbackFrameNoRoom ==
  /\ lock = "sdl" /\ frame_out # frame_in /\ len > 0
  /\ heard' = Append(heard, buffer[frame_out])
  /\ frame_out' = Succ(frame_out)
  /\ len' = len - 1
  /\ UNCHANGED <<status, frame_count, rates, buffer, frame_in, frame_filled, diff, lock, batchVars, fed, log>>

CallbackFrame ==
  /\ lock = "sdl" /\ frame_out # frame_in /\ len > 0
  /\ heard' = Append(heard, buffer[frame_out])
  /\ frame_filled' = frame_out
  /\ frame_out' = Succ(frame_out)
  /\ len' = len - 1
  /\ UNCHANGED <<status, frame_count, rates, buffer, frame_in, diff, lock, batchVars, fed, log>>

CallbackEnd ==
  /\ lock = "sdl" /\ (frame_out = frame_in \/ len = 0)
  /\ lock' = "none"
  /\ len' = 0
  /\ UNCHANGED <<status, frame_count, rates, ringVars, diff, batchVars, histVars>>

-----------------------------------------------------------------------------
BatchStep == BatchUnlock \/ BatchRelock \/ BatchWaited \/ BatchPush \/ BatchAgain \/ BatchReturn
SdlStep == CallbackBegin \/ CallbackFrame \/ CallbackEnd

RingNext ==
  \/ SND_init \/ SND_quit \/ PauseAudio \/ ResumeAudio
  \/ \E k \in 1 .. MaxBatch : BatchBegin(k)
  \/ BatchStep
  \/ SdlStep

RingSpec == RingInit /\ [][RingNext]_audioVars

(* Both threads are scheduled.  Each competes for a lock that the other    *)
(* keeps releasing, so each gets it eventually.  Nothing is assumed of the  *)
(* user, who may leave the device asleep.                                   *)
RingFairness ==
  /\ WF_audioVars(BatchUnlock) /\ SF_audioVars(BatchRelock) /\ WF_audioVars(BatchWaited)
  /\ WF_audioVars(BatchPush) /\ WF_audioVars(BatchAgain) /\ WF_audioVars(BatchReturn)
  /\ SF_audioVars(CallbackBegin) /\ WF_audioVars(CallbackFrame) /\ WF_audioVars(CallbackEnd)

RingFairSpec == RingSpec /\ RingFairness

-----------------------------------------------------------------------------
(* Types: every index of the ring stays inside the buffer, so no write or   *)
(* read of SND_resampleNone, SND_resampleNear or SND_audioCallback is out   *)
(* of bounds.                                                               *)
RingTypeOK ==
  /\ status \in {"closed", "paused", "running", "quit"}
  /\ frame_count \in {0, FrameCount}
  /\ frame_in \in Slots /\ frame_out \in Slots /\ frame_filled \in Slots
  /\ buffer \in [Slots -> Nat]
  /\ sample_rate_in \in Nat /\ sample_rate_out \in Nat
  /\ diff \in Nat
  /\ lock \in {"none", "core", "sdl"}
  /\ pc \in {"idle", "wait", "delay", "push"}
  /\ tries \in Nat /\ amount \in Nat /\ frames_left \in Nat /\ len \in Nat
  /\ fed \in Nat
  /\ log \in Seq(Nat) /\ heard \in Seq(Nat)

(* Frames written and not yet played, and the slot of the j-th of them. *)
Used == IF frame_in >= frame_out THEN frame_in - frame_out
        ELSE frame_in + FrameCount - frame_out
Slot(j) == IF frame_out + j >= FrameCount THEN frame_out + j - FrameCount
           ELSE frame_out + j

(* Each thread does the things the SDL audio lock protects only while it   *)
(* holds the lock, across the unlock and relock of the waiting loop.        *)
LockDiscipline ==
  /\ pc \in {"wait", "push"} <=> lock = "core"
  /\ lock = "sdl" => frame_count # 0
  /\ pc # "idle" => frame_count # 0

(* frame_filled is the slot before frame_out: the writer stops one short of *)
(* the reader, so "full" and "empty" are never confused.                    *)
RingShape == frame_count # 0 => Succ(frame_filled) = frame_out

(* The ring holds exactly the frames that were written and not yet played, *)
(* in the order they were written, and what was played is a prefix of what *)
(* was written: no frame is lost, repeated, reordered or overwritten.       *)
RingHoldsBacklog ==
  /\ Len(log) = Len(heard) + Used
  /\ \A j \in 0 .. Used - 1 : buffer[Slot(j)] = log[Len(heard) + j + 1]
  /\ \A j \in 1 .. Len(heard) : heard[j] = log[j]

(* Nearest neighbour without drift: however the batches are cut and however *)
(* often the writer had to wait, the n-th frame written is the input frame  *)
(* in force at the n-th tick of the output clock.                           *)
ResampleExact ==
  \A n \in 1 .. Len(log) :
     log[n] = ((n - 1) * sample_rate_in) \div sample_rate_out + 1

(* The error the resampler carries from call to call (the static diff) is   *)
(* exactly the distance between the two clocks, and stays bounded.          *)
DiffIsClockSkew ==
  IF sample_rate_in = sample_rate_out THEN diff = 0 /\ fed = Len(log)
  ELSE /\ diff = Len(log) * sample_rate_in - fed * sample_rate_out
       /\ diff < sample_rate_in \/ diff < sample_rate_out

(* SND_batchSamples returns, unless the device keeps being paused: the      *)
(* outer loop, which starts its ten tries again for ever while the ring is  *)
(* full, ends because the audio thread drains the ring.                     *)
BatchReturns == <>[](status # "paused") => (pc # "idle" ~> pc = "idle")

(* The ring implements a bounded first-in first-out queue that holds one    *)
(* frame less than the buffer has slots.                                    *)
Fifo == INSTANCE AudioFifo WITH Frame <- 1 .. MaxFed, Capacity <- FrameCount - 1,
                                accepted <- log, played <- heard
FifoSpec == Fifo!FifoSpec

(* SND_resampleNear loses and invents nothing over any cut into batches.    *)
NoDrift == ResampleExact /\ DiffIsClockSkew
=============================================================================
