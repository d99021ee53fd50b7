------------------------------ MODULE AudioFifo ------------------------------
(***************************************************************************)
(* What minarch needs from the audio path: a bounded first-in first-out    *)
(* queue between the thread that runs the core and the thread that plays   *)
(* sound.  A frame that was accepted is played once, in the order of       *)
(* acceptance, and nothing else is played.  AudioRing is shown to          *)
(* implement this specification.                                           *)
(***************************************************************************)
EXTENDS Integers, Sequences

CONSTANTS Frame,      \* what can be queued
          Capacity    \* most frames the queue ever holds

VARIABLES accepted,   \* every frame accepted so far, oldest first
          played      \* every frame played so far, oldest first

fifoVars == <<accepted, played>>

FifoInit == accepted = << >> /\ played = << >>

Accept == /\ Len(accepted) - Len(played) < Capacity
          /\ \E f \in Frame : accepted' = Append(accepted, f)
          /\ UNCHANGED played

Play == /\ Len(played) < Len(accepted)
        /\ played' = Append(played, accepted[Len(played) + 1])
        /\ UNCHANGED accepted

FifoNext == Accept \/ Play

FifoSpec == FifoInit /\ [][FifoNext]_fifoVars
=============================================================================
