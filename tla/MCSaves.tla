------------------------------- MODULE MCSaves -------------------------------
(***************************************************************************)
(* A small instance of Saves: one menu slot, two rounds of progress, one   *)
(* failing file operation, one power cut; on the second disc one round and *)
(* no failing operation, because there the disc is what it is about.       *)
(***************************************************************************)
EXTENDS Saves

SomeCores == {{"sav", "st"}, {"sav", "rtc"}}

OnFirstDisc ==
    /\ drive # 1 /\ menu.disc = 0
    /\ \A f \in Files : cache[f][2] # 1 /\ disk[f][2] # 1

Bounded == OnFirstDisc \/ (clock <= 1 /\ faults = 0)
=============================================================================
