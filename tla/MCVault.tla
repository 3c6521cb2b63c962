------------------------------- MODULE MCVault -------------------------------
(***************************************************************************)
(* Small vaults: files of one and of two chunks, two workers who write to a *)
(* name each or to the same one.                                            *)
(***************************************************************************)
EXTENDS Vault

CONSTANTS w1, w2, mail, notes, small, large

MCSize == [p \in {small, large} |-> IF p = small THEN 1 ELSE 2]

\* what each worker's clients write to
MCOneWriterEach == [w \in {w1, w2} |-> IF w = w1 THEN {mail} ELSE {notes}]
MCSameName      == [w \in {w1, w2} |-> {notes}]

\* what they read
MCOtherReads == [w \in {w1, w2} |-> IF w = w1 THEN {} ELSE {mail}]
MCNoReads    == [w \in {w1, w2} |-> {}]

(* Two writers meet one power cut; a writer and a reader, with the other    *)
(* name unused, meet three troubles of two power cuts, an exit and a failing *)
(* call.                                                                    *)
MCTroubles ==
    \/ faults.powerCuts <= 1 /\ faults.exits = 0 /\ faults.diskErrors = 0
    \/ /\ faults.powerCuts + faults.exits + faults.diskErrors <= 3
       /\ medium[notes] = {EmptySlot}
       /\ \A w \in Workers : job[w].name # notes

(* What an object holds once nothing refers to it makes no difference.      *)
MCView ==
    <<slot, medium, [o \in Referenced \ {None} |-> <<bytes[o], flushed[o]>>], job,
      promised, faults>>
=============================================================================
