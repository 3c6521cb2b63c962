----------------------------- MODULE AtomicStore -----------------------------
(***************************************************************************)
(* What a vault of files is for (core/src/vault.rs, WritePlan): under each  *)
(* name either a whole file or nothing, replaced in one step, and a power   *)
(* cut that may undo the latest changes of a name and never spoils a file.  *)
(* Nothing about temporaries, flushes or directories.                       *)
(***************************************************************************)
CONSTANTS
    Names,
    Contents,   \* every whole file
    Nothing     \* what a name without a file holds

VARIABLES
    stored,     \* what each name holds
    possible    \* what each name may hold after a power cut

vars == <<stored, possible>>

Init ==
    /\ stored = [n \in Names |-> Nothing]
    /\ possible = [n \in Names |-> {Nothing}]

Becomes(n, content) ==
    /\ stored' = [stored EXCEPT ![n] = content]
    /\ possible' = [possible EXCEPT ![n] = @ \cup {content}]

Put(n, content) == content \in Contents /\ Becomes(n, content)

Delete(n) == Becomes(n, Nothing)

(* Nothing done so far can be undone any more. *)
Settle ==
    /\ possible' = [n \in Names |-> {stored[n]}]
    /\ UNCHANGED stored

PowerCut ==
    /\ \A n \in Names : stored'[n] \in possible[n]
    /\ DOMAIN stored' = Names
    /\ possible' = [n \in Names |-> {stored'[n]}]

Next ==
    \/ \E n \in Names : Delete(n) \/ \E content \in Contents : Put(n, content)
    \/ Settle
    \/ PowerCut

Spec == Init /\ [][Next]_vars
=============================================================================
