----------------------------- MODULE MCServices -----------------------------
(***************************************************************************)
(* Two services of `vayucell all` that share no state, one at a time: the   *)
(* onion's loop, and the surfaces with their pools.  `half` says which one  *)
(* moves; the fairness is that of the moving half.                          *)
(***************************************************************************)
EXTENDS Onion, Surfaces

VARIABLE half

serviceVars == <<half, onionVars, surfaceVars>>

MCInit ==
    /\ half \in {"onion", "surfaces"}
    /\ OnionInit /\ SurfacesInit
    /\ half # "onion" => level = Normal /\ ~hostname

OnionStep(A) == half = "onion" /\ A /\ UNCHANGED <<half, surfaceVars>>

SurfacesStep(A) == half = "surfaces" /\ A /\ UNCHANGED <<half, onionVars>>

MCNext == OnionStep(OnionNext) \/ SurfacesStep(SurfacesNext)

MCSpec ==
    /\ MCInit
    /\ [][MCNext]_serviceVars
    /\ WF_serviceVars(OnionStep(Supervise))
    /\ WF_serviceVars(OnionStep(Stops))
    /\ WF_serviceVars(OnionStep(Exit))
    /\ WF_serviceVars(SurfacesStep(FirstTick))
    /\ WF_serviceVars(SurfacesStep(SecondPasses))
    /\ \A s \in Listeners :
          /\ WF_serviceVars(SurfacesStep(Binds(s) \/ BindFails(s)))
          /\ \A w \in Workers :
                WF_serviceVars(SurfacesStep(Accepts(s, w) \/ Answers(s, w) \/ TimesOut(s, w)))

(* Backing off never becomes giving up (NeverGivesUp), where the onion is   *)
(* what moves.                                                              *)
OnionNeverGivesUp == half = "onion" => NeverGivesUp
=============================================================================
