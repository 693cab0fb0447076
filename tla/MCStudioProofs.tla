----------------------------- MODULE MCStudioProofs -----------------------------
(***************************************************************************)
(* The instance that exercises the parts of the application one at a time  *)
(* (MCStudio) is one of each of them: every behaviour of it is a behaviour *)
(* of every part, so that what is proved of the parts for all values of    *)
(* their constants holds of it, and its types are those of the parts.      *)
(***************************************************************************)
EXTENDS MCStudio, StudioProofs, MarketProofs, RestWorkerProofs

--------------------------------------------------------------------------------
(* A step exercises one part, and is a step of it; the others rest. *)

LEMMA StepsAreOfTheParts ==
  ASSUME [Next]_vars
  PROVE  /\ [SessionNext]_sessionVars /\ [OutageNext]_outageVars /\ [CacheNext]_cacheVars
         /\ [DeriveNext]_deriveVars /\ [ChainNext]_chainVars /\ [RestNext]_restVars
         /\ [PlotNext]_plotVars /\ [BubbleNext]_bubbleVars
<1>1. CASE UNCHANGED vars
  BY <1>1 DEF vars
<1>2. CASE part = "session" /\ SessionNext /\ Others
  BY <1>2 DEF Others, Rests
<1>3. CASE part = "outage" /\ OutageNext /\ Others
  BY <1>3 DEF Others, Rests
<1>4. CASE part = "cache" /\ CacheNext /\ Others
  BY <1>4 DEF Others, Rests
<1>5. CASE part = "derive" /\ DeriveNext /\ Others
  BY <1>5 DEF Others, Rests
<1>6. CASE part = "chain" /\ ChainNext /\ Others
  BY <1>6 DEF Others, Rests
<1>7. CASE part = "rest" /\ RestNext /\ Others
  BY <1>7 DEF Others, Rests
<1>8. CASE part = "plot" /\ PlotNext /\ Others
  BY <1>8 DEF Others, Rests
<1>9. CASE part = "bubbles" /\ BubbleNext /\ Others
  BY <1>9 DEF Others, Rests
<1> QED BY <1>1, <1>2, <1>3, <1>4, <1>5, <1>6, <1>7, <1>8, <1>9 DEF Next

(* The parts share no state: each sees only what its own module allows, whatever the instance *)
(* does with the others.                                                                      *)
THEOREM PartsKeepToThemselves ==
    Spec => /\ SessionSpec /\ OutageSpec /\ CacheSpec /\ DeriveSpec
            /\ ChainSpec /\ RestSpec /\ PlotSpec /\ BubbleSpec
<1>1. Init => /\ SessionInit /\ OutageInit /\ CacheInit /\ DeriveInit
              /\ ChainInit /\ RestInit /\ PlotInit /\ BubbleInit
  BY DEF Init
<1>2. [Next]_vars =>
         /\ [SessionNext]_sessionVars /\ [OutageNext]_outageVars /\ [CacheNext]_cacheVars
         /\ [DeriveNext]_deriveVars /\ [ChainNext]_chainVars /\ [RestNext]_restVars
         /\ [PlotNext]_plotVars /\ [BubbleNext]_bubbleVars
  BY StepsAreOfTheParts
<1> QED BY <1>1, <1>2, PTL DEF Spec, SessionSpec, OutageSpec, CacheSpec, DeriveSpec, ChainSpec,
                                RestSpec, PlotSpec, BubbleSpec

(* Every part of the application stays within its types. *)
THEOREM StudioTypeCorrect == Spec => []TypeOK
<1>1. /\ SessionTypeOK /\ OutageTypeOK /\ CacheTypeOK /\ DeriveTypeOK /\ ChainTypeOK
      /\ RestTypeOK /\ PlotTypeOK /\ BubbleTypeOK
      => TypeOK
  BY DEF TypeOK
<1> QED BY <1>1, PartsKeepToThemselves, SessionTypeCorrect, OutageTypeCorrect, CacheTypeCorrect,
           DeriveTypeCorrect, ChainTypeCorrect, RestTypeCorrect, PlotTypeCorrect,
           BubbleTypeCorrect, PTL
================================================================================
