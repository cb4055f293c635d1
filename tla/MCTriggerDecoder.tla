--------------------------- MODULE MCTriggerDecoder ---------------------------
(***************************************************************************)
(* Wheels for TriggerDecoder: a skipped-tooth wheel with one tooth missing *)
(* (initializeSkippedToothTrigger) and the Miata NB crank wheel            *)
(* (initializeMazdaMiataNb2Crank), of which half a turn is defined.        *)
(***************************************************************************)
EXTENDS TriggerDecoder

\* A wheel 5-1, two ticks to a tooth: ratio 2 within 25 percent.
SkippedTooth ==
  [gaps |-> <<2, 2, 2, 4>>, divider |-> 2, from |-> <<150>>, to |-> <<250>>,
   miataNB |-> FALSE, maySlow |-> {FALSE}, longGap |-> 9, maxFaults |-> 3]

\* Ten degrees to a tick: 110 and 70 degrees.
MiataNb2Crank ==
  [gaps |-> <<11, 7>>, divider |-> 4, from |-> <<35, 80>>, to |-> <<115, 180>>,
   miataNB |-> TRUE, maySlow |-> {FALSE}, longGap |-> 30, maxFaults |-> 1]

\* The same wheel on a cranking engine: below and above 1000 rpm.
MiataCranking == [MiataNb2Crank EXCEPT !.maySlow = {TRUE, FALSE}]

MCWheels == {SkippedTooth, MiataNb2Crank, MiataCranking}
===============================================================================
