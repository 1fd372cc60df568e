-------------------------- MODULE MCInjectionSchedule --------------------------
(***************************************************************************)
(* Small engines for InjectionSchedule, with the pairs of fueling modes    *)
(* they are run with.                                                      *)
(***************************************************************************)
EXTENDS InjectionSchedule

(* Firing orders of two, of three (1-3-2) and of four cylinders (1-3-4-2). *)
Crossed == [e \in Cylinders |-> NumCylinders - 1 - e]
Fo1342 == [e \in Cylinders |-> <<0, 2, 3, 1>>[e + 1]]
Fo132 == [e \in Cylinders |-> <<0, 2, 1>>[e + 1]]

ModePair(c, r) == [cranking |-> c, running |-> r]

(* Simultaneous while cranking, sequential while running.                  *)
CrankingDiffers == {ModePair("SIMULTANEOUS", "SEQUENTIAL")}

(* A tuner who moves between two settings.                                 *)
TwoPairs ==
  {ModePair("SIMULTANEOUS", "BATCH"), ModePair("BATCH", "BATCH")}

(* The same mode for both.                                                 *)
SameModes == {ModePair(m, m) : m \in Modes}

FourPairs ==
  {ModePair("BATCH", "BATCH"), ModePair("SIMULTANEOUS", "SIMULTANEOUS"),
   ModePair("SIMULTANEOUS", "SEQUENTIAL"), ModePair("SINGLE_POINT", "BATCH")}
=============================================================================
