-------------------------- MODULE MCExternalServices --------------------------
(***************************************************************************)
(* An instance of ExternalServicesAlone for TLC: two graders of different  *)
(* speed and size on one architecture, of which the slow one takes only    *)
(* jobs that require it, and one on another.                               *)
(***************************************************************************)
EXTENDS ExternalServicesAlone

CONSTANTS slow, big, other, x86, arm

MCSubs == 1..2

\* The first problem takes any processor, the second one requires an x86.
MCRequired == [s \in Subs |-> IF s = 1 THEN AnyArch ELSE x86]

MCArch == [g \in Graders |-> IF g = other THEN arm ELSE x86]
MCWorkers == [g \in Graders |-> IF g = big THEN 2 ELSE 1]
MCRating == [g \in Graders |-> IF g = slow THEN 1 ELSE 2]
MCArchOnly == [g \in Graders |-> g = slow]
=============================================================================
