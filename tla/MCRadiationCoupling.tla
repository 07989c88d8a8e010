-------------------------- MODULE MCRadiationCoupling --------------------------
(***************************************************************************)
(* Instances of RadiationCoupling for TLC.  Where subdomains are many, two *)
(* of the five fields are kept: one that only JUPITER sends, and the       *)
(* temperature, which is sent to the slaves in every Picard iteration.     *)
(***************************************************************************)
EXTENDS RadiationCoupling

\* The fields of the source: emi, dens, spcht, t and fls of JUPITER.
AllFields == <<"emi", "rho", "cv", "tmp", "slr">>
\* Any order of the two would do: the last one is the one that is waited for.
TwoFields == <<"emi", "tmp">>
===============================================================================
