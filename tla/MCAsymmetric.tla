----------------------------- MODULE MCAsymmetric ------------------------------
(***************************************************************************)
(* TLC instances of Asymmetric: n1 and n2 are nginx workers, h1 and h2     *)
(* stress-ng workers, x1 and x2 become stress-ng by exec.                  *)
(***************************************************************************)
EXTENDS Asymmetric

CONSTANTS n1, n2, h1, h2, x1, x2

===============================================================================
