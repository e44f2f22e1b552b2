----------------------------- MODULE ShellLimits -----------------------------
(* What the modules about the lines of a shell have in common.                  *)
EXTENDS Integers

CONSTANT MaxSkip        \* the largest N of |N

ASSUME MaxSkipAssumption == MaxSkip \in Nat
=============================================================================
