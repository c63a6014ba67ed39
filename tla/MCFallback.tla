------------------------------ MODULE MCFallback ------------------------------
(* A TLC instance of FallbackChain with short cooldowns.  As in the code the   *)
(* longest billing cooldown is as long as the failure window.                  *)
EXTENDS FallbackChain

CONSTANTS p1, p2

MCCandidateList == {<<p1, p2, p1>>}    \* two models of p1
MCStandard == <<1, 2>>
MCBilling == <<2, 3>>

\* The code's own cooldowns, in minutes, meet BackoffAssumption with Steps = 4 and
\* Window = 1440, and grow no more after the fourth error.
calculateStandardCooldown(n) == Smaller(60, 5 ^ Smaller(n - 1, 3))
calculateBillingCooldown(n) == Smaller(1440, 300 * 2 ^ Smaller(n - 1, 10))

ASSUME CodeCooldowns ==
    \A i, j \in 1..12 :
        /\ i <= j => /\ calculateStandardCooldown(i) <= calculateStandardCooldown(j)
                     /\ calculateBillingCooldown(i) <= calculateBillingCooldown(j)
        /\ i >= 4 => /\ calculateStandardCooldown(i) = 60
                     /\ calculateBillingCooldown(i) = 1440
===============================================================================
