------------------------------ MODULE Fitting ------------------------------
(* The fitting tool: the search for a fit, and the simulation that says
   whether a fit's capacitor lasts.  The search asks for that verdict
   (CapStable); neither changes what the other one keeps.                   *)
EXTENDS FitOptimizer, Capacitor

(* What the user fitted stays, a fit that was valid ends valid and within its
   constraints, the climb ends where no swap helps (optimize_fit), and the
   simulation repeats after the period it computes (lcm_period_ms).         *)
FittingSound == ResultSound /\ LocalOptimum /\ PeriodRealigns

=============================================================================
