----------------------------- MODULE MCLifecycle -----------------------------
(* Instances of Lifecycle for TLC.                                         *)
EXTENDS Lifecycle, TLC

CONSTANTS sig, thr

(* Two initialisers of one priority, one without init_f and one without    *)
(* deinit_f.                                                               *)
Hooks(name, prio, init, deinit_f) ==
  [name |-> name, prio |-> prio, init |-> init, deinit |-> deinit_f]
FourInitialisers == {Hooks("a", 1, TRUE, TRUE), Hooks("b", 2, TRUE, FALSE),
                     Hooks("c", 2, TRUE, TRUE), Hooks("d", 3, FALSE, TRUE)}

(* The main thread, the main loop and callers inside cevf_terminate run.   *)
(* Nothing is assumed of the sockets, so the event loop may sleep.         *)
Fairness ==
  LET Runs(A) == fault = "none" /\ A
  IN  /\ WF_vars(Runs(MainStep))
      /\ WF_vars(Runs(MainloopEnds))
      /\ \A k \in {sig, thr} : WF_vars(Runs(TerminateStep(k)))

FairSpec == Spec /\ Fairness
=============================================================================
