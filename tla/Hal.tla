-------------------------------- MODULE Hal --------------------------------
(***************************************************************************)
(* The two devices of hal that act between the steps of the program: the   *)
(* timer (Delay) and the controller of the keyboard (Keyboard).  They have *)
(* no state in common and the program is in a call of one at a time, so    *)
(* that a behaviour of one of them alone shows all there is to see of it:  *)
(* a behaviour of this module is one of the device it observes.            *)
(***************************************************************************)
EXTENDS Delay, Keyboard

VARIABLE observed

Devices == {"timer", "keyboard"}

halVars == <<observed, vars, kbdVars>>

HalInit == Init /\ KbdInit /\ observed \in Devices

TimerStep(step_of_it) == observed = "timer" /\ step_of_it /\ UNCHANGED <<observed, kbdVars>>
KeyboardStep(step_of_it) == observed = "keyboard" /\ step_of_it /\ UNCHANGED <<observed, vars>>

HalNext == TimerStep(Next) \/ KeyboardStep(KbdNext)

\* Each device with the fairness of its own module.
HalSpec ==
    /\ HalInit /\ [][HalNext]_halVars
    /\ WF_halVars(TimerStep(Tick)) /\ WF_halVars(TimerStep(Program))
    /\ WF_halVars(KeyboardStep(Poll \/ ReadCount \/ Pop \/ Finish))

-----------------------------------------------------------------------------
(* Properties: those of the two modules, and *)

\* The types of both.
HalTypeOK == TypeOK /\ KbdTypeOK /\ observed \in Devices
=============================================================================
