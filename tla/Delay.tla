------------------------------- MODULE Delay -------------------------------
(***************************************************************************)
(* The millisecond counter, msleep (hal/src/delay.c) and the display's     *)
(* wait for its panel on top of them (hal/src/display/ED028TC1.c           *)
(* eink_wait).                                                             *)
(*                                                                         *)
(* Two actors: the timer interrupt, which advances the counter and wakes   *)
(* the processor, and the program, which looks at the counter and then     *)
(* executes wfi.  An interrupt between the look and the wfi has been       *)
(* served when the wfi begins: only the next one ends it.  Between two     *)
(* steps of the running program there is at most one tick.  The counter    *)
(* has 32 bits, here 0..Max.                                               *)
(***************************************************************************)
EXTENDS Naturals

CONSTANTS
    Max,      \* UINT32_MAX
    Delays,   \* the arguments msleep is called with
    Timeout   \* EINK_TIMEOUT

ASSUME DelayAssumption ==
    Max \in Nat \ {0} /\ Delays \subseteq 0..Max /\ Timeout \in Nat \ {0}

VARIABLES
    counter,  \* PITCounter
    pc,       \* the loop of msleep the program is in, or "idle"
    cpu,      \* "run", "wfi" - looked, and about to sleep - or "asleep"
    rest,     \* what the counter is compared with in the last loop
    ticked,   \* a tick since the program's last step
    timeout,  \* eink_wait's counter, 0 outside of it
    panel,    \* the result of the last eink_wait: "none", "ok" or "timeout"
    begin,    \* the counter when the last msleep was called
    want,     \* its argument
    elapsed,  \* the ticks until it returned, up to Max + 1
    since,    \* the counter when the last eink_wait began
    waited    \* the ticks until it returned, up to Max + 1

sleeping == <<pc, cpu, rest, begin, want>>
waiting == <<timeout, panel, since>>
ticks == <<elapsed, waited>>
vars == <<counter, ticked, sleeping, waiting, ticks>>

Init ==
    /\ counter = 0 /\ ticked = FALSE
    /\ pc = "idle" /\ cpu = "run" /\ rest = 0 /\ begin = 0 /\ want = 0
    /\ timeout = 0 /\ panel = "none" /\ since = 0
    /\ elapsed = 0 /\ waited = 0

-----------------------------------------------------------------------------
(* The interrupt *)

NextTickEver == counter + 1
NextTick == IF counter = Max THEN 0 ELSE counter + 1
Later(t, counts) == IF counts /\ t <= Max THEN t + 1 ELSE t
Tick ==
    /\ ~ticked \/ cpu = "asleep" \/ (pc = "idle" /\ timeout = 0)
    /\ counter' = NextTick
    /\ cpu' = IF cpu = "asleep" THEN "run" ELSE cpu
    /\ ticked' = TRUE
    /\ elapsed' = Later(elapsed, pc # "idle") /\ waited' = Later(waited, timeout > 0)
    /\ UNCHANGED <<pc, rest, begin, want, waiting>>

\* Any other interrupt ends a wfi too.
OtherInterrupt ==
    /\ cpu = "asleep" /\ cpu' = "run"
    /\ UNCHANGED <<counter, ticked, pc, rest, begin, want, waiting, ticks>>

-----------------------------------------------------------------------------
(* msleep *)

EnterFromZero(delay) == pc' = "only" /\ rest' = delay
Enter(delay) ==
    IF delay > Max - counter
    THEN pc' = "first" /\ rest' = delay - (Max - counter)
    ELSE pc' = "only" /\ rest' = counter + delay
Msleep(delay) ==
    /\ Enter(delay)
    /\ begin' = counter /\ want' = delay /\ elapsed' = 0
    /\ UNCHANGED cpu

Call ==
    /\ pc = "idle" /\ timeout = 0
    /\ \E delay \in Delays : Msleep(delay)
    /\ ticked' = FALSE
    /\ UNCHANGED <<counter, waiting, waited>>

\* while (get_jiffiess() < ...): the first loop of two waits for the last value.
Bound == IF pc = "first" THEN Max ELSE rest
Look ==
    /\ pc # "idle" /\ cpu = "run"
    /\ IF counter < Bound THEN cpu' = "wfi" /\ UNCHANGED pc
       ELSE pc' = (IF pc = "first" THEN "second" ELSE "idle") /\ UNCHANGED cpu
    /\ ticked' = FALSE
    /\ UNCHANGED <<counter, rest, begin, want, waiting, ticks>>
Wfi ==
    /\ cpu = "wfi" /\ cpu' = "asleep"
    /\ ticked' = FALSE
    /\ UNCHANGED <<counter, pc, rest, begin, want, waiting, ticks>>

\* jiffiess_timer_diff
Diff(t1, t2) == IF t2 >= t1 THEN t2 - t1 ELSE t1 - t2

-----------------------------------------------------------------------------
(* eink_wait *)

EinkWait ==
    /\ pc = "idle" /\ timeout = 0
    /\ timeout' = Timeout /\ panel' = "none" /\ since' = counter /\ waited' = 0
    /\ ticked' = FALSE
    /\ UNCHANGED <<counter, sleeping, elapsed>>

\* while ((GPIO_PinRead(...) == 0) && (--timeout)) msleep(1)
PanelReady == timeout' = 0 /\ panel' = "ok" /\ UNCHANGED <<sleeping, elapsed>>
PanelBusyForever ==
    IF timeout = 1 THEN timeout' = 0 /\ panel' = "timeout" /\ UNCHANGED <<sleeping, elapsed>>
    ELSE timeout' = timeout /\ Msleep(1) /\ UNCHANGED panel
PanelBusy ==
    IF timeout = 1 THEN timeout' = 0 /\ panel' = "timeout" /\ UNCHANGED <<sleeping, elapsed>>
    ELSE timeout' = timeout - 1 /\ Msleep(1) /\ UNCHANGED panel
EinkLook ==
    /\ timeout > 0 /\ pc = "idle"
    /\ PanelReady \/ PanelBusy
    /\ ticked' = FALSE
    /\ UNCHANGED <<counter, since, waited>>

-----------------------------------------------------------------------------
Program == Look \/ Wfi \/ EinkLook
Next == Tick \/ OtherInterrupt \/ Call \/ EinkWait \/ Program
\* The timer runs, and so does the program once it is in msleep or eink_wait.
Spec == Init /\ [][Next]_vars /\ WF_vars(Tick) /\ WF_vars(Program)

-----------------------------------------------------------------------------
(* Properties *)

\* Every variable has its type.
TypeOK ==
    /\ counter \in 0..Max /\ ticked \in BOOLEAN
    /\ pc \in {"idle", "first", "second", "only"} /\ cpu \in {"run", "wfi", "asleep"}
    /\ rest \in 0..Max /\ begin \in 0..Max /\ want \in Nat
    /\ timeout \in 0..Timeout /\ panel \in {"none", "ok", "timeout"} /\ since \in 0..Max
    /\ elapsed \in 0..Max + 1 /\ waited \in 0..Max + 1

\* A call whose last moment is not before the counter's last value.
NearEnd == begin + want >= Max
\* An eink_wait cannot reach the counter's last value: it takes three ticks a
\* turn at most.
FarFromEnd == since + 3 * Timeout < Max

\* msleep never returns early, nor more than one tick late: the look and the
\* wfi after it may miss one tick, never two (delay.c 55-58).  Only the end of
\* the counter breaks this.  And a timeout of the display, far from that end,
\* means that the panel had its time: a tick at least for every turn but the
\* last (ED028TC1.c 40-45).
Punctual ==
    /\ ~NearEnd => /\ elapsed <= want + 1
                   /\ pc = "idle" => elapsed >= want
                   /\ pc # "idle" => Diff(begin, counter) = elapsed
    /\ panel = "timeout" /\ FarFromEnd => waited >= Timeout - 1

\* msleep returns, and eink_wait does, whatever the panel does - as long as
\* the end of the counter is far (delay.c 39, 55).
Returns ==
    /\ (pc # "idle" /\ ~NearEnd) ~> pc = "idle"
    /\ (timeout > 0 /\ FarFromEnd) ~> timeout = 0
=============================================================================
