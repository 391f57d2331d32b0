------------------------------ MODULE Keyboard ------------------------------
(***************************************************************************)
(* Polling the keyboard (hal/src/keyboard, hal/src/i2c_host.c,             *)
(* luarecovery/src/lkeyboard.c): the controller queues key events while    *)
(* the program, one I2C transfer at a time, reads how many there are, as   *)
(* many events, and clears the interrupts.  The results of the transfers   *)
(* are not looked at.  The controller is external: modelled from its       *)
(* registers as the driver uses them.                                      *)
(***************************************************************************)
EXTENDS Naturals, Sequences

CONSTANTS
    Keys,        \* key codes
    Depth,       \* the controller's queue
    Capacity,    \* elements of events[]
    MaxEvents,   \* bound: key events
    MaxFailures  \* bound: failed transfers

ASSUME KeyboardAssumption ==
    /\ Keys \subseteq 1..127
    /\ Depth \in 1..15 /\ Capacity \in Nat /\ Depth < Capacity
    /\ MaxEvents \in Nat /\ MaxFailures \in Nat

VARIABLES
    down,      \* the keys held down
    fifo,      \* the controller's queue of event bytes
    step,      \* what the program does next
    retval,    \* kbd_read_events' byte for every transfer
    count, i,  \* events_count and the loop's index
    events,    \* the array handed out
    view,      \* the bit of the event a script was handed last of each key
    accepted,  \* all events the controller queued
    polled,    \* all events handed to the script
    failed,    \* transfers that failed
    stale      \* those of them that should have read an event

controller == <<down, fifo, accepted>>
call == <<retval, count, i>>
failures == <<failed, stale>>
kbdVars == <<controller, step, call, events, view, polled, failures>>

Bytes == 0..255
Key(byte) == byte % 128
Bit(byte) == IF byte < 128 THEN 0 ELSE 1
Byte(key, bit) == key + 128 * bit
Untold == 2                     \* in place of a bit
Cleared == [k \in 0..Capacity - 1 |-> 0]

KbdInit ==
    /\ down = {} /\ fifo = <<>> /\ accepted = <<>>
    /\ step = "idle" /\ retval = 0 /\ count = 0 /\ i = 0
    /\ events = Cleared
    /\ view = [k \in Keys |-> Untold] /\ polled = <<>> /\ failed = 0 /\ stale = 0

\* A key goes down or up.  A full queue keeps what it has.  That the bit is 1
\* for a press is the driver's comment (keyboard.c 97).
KeyChange(key) ==
    /\ Len(accepted) < MaxEvents
    /\ LET byte == Byte(key, IF key \in down THEN 0 ELSE 1) IN
       IF Len(fifo) < Depth
       THEN fifo' = Append(fifo, byte) /\ accepted' = Append(accepted, byte)
       ELSE UNCHANGED <<fifo, accepted>>
    /\ down' = IF key \in down THEN down \ {key} ELSE down \cup {key}
    /\ UNCHANGED <<step, call, events, view, polled, failures>>

-----------------------------------------------------------------------------
(* kbd_read_events *)

PollUncleared ==
    /\ step = "idle"
    /\ step' = "count" /\ retval' = 0
    /\ UNCHANGED <<controller, count, i, events, view, polled, failures>>
Poll ==
    /\ step = "idle"
    /\ step' = "count" /\ retval' = 0 /\ events' = Cleared
    /\ UNCHANGED <<controller, count, i, view, polled, failures>>

\* The device does not answer the start of a transfer: the loop that waits for
\* the flag to vanish never ends.
Nack ==
    /\ step \notin {"idle", "hung"} /\ failed < MaxFailures
    /\ step' = "hung" /\ failed' = failed + 1
    /\ UNCHANGED <<controller, call, events, view, polled, stale>>

\* The register's lower four bits; the byte stays 0 if the transfer fails.
CountRead ==
    \/ retval' = Len(fifo) /\ UNCHANGED failed
    \/ failed < MaxFailures /\ failed' = failed + 1 /\ UNCHANGED retval

ReadCountDoWhile ==
    /\ step = "count"
    /\ CountRead
    /\ count' = retval' % 16
    /\ step' = "pop"
    /\ UNCHANGED <<controller, i, events, view, polled, stale>>
ReadCount ==
    /\ step = "count"
    /\ CountRead
    /\ count' = retval' % 16
    /\ step' = IF count' = 0 THEN "clear" ELSE "pop"
    /\ UNCHANGED <<controller, i, events, view, polled, stale>>

\* An empty queue reads as 0.  When the transfer fails the byte read before is
\* taken again, whether or not the controller has let go of the event.
Rest == IF fifo = <<>> THEN <<>> ELSE Tail(fifo)
Popped ==
    \/ /\ retval' = IF fifo = <<>> THEN 0 ELSE Head(fifo)
       /\ fifo' = Rest /\ UNCHANGED failures
    \/ /\ failed < MaxFailures
       /\ failed' = failed + 1 /\ stale' = stale + 1
       /\ fifo' \in {fifo, Rest} /\ UNCHANGED retval

Pop ==
    /\ step = "pop"
    /\ Popped
    /\ events' = [events EXCEPT ![i] = retval']
    /\ i' = i + 1
    /\ step' = IF i' = count THEN "clear" ELSE "pop"
    /\ UNCHANGED <<down, accepted, count, view, polled>>

-----------------------------------------------------------------------------
\* _poll's loop over the array ends at the first element without a key.
HandedOut ==
    LET end == CHOOSE k \in 0..Capacity - 1 :
                   Key(events[k]) = 0 /\ \A j \in 0..k - 1 : Key(events[j]) # 0
    IN  [k \in 1..end |-> events[k - 1]]

Of(bytes, k) == {j \in DOMAIN bytes : Key(bytes[j]) = k}
LatestOf(bytes, k) == bytes[CHOOSE j \in Of(bytes, k) : \A l \in Of(bytes, k) : l <= j]
FirstOf(bytes, k) == bytes[CHOOSE j \in Of(bytes, k) : \A l \in Of(bytes, k) : l >= j]

\* The table it returns: of each key the bit of its last event.  What a script
\* takes the bit for is left out: the constants it is given (lkeyboard.c 84-88,
\* hal/include/hal/keyboard.h 46-48) call 0 pressed, keyboard.c 97 a release.
ToldFirst(bytes) ==
    [k \in Keys |-> IF Of(bytes, k) = {} THEN view[k] ELSE Bit(FirstOf(bytes, k))]
Told(bytes) ==
    [k \in Keys |-> IF Of(bytes, k) = {} THEN view[k] ELSE Bit(LatestOf(bytes, k))]

\* The interrupts are cleared - whether or not that transfer works - and _poll
\* hands out its table.
Finish ==
    /\ step = "clear"
    /\ view' = Told(HandedOut) /\ polled' = polled \o HandedOut
    /\ step' = "idle" /\ count' = 0 /\ i' = 0
    /\ UNCHANGED <<controller, retval, events, failures>>

KbdNext == (\E key \in Keys : KeyChange(key)) \/ Poll \/ Nack \/ ReadCount \/ Pop \/ Finish

KbdSpec == KbdInit /\ [][KbdNext]_kbdVars

\* A script polls again and again; a transfer ends one way or another.
KbdFairSpec == KbdSpec /\ WF_kbdVars(Poll \/ ReadCount \/ Pop \/ Finish)

-----------------------------------------------------------------------------
(* Properties *)

\* Every variable has its type; the array keeps an element without a key.
KbdTypeOK ==
    /\ down \subseteq Keys
    /\ fifo \in Seq(Bytes) /\ Len(fifo) <= Depth
    /\ step \in {"idle", "count", "pop", "clear", "hung"}
    /\ retval \in Bytes /\ count \in 0..Depth /\ i \in 0..count
    /\ events \in [0..Capacity - 1 -> Bytes] /\ events[Capacity - 1] = 0
    /\ view \in [Keys -> {0, 1, Untold}]
    /\ accepted \in Seq(Bytes) /\ polled \in Seq(Bytes)
    /\ failed \in 0..MaxFailures /\ stale \in 0..failed

\* What was handed out, then what this call has read, then the queue are the
\* events as they happened, each once, however many come in between its
\* transfers (keyboard.c 85-103, lkeyboard.c 106-121); of failed reads each
\* puts in at most one event that did not happen or is handed out again.
Read == [k \in 1..i |-> events[k - 1]]
InOrder ==
    /\ stale = 0 => polled \o Read \o fifo = accepted
    /\ Len(polled \o Read \o fifo) <= Len(accepted) + stale

\* Once no more events come, a script that goes on polling has been handed of
\* each key the bit of its last event, and not that of an earlier one, unless a
\* read of an event failed or the program hangs in a transfer that got no
\* answer (keyboard.c 85-103, lkeyboard.c 106-121, i2c_host.c 23, 47).
Settled ==
    \A k \in Keys : Of(accepted, k) # {} => view[k] = Bit(LatestOf(accepted, k))
Settles == <>[](step = "hung" \/ stale > 0 \/ Settled)
=============================================================================
