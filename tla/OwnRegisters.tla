---------------------------- MODULE OwnRegisters ----------------------------
(***************************************************************************)
(* What the threads of the guest expect of their cores, however many share *)
(* one: each has general registers of its own, which only the thread       *)
(* itself changes, and only while it runs. One thread runs at a time.      *)
(***************************************************************************)
CONSTANTS
    GuestThreads,
    Registers,  \* what the general registers of a thread can hold
    Nobody

VARIABLES
    regs,   \* of each thread
    active  \* the thread that runs

registerVars == <<regs, active>>

Init ==
    /\ regs \in [GuestThreads -> Registers]
    /\ active = Nobody

Resume(t) ==
    /\ active = Nobody
    /\ active' = t
    /\ UNCHANGED regs

Execute(t) ==
    /\ active = t
    /\ \E r \in Registers : regs' = [regs EXCEPT ![t] = r]
    /\ UNCHANGED active

Suspend ==
    /\ active # Nobody
    /\ active' = Nobody
    /\ UNCHANGED regs

Next == (\E t \in GuestThreads : Resume(t) \/ Execute(t)) \/ Suspend

Spec == Init /\ [][Next]_registerVars
=============================================================================
