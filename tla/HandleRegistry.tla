--------------------------- MODULE HandleRegistry ---------------------------
(***************************************************************************)
(* What a process's handle table promises its clients, whatever the slots, *)
(* counts and free lists behind it: opening an object yields a handle that *)
(* no earlier call ever returned, a handle names its object until it is    *)
(* closed, and nothing but closing it, alone or with all others, takes it  *)
(* away.                                                                   *)
(***************************************************************************)
CONSTANTS
    RegisteredObjects,  \* objects handles can name
    Handles             \* every handle there could be

VARIABLES
    opened,  \* pairs <<handle, object>>
    issued   \* every handle ever returned

registryVars == <<opened, issued>>

Init ==
    /\ opened = {}
    /\ issued = {}

Open(h, o) ==
    /\ h \in Handles \ issued
    /\ opened' = opened \cup {<<h, o>>}
    /\ issued' = issued \cup {h}

Close(h) ==
    /\ \E o \in RegisteredObjects : <<h, o>> \in opened
    /\ opened' = {p \in opened : p[1] # h}
    /\ UNCHANGED issued

CloseEvery ==
    /\ opened' = {}
    /\ UNCHANGED issued

Next ==
    \/ \E h \in Handles, o \in RegisteredObjects : Open(h, o)
    \/ \E h \in Handles : Close(h)
    \/ CloseEvery

Spec == Init /\ [][Next]_registryVars
=============================================================================
