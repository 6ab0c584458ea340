-------------------------------- MODULE MCJit --------------------------------
(* Threads share a core or have one each. Guest code stops with its frame set  *)
(* up or not, and with vectors in use or not.                                  *)
EXTENDS Jit

MCWords == 0 .. 2
Stopped(x, frame, link, vectors) ==
    [gpr |-> [x0 |-> x, x29 |-> frame, x30 |-> link], sp |-> 2, pc |-> 1, floats |-> vectors]
MCContexts == {Stopped(0, 0, 0, 0), Stopped(1, 2, 1, 2)}
=============================================================================
