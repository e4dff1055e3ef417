----------------------------- MODULE MCShutdown -----------------------------
(***************************************************************************)
(* An instance of Shutdown for TLC: the target and its child.               *)
(***************************************************************************)
EXTENDS Shutdown

CONSTANT child

MCDescendants == {child}
MCDepth       == [p \in MCDescendants |-> 1]

\* A run of the whole tree, interrupted at most twice, on a system that keeps up.
Ordinary == [start |-> "running", known |-> {Target, child}, stuck |-> {}, denied |-> {},
             slow |-> FALSE, harmed |-> FALSE, interrupts |-> 2]
MCSettings == {
    Ordinary,
    \* a child nobody knows; timeouts that pass early; processes no signal ends, and a launcher
    \* killed from outside
    [Ordinary EXCEPT !.known = {Target}],
    [Ordinary EXCEPT !.slow = TRUE, !.interrupts = 1],
    [Ordinary EXCEPT !.stuck = {child}],
    [Ordinary EXCEPT !.denied = {child}, !.interrupts = 1],
    [Ordinary EXCEPT !.denied = {"gates"}, !.interrupts = 1],
    [Ordinary EXCEPT !.stuck = {Target}, !.harmed = TRUE],
    \* Ctrl-C, or a failure, before the root is admitted, known as a child or not at all
    [Ordinary EXCEPT !.start = "starting", !.known = {Target}],
    [Ordinary EXCEPT !.start = "starting", !.known = {}],
    [Ordinary EXCEPT !.start = "launch failed", !.known = {}]}
=============================================================================
