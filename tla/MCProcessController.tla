------------------------ MODULE MCProcessController ------------------------
(***************************************************************************)
(* Instances of ProcessController for TLC.  Tokens are the lives of a PID.   *)
(***************************************************************************)
EXTENDS ProcessController

MCTwo    == 1 .. 2
MCThree  == 1 .. 3
MCTokens == 1 .. 2

\* The target and one descendant, each with an exec.
Two == [follow |-> TRUE, queue |-> 2, faults |-> {}, posix |-> FALSE,
        pids |-> 1 .. 2, images |-> 2, lives |-> 1]

\* Children followed or not, and Ctrl-C.
FollowOrNot == {[Two EXCEPT !.faults = {"interrupt"}, !.follow = f] : f \in BOOLEAN}

\* Everything that may go wrong around one descendant; three processes against a
\* cap of two, with a queue of one and exec-only children.
FaultsOrCaps == {[Two EXCEPT !.faults = {"killed", "agent", "session lost"}],
                 [Two EXCEPT !.pids = 1 .. 3, !.images = 1, !.queue = 1, !.posix = TRUE]}

Plain   == {Two}
Escape  == {[Two EXCEPT !.faults = {"ungated exec"}]}
PidReuse == {[Two EXCEPT !.images = 1, !.lives = 2]}
=============================================================================
