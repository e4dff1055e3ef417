----------------------------- MODULE MCPipeline -----------------------------
(***************************************************************************)
(* Instances of Pipeline for TLC.                                           *)
(***************************************************************************)
EXTENDS Pipeline, TLC

CONSTANTS t1, t2, p1, p2,
          whole, lame, \* a module with every hook, one without the hook on sqlite3_reset,
          unscanned    \* one loaded late, under a name without "sqlite"

MCThreads  == {t1, t2}
MCPointers == {p1, p2}
MCModules  == {whole, lame, unscanned}
MCHooked   == whole :> HookNames @@ lame :> HookNames \ {"reset"} @@ unscanned :> {}
MCReadable == {whole, lame}
MCTexts    == <<"a", "b">>
MCConfigs  == {[limit |-> 0, autoindex |-> FALSE], [limit |-> Null, autoindex |-> TRUE]}

\* Two threads, one statement and then a second one at the same pointer.
Reuse == [doctor |-> FALSE, modules |-> {whole}, inherited |-> << >>, threads |-> MCThreads,
          pointers |-> {p1}, lives |-> 2, runs |-> 1, work |-> 1, depth |-> 1]

\* A module that is not scanned beside a complete one.  When it was loaded makes no difference
\* before its first use, so it is there from the start and may come again.
Late == {[Reuse EXCEPT !.modules = {whole, unscanned}, !.threads = {t1}]}

MCSettings == {
    Reuse,
    \* two executions of one statement, whose counter becomes unreadable
    [Reuse EXCEPT !.lives = 1, !.runs = 2],
    \* each thread with a statement of its own
    [Reuse EXCEPT !.pointers = MCPointers, !.work = 0],
    \* calls within calls
    [Reuse EXCEPT !.pointers = MCPointers, !.runs = 2, !.depth = 2, !.threads = {t1}],
    \* statements prepared before the fork
    [Reuse EXCEPT !.lives = 1, !.pointers = MCPointers, !.threads = {t1}, !.modules = {whole, lame},
                  !.inherited = p1 :> whole @@ p2 :> lame],
    \* an incomplete module beside a complete one
    [Reuse EXCEPT !.modules = {whole, lame}, !.threads = {t1}],
    \* sqlitewatch check
    [Reuse EXCEPT !.modules = {whole, lame}, !.pointers = MCPointers, !.runs = 0, !.doctor = TRUE]}
    \cup Late

\* Sound although some settings name t1: the setting never changes, and each such setting
\* stands for its twin with t2.
MCSymmetry == Permutations(MCThreads)
=============================================================================
