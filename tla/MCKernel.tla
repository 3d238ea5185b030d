------------------------------ MODULE MCKernel ------------------------------
(* Two families of Runs for Kernel, in one state graph: without a token limit
   two turns with different calls, with one three turns of equal calls.       *)
EXTENDS Kernel, TLC

CONSTANTS
  Turns,  \* bound on the turns of a Run without a limit
  Same    \* the one call of a Run with a limit

(* without a limit usage is counted but not looked at: none is reported *)
Within ==
  /\ spec.limit = None => turn <= Turns /\ reported = 0
  /\ spec.limit # None => \A i \in DOMAIN batch : batch[i].signature = Same

MCNext == Next /\ Within'

(* fairness is that of the whole system: no behaviour ends at a bound *)
MCSpec == Init /\ [][MCNext]_vars /\ Fairness
=============================================================================
