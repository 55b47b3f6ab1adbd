----------------------------- MODULE HandoffLog -----------------------------
(***************************************************************************)
(* What a hinted-handoff queue promises to the writer that hands it a hint *)
(* for an unreachable node, as long as no hint is older than MaxAge: a     *)
(* first-in first-out log.  An accepted hint waits until it has been       *)
(* applied by the target (or found unreadable), only the oldest waiting    *)
(* hint is ever sent, and a hint that was released is never sent again.    *)
(* A hint may be sent several times before it is released.                 *)
(***************************************************************************)
EXTENDS Integers

VARIABLES
  last,     \* number of hints accepted so far; hint n is the n-th one
  waiting,  \* accepted hints that can still be read back
  done      \* hints that the target applied or that were found unreadable

logVars == <<last, waiting, done>>

IsOldest(n) == n \in waiting /\ \A m \in waiting : n <= m

LogInit == last = 0 /\ waiting = {} /\ done = {}

Accept ==
  /\ last' = last + 1
  /\ waiting' = waiting \cup {last + 1}
  /\ UNCHANGED done

Send(n) ==
  /\ IsOldest(n)
  /\ done' = done \cup {n}
  /\ UNCHANGED <<last, waiting>>

Release(n) ==
  /\ IsOldest(n)
  /\ n \in done
  /\ waiting' = waiting \ {n}
  /\ UNCHANGED <<last, done>>

LogNext == Accept \/ \E n \in waiting : Send(n) \/ Release(n)

LogSpec == LogInit /\ [][LogNext]_logVars

=============================================================================
