----------------------------- MODULE ScriptCall -----------------------------
(***************************************************************************)
(* What LuaCaller and LuaResult promise, without a stack: a caller gathers *)
(* a function and its arguments, calls once, and hands the results of that *)
(* call out once each and in order, whatever other callers do meanwhile.   *)
(***************************************************************************)
EXTENDS Naturals, Sequences

CONSTANTS Callers, Values

VARIABLES
  phase,   \* phase[c]: "none", "open", "running", "done" or "failed"
  given,   \* given[c]: the function and the arguments
  queue,   \* queue[c]: the results nobody has read
  taken    \* taken[c]: the results read so far

vars == <<phase, given, queue, taken>>

Init ==
  /\ phase = [c \in Callers |-> "none"]
  /\ given = [c \in Callers |-> << >>]
  /\ queue = [c \in Callers |-> << >>]
  /\ taken = [c \in Callers |-> << >>]

Open(c, f) ==
  /\ phase[c] = "none"
  /\ phase' = [phase EXCEPT ![c] = "open"]
  /\ given' = [given EXCEPT ![c] = <<f>>]
  /\ UNCHANGED <<queue, taken>>

Give(c, v) ==
  /\ phase[c] = "open"
  /\ given' = [given EXCEPT ![c] = Append(@, v)]
  /\ UNCHANGED <<phase, queue, taken>>

Start(c) ==
  /\ phase[c] = "open"
  /\ phase' = [phase EXCEPT ![c] = "running"]
  /\ UNCHANGED <<given, queue, taken>>

\* The call returns any results.
Return(c) ==
  /\ phase[c] = "running"
  /\ phase' = [phase EXCEPT ![c] = "done"]
  /\ queue'[c] \in Seq(Values)
  /\ queue' = [queue EXCEPT ![c] = queue'[c]]
  /\ UNCHANGED <<given, taken>>

Take(c) ==
  /\ phase[c] = "done" /\ queue[c] # << >>
  /\ queue' = [queue EXCEPT ![c] = Tail(@)]
  /\ taken' = [taken EXCEPT ![c] = Append(@, Head(queue[c]))]
  /\ UNCHANGED <<phase, given>>

\* The callers in gone end (one is destroyed, or an error unwinds them), and
\* the calls of those in failed fail with them.
End(gone, failed) ==
  /\ \A c \in gone : phase[c] # "none"
  /\ \A c \in failed : phase[c] \in {"open", "running"}
  /\ phase' = [c \in Callers |-> IF c \in gone THEN "none"
                                 ELSE IF c \in failed THEN "failed" ELSE phase[c]]
  /\ given' = [c \in Callers |-> IF c \in gone THEN << >> ELSE given[c]]
  /\ queue' = [c \in Callers |-> IF c \in gone THEN << >> ELSE queue[c]]
  /\ taken' = [c \in Callers |-> IF c \in gone THEN << >> ELSE taken[c]]

Next ==
  \/ \E c \in Callers :
       \/ \E v \in Values : Open(c, v) \/ Give(c, v)
       \/ Start(c) \/ Return(c) \/ Take(c)
  \/ \E gone, failed \in SUBSET Callers : End(gone, failed)

Spec == Init /\ [][Next]_vars
=============================================================================
