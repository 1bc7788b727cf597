----------------------------- MODULE Coroutines -----------------------------
(***************************************************************************)
(* What coroutine.create, resume, status, wrap and yield promise a Lua     *)
(* program: exactly one coroutine runs, those that wait for it form a      *)
(* chain down to the main thread, one that has ended never runs again, and *)
(* one that is suspended can go on.  The last two are promised as long as  *)
(* what a coroutine returns fits on the stack of the one that resumed it.  *)
(***************************************************************************)
EXTENDS Sequences, SequencesExt

CONSTANTS Threads, Main

VARIABLES
    status,     \* thread |-> what coroutine.status says of it
    chain,      \* the threads that have resumed each other, the running one last;
                \* empty after a crash
    kept        \* the coroutines that have results of an earlier run on their stack

Init ==
    /\ status = [t \in Threads |-> IF t = Main THEN "running" ELSE "none"]
    /\ chain = <<Main>>
    /\ kept = {}

Create(t) ==
    /\ status[t] = "none"
    /\ status' = [status EXCEPT ![t] = "suspended"]
    /\ UNCHANGED <<chain, kept>>

Resume(t) ==
    /\ status[t] = "suspended"
    /\ status' = [status EXCEPT ![t] = "running", ![Last(chain)] = "normal"]
    /\ chain' = Append(chain, t)
    /\ UNCHANGED kept

Leave(to) ==
    /\ Len(chain) > 1
    /\ chain' = Front(chain)
    /\ status' = [status EXCEPT ![Last(chain)] = to, ![Last(chain')] = "running"]

Yield == Leave("suspended") /\ UNCHANGED kept
Fail == Leave("dead") /\ UNCHANGED kept
End == Leave("dead") /\ kept' = kept \ {Last(chain)}

\* Its results did not fit: the program is told that it is suspended.
EndOverfull == Leave("suspended") /\ kept' = kept \cup {Last(chain)}

\* It could not be started, and then nothing need be left on its stack.
Refuse(t) ==
    /\ status[t] = "suspended"
    /\ status' = [status EXCEPT ![t] = "dead"]
    /\ kept' \in {kept, kept \ {t}}
    /\ UNCHANGED chain

\* Only a coroutine that should have been dead cannot go on.
Crash(t) ==
    /\ status[t] = "suspended" /\ t \in kept
    /\ chain' = <<>>
    /\ UNCHANGED <<status, kept>>

Next ==
    /\ chain # <<>>
    /\ \/ \E t \in Threads : Create(t) \/ Resume(t) \/ Refuse(t) \/ Crash(t)
       \/ Yield \/ Fail \/ End \/ EndOverfull

Spec == Init /\ [][Next]_<<status, chain, kept>>
============================================================================
