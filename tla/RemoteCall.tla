----------------------------- MODULE RemoteCall -----------------------------
(***************************************************************************)
(* What a caller of a plugin may rely on, whatever happens to connections: *)
(* a call is executed once at most.  One that is answered was executed;    *)
(* one that is refused or skipped was not and never will be, so that it    *)
(* may be made again; of one that has failed nothing is known, and it may  *)
(* be executed even later.                                                 *)
(***************************************************************************)
EXTENDS Naturals

CONSTANTS Calls,   \* calls that may be made
          Repeats  \* attempts a call has

VARIABLES phase,    \* call -> how far it is, or how it has ended
          executed  \* requests that were executed: a call and an attempt

Phases == {"idle", "pending", "answered", "refused", "skipped", "failed"}

Was(c) == \E n \in 1..Repeats : <<c, n>> \in executed

Init ==
  /\ phase = [c \in Calls |-> "idle"]
  /\ executed = {}

Begin(c) ==
  /\ phase[c] = "idle"
  /\ phase' = [phase EXCEPT ![c] = "pending"]
  /\ UNCHANGED executed

Execute(c) ==
  /\ phase[c] \in {"pending", "failed"}
  /\ ~Was(c)
  /\ \E n \in 1..Repeats : executed' = executed \cup {<<c, n>>}
  /\ UNCHANGED phase

Answer(c) ==
  /\ phase[c] = "pending" /\ Was(c)
  /\ phase' = [phase EXCEPT ![c] = "answered"]
  /\ UNCHANGED executed

Decline(c) ==
  /\ phase[c] = "pending" /\ ~Was(c)
  /\ \E end \in {"refused", "skipped"} : phase' = [phase EXCEPT ![c] = end]
  /\ UNCHANGED executed

(* A connection ends with all the calls that wait on it.                   *)
Fail(S) ==
  /\ \A c \in S : phase[c] = "pending"
  /\ phase' = [c \in Calls |-> IF c \in S THEN "failed" ELSE phase[c]]
  /\ UNCHANGED executed

Next ==
  \/ \E c \in Calls : Begin(c) \/ Execute(c) \/ Answer(c) \/ Decline(c)
  \/ \E S \in SUBSET Calls : Fail(S)

Spec == Init /\ [][Next]_<<phase, executed>>
=============================================================================
