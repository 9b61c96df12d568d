--------------------------- MODULE RequestContract ---------------------------
(***************************************************************************)
(* What a caller of Clark may rely on: a request that was never made is    *)
(* never served, and a yes means that it was.  A no, or no answer at all,  *)
(* says nothing: the request may have been served, or may be served yet.   *)
(***************************************************************************)
CONSTANT Call

VARIABLES
  phase,   \* phase[c]: "idle", "declined", "open", or the answer
  done     \* the calls Clark has served

vars == <<phase, done>>

Answers == {"yes", "no", "unknown"}

Init ==
  /\ phase = [c \in Call |-> "idle"]
  /\ done = {}

Become(c, p) == phase' = [phase EXCEPT ![c] = p] /\ UNCHANGED done

Ask(c) ==
  /\ phase[c] = "idle"
  /\ \E p \in {"open", "declined"} : Become(c, p)

Serve(c) ==
  /\ phase[c] \in {"open"} \union Answers
  /\ done' = done \union {c}
  /\ UNCHANGED phase

Answer(c, a) ==
  /\ phase[c] = "open"
  /\ a = "yes" => c \in done
  /\ Become(c, a)

Next == \E c \in Call : Ask(c) \/ Serve(c) \/ \E a \in Answers : Answer(c, a)

Spec == Init /\ [][Next]_vars
=============================================================================
