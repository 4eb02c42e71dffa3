---------------------------- MODULE SpeechService ----------------------------
(***************************************************************************)
(* What nw_session_say promises to the device task, without requests,      *)
(* answers, sockets and retries: an utterance of so many chunks is said    *)
(* chunk by chunk in the order of the text, from the first one on, and is  *)
(* reported as a success only when all of it was said.                     *)
(*                                                                         *)
(* The promise holds while the session is sound.                           *)
(***************************************************************************)
EXTENDS Naturals, Sequences

CONSTANT MaxChunks  \* bound on the chunks of an utterance

VARIABLES
    asked,      \* chunks of the utterance
    said,       \* the chunks said of it
    result,     \* "pending" while it is being said
    sound       \* nothing has happened that the session cannot repair

vars == <<asked, said, result, sound>>

Init == asked = 0 /\ said = <<>> /\ result = "none" /\ sound = TRUE

Ask(n) ==
    /\ result # "pending"
    /\ asked' = n /\ said' = <<>> /\ result' = "pending"

Say ==
    /\ result = "pending" /\ Len(said) < asked
    /\ said' = Append(said, Len(said) + 1)
    /\ UNCHANGED <<asked, result>>

Succeed ==
    /\ result = "pending" /\ Len(said) = asked
    /\ result' = "ok" /\ UNCHANGED <<asked, said>>

Fail ==
    /\ result = "pending"
    /\ result' = "failed" /\ UNCHANGED <<asked, said>>

Promised ==
    /\ Say \/ Succeed \/ Fail \/ \E n \in 1..MaxChunks : Ask(n)
    /\ UNCHANGED sound

\* From here on anything may happen.
Lost == sound' = FALSE

Next == Promised \/ Lost

Spec == Init /\ [][Next]_vars
=============================================================================
