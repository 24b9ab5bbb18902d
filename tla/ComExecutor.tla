---------------------------- MODULE ComExecutor ----------------------------
(***************************************************************************)
(* What a Session promises about COM calls, without goroutines, locks or   *)
(* channels (the contract of session.go's NewSession, do and Close):       *)
(*                                                                         *)
(*   - a request runs at most once, and only while the session is open;    *)
(*   - a request that finds the session stopped is answered without being  *)
(*     run, never lost and never run later;                                *)
(*   - the session is torn down only after it has stopped, and no call of  *)
(*     Close returns before that.                                          *)
(*                                                                         *)
(* Session.tla implements this specification.                              *)
(***************************************************************************)
CONSTANT Callers          \* the goroutines that share the *Session

VARIABLES phase,          \* life of the session
          req,            \* req[c]: state of c's current request
          closeReturned   \* some call of Close has returned

vars == <<phase, req, closeReturned>>

Phases == {"starting", "failed", "open", "stopped", "torndown"}
Requests == {"idle", "called", "ran", "skipped"}

Init == /\ phase = "starting"
        /\ req = [c \in Callers |-> "idle"]
        /\ closeReturned = FALSE

\* NewSession returns: with a usable session, or with an error and nothing.
Start == /\ phase = "starting"
         /\ phase' \in {"open", "failed"}
         /\ UNCHANGED <<req, closeReturned>>

Call(c) == /\ phase \in {"open", "stopped", "torndown"}
           /\ req[c] = "idle"
           /\ req' = [req EXCEPT ![c] = "called"]
           /\ UNCHANGED <<phase, closeReturned>>

Run(c) == /\ phase = "open"
          /\ req[c] = "called"
          /\ req' = [req EXCEPT ![c] = "ran"]
          /\ UNCHANGED <<phase, closeReturned>>

Skip(c) == /\ phase \in {"stopped", "torndown"}
           /\ req[c] = "called"
           /\ req' = [req EXCEPT ![c] = "skipped"]
           /\ UNCHANGED <<phase, closeReturned>>

Return(c) == /\ req[c] \in {"ran", "skipped"}
             /\ req' = [req EXCEPT ![c] = "idle"]
             /\ UNCHANGED <<phase, closeReturned>>

\* Close takes effect: every request that was let in has been answered.
Stop == /\ phase = "open"
        /\ \A c \in Callers : req[c] # "ran"
        /\ phase' = "stopped"
        /\ UNCHANGED <<req, closeReturned>>

TearDown == /\ phase = "stopped"
            /\ phase' = "torndown"
            /\ UNCHANGED <<req, closeReturned>>

CloseReturns == /\ phase = "torndown"
                /\ closeReturned' = TRUE
                /\ UNCHANGED <<phase, req>>

Next == \/ Start \/ Stop \/ TearDown \/ CloseReturns
        \/ \E c \in Callers : Call(c) \/ Run(c) \/ Skip(c) \/ Return(c)

Spec == Init /\ [][Next]_vars
=============================================================================
