--------------------------- MODULE RequestContract ---------------------------
(***************************************************************************)
(* What the gateway promises the client and the upstreams about one        *)
(* request, whatever the breaker, the configuration and the disk do        *)
(* meanwhile: at most one attempt per route, the primary first; at most    *)
(* one answer; no attempt once an answer has begun; and every request that *)
(* was taken on is let go again unless its client stalls (LetsGo, which     *)
(* FailoverRequest checks under that assumption).                          *)
(***************************************************************************)
CONSTANT Requests

VARIABLES phase, tries

contractVars == <<phase, tries>>

Answered == {"delivered", "error_committed", "delivery_uncertain"}

Take(r) == /\ phase[r] = "idle"
           /\ phase' = [phase EXCEPT ![r] = "open"]
           /\ UNCHANGED tries

Try(r, role) == /\ phase[r] = "open"
                /\ role \notin tries[r]
                /\ role = "primary" => tries[r] = {}
                /\ tries' = [tries EXCEPT ![r] = @ \cup {role}]
                /\ UNCHANGED phase

BeginAnswer(r) == /\ phase[r] = "open"
                  /\ phase' = [phase EXCEPT ![r] = "committing"]
                  /\ UNCHANGED tries

EndAnswer(r) == /\ phase[r] = "committing"
                /\ \E a \in Answered :
                      /\ a = "delivered" => tries[r] # {}
                      /\ phase' = [phase EXCEPT ![r] = a]
                /\ UNCHANGED tries

\* An answered request is let go, or an open one without an answer.
LetGo(r) == /\ phase[r] \in Answered \cup {"open"}
            /\ phase' = [phase EXCEPT ![r] = "idle"]
            /\ tries' = [tries EXCEPT ![r] = {}]

\* The process dies and every request with it.
Lose == /\ phase' = [r \in Requests |-> "idle"]
        /\ tries' = [r \in Requests |-> {}]

ContractInit == /\ phase = [r \in Requests |-> "idle"]
                /\ tries = [r \in Requests |-> {}]

ContractNext ==
    \/ \E r \in Requests :
          \/ Take(r) \/ BeginAnswer(r) \/ EndAnswer(r) \/ LetGo(r)
          \/ \E role \in {"primary", "backup"} : Try(r, role)
    \/ Lose

ContractSafety == ContractInit /\ [][ContractNext]_contractVars

LetsGo == \A r \in Requests : phase[r] # "idle" ~> phase[r] = "idle"
=============================================================================
