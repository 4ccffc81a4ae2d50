----------------------------- MODULE FlowFilter -----------------------------
(***************************************************************************)
(* What a stateful firewall promises, without tables, indices or memory:   *)
(* it knows at most MaxFlows flows and the last time each was used, lets   *)
(* everything out, and lets in exactly what answers a flow it has seen     *)
(* within the expiration time.  It may forget a flow only when the flow    *)
(* has expired, and fails to learn one only when it knows MaxFlows others  *)
(* that have not: the spec of nf/firewall/spec.py, made precise about      *)
(* which flows are known.                                                  *)
(***************************************************************************)
EXTENDS Integers, FiniteSets

CONSTANTS Keys, Clock, MaxFlows, ExpirationTime

VARIABLES
  known,      \* last use of each flow that is known
  handled     \* the last packet and what happened to it

vars == <<known, handled>>

IsYoung(f, time) == time < ExpirationTime \/ time - ExpirationTime <= known[f]

Use(f, time, others) ==
  [g \in others \cup {f} |-> IF g = f THEN time ELSE known[g]]

Handle(from, f, time, verdict) ==
  handled' = [from |-> from, flow |-> f, time |-> time, verdict |-> verdict]

Init == known = << >> /\ handled = [verdict |-> "none"]

\* A packet that is not TCP or UDP over IPv4.
Other == handled' = [verdict |-> "drop"] /\ UNCHANGED known

Outgoing(f, time) ==
  /\ Handle("internal", f, time, "forward")
  /\ \/ \* f is known, or there is room for it
        /\ f \in DOMAIN known \/ Cardinality(DOMAIN known) < MaxFlows
        /\ known' = Use(f, time, DOMAIN known)
     \/ \* f takes the place of a flow that expired
        /\ f \notin DOMAIN known
        /\ \E g \in DOMAIN known :
             ~ IsYoung(g, time) /\ known' = Use(f, time, DOMAIN known \ {g})
     \/ \* no room at all
        /\ f \notin DOMAIN known
        /\ Cardinality(DOMAIN known) = MaxFlows
        /\ \A g \in DOMAIN known : IsYoung(g, time)
        /\ UNCHANGED known

Incoming(f, time) ==
  IF f \in DOMAIN known /\ IsYoung(f, time)
  THEN /\ Handle("external", f, time, "forward")
       /\ known' = Use(f, time, DOMAIN known)
  ELSE /\ Handle("external", f, time, "drop")
       /\ UNCHANGED known

Next ==
  \/ Other
  \/ \E f \in Keys, time \in Clock : Outgoing(f, time) \/ Incoming(f, time)

Spec == Init /\ [][Next]_vars

=============================================================================
