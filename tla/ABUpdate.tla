------------------------------- MODULE ABUpdate -------------------------------
(***************************************************************************)
(* What the dual-boot machinery is for, without its files: two slots, one   *)
(* running; the other may be rewritten only while it has no certificate; a  *)
(* certificate vouches for the content of its slot; and the slot that boots *)
(* changes on request or, unrequested, only between slots with equal        *)
(* certificates.                                                            *)
(***************************************************************************)
CONSTANTS Slots, Images, NoCert, NoSlot

VARIABLES
  content,    \* content[s]: what slot s holds
  cert,       \* cert[s]: the content slot s is vouched to hold, or NoCert
  running,    \* the slot the system runs from, NoSlot if it is down
  active,     \* the slot of the last boot
  requested   \* a switch is requested

abVars == <<content, cert, running, active, requested>>

Certified == \A s, t \in Slots : cert[s] # NoCert /\ cert[s] = cert[t]

Init ==
  /\ content \in [Slots -> Images]
  /\ cert = [s \in Slots |-> NoCert]
  /\ running = NoSlot
  /\ active \in Slots
  /\ requested = FALSE

Boot(s) ==
  /\ running = NoSlot
  /\ s = active \/ requested \/ Certified
  /\ running' = s /\ active' = s
  /\ UNCHANGED <<content, cert, requested>>

Stop == running' = NoSlot /\ UNCHANGED <<content, cert, active, requested>>

Revoke(s) ==
  /\ cert' = [cert EXCEPT ![s] = NoCert]
  /\ UNCHANGED <<content, running, active, requested>>

Certify(s) ==
  /\ running # NoSlot
  /\ cert' = [cert EXCEPT ![s] = content[s]]
  /\ UNCHANGED <<content, running, active, requested>>

Rewrite(s) ==
  /\ running \notin {NoSlot, s}
  /\ cert[s] = NoCert
  /\ \E c \in Images : content' = [content EXCEPT ![s] = c]
  /\ UNCHANGED <<cert, running, active, requested>>

Request == running # NoSlot /\ requested' \in BOOLEAN /\ UNCHANGED <<content, cert, running, active>>

Next ==
  \/ Stop \/ Request
  \/ \E s \in Slots : Boot(s) \/ Revoke(s) \/ Certify(s) \/ Rewrite(s)

Spec == Init /\ [][Next]_abVars
===============================================================================
