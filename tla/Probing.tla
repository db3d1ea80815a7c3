-------------------------------- MODULE Probing --------------------------------
(* What the core finds out of its network: the NAT type (getNatType and        *)
(* nat/probe.ts) and the port control protocols, and the panel that asks       *)
(* (polymer/advanced-settings.ts).                                             *)
EXTENDS Integers, FiniteSets

CONSTANTS
  Call,        \* of getNatType
  Check,       \* of checkReproxy, by the panel
  Refresh,     \* of refreshPortControlSupport: the constructor starts with one
  Port,        \* of a SOCKS proxy on this computer
  Listening,   \* the ports that have one
  None

VARIABLES
  actual,          \* how the NAT behaves, 1..4: FullCone to SymmetricNAT
  phase,           \* of a call: 0, then 1..4 for the questions, 5 after them, and 6
  replies,         \* of the server, under way to the socket of a call
  natType,         \* 0 for the empty string
  resets,          \* the pending natResetTimeout_ timers
  told,            \* what a call has answered: None, 0 for the time-out, or a type
  portControlSupport_, shown, refreshing,
  port, reproxyCheck, checking, checks

vars == <<actual, phase, replies, natType, resets, told, portControlSupport_, shown,
          refreshing, port, reproxyCheck, checking, checks>>
nat == <<actual, phase, replies, natType, resets, told>>
control == <<portControlSupport_, shown, refreshing>>
panel == <<port, reproxyCheck, checking, checks>>

Types == 1..4
Support == {"PENDING", "TRUE", "FALSE"}

TypeOK ==
  /\ actual \in Types /\ natType \in 0..4 /\ resets \in 0..Cardinality(Call)
  /\ phase \in [Call -> 0..6]
  /\ replies \in [Call -> SUBSET Types] /\ told \in [Call -> {None} \union 0..4]
  /\ portControlSupport_ \in Support /\ shown \in Support /\ refreshing \subseteq Refresh
  /\ port \in Port /\ reproxyCheck \in {"UNCHECKED", "PENDING", "TRUE", "FALSE"}
  /\ checking \in [Check -> Port \union {None}] /\ checks \subseteq Check

Init ==
  /\ actual \in Types
  /\ phase = [k \in Call |-> 0] /\ replies = [k \in Call |-> {}]
  /\ natType = 0 /\ resets = 0 /\ told = [k \in Call |-> None]
  /\ portControlSupport_ = "PENDING" /\ shown = "PENDING" /\ (\E r \in Refresh : refreshing = {r})
  /\ port \in Port /\ reproxyCheck = "UNCHECKED"
  /\ checking = [c \in Check |-> None] /\ checks = {}

(* What the server answers to the question of a phase, when its answer can     *)
(* pass the NAT; the answers of the second and third question go by way of a   *)
(* Prepare that onUdpData replies to.                                          *)
Passes(t) == IF t = 4 THEN actual = 4 ELSE t >= actual
Ask(k, t) ==
  /\ phase' = [phase EXCEPT ![k] = t]
  /\ replies' = [replies EXCEPT ![k] = IF t \in Types /\ Passes(t) THEN @ \union {t} ELSE @]

(* getNatType: the type in memory, or a probe of its own. *)
getNatType(k) ==
  /\ phase[k] = 0
  /\ IF natType = 0
     THEN Ask(k, 1) /\ UNCHANGED told
     ELSE /\ phase' = [phase EXCEPT ![k] = 6]
          /\ told' = [told EXCEPT ![k] = natType] /\ UNCHANGED replies
  /\ UNCHANGED <<actual, natType, resets, control, panel>>

(* probe: the time for an answer is over, and the next question is asked. *)
NextQuestion(k) ==
  /\ phase[k] \in 1..4
  /\ Ask(k, phase[k] + 1)
  /\ UNCHANGED <<actual, natType, resets, told, control, panel>>

(* The first answer resolves the probe, also after the answer to the call was  *)
(* a time-out, and the type is kept for five minutes from then.                *)
Answered(k, t) ==
  /\ phase[k] \in 1..5 /\ t \in replies[k]
  /\ phase' = [phase EXCEPT ![k] = 6] /\ replies' = [replies EXCEPT ![k] = {}]
  /\ natType' = t /\ resets' = 1
  /\ told' = [told EXCEPT ![k] = IF @ = None THEN t ELSE @]
  /\ UNCHANGED <<actual, control, panel>>

(* The thirty seconds of getNatType, longer than the four questions take. *)
Countdown(k) ==
  /\ phase[k] = 5 /\ told[k] = None
  /\ told' = [told EXCEPT ![k] = 0]
  /\ UNCHANGED <<actual, phase, replies, natType, resets, control, panel>>

Lose(k, t) ==
  /\ t \in replies[k]
  /\ replies' = [replies EXCEPT ![k] = @ \ {t}]
  /\ UNCHANGED <<actual, phase, natType, resets, told, control, panel>>

natResetTimeout_ ==
  /\ resets > 0 /\ resets' = resets - 1 /\ natType' = 0
  /\ UNCHANGED <<actual, phase, replies, told, control, panel>>

(* refreshPortControlSupport; any number may be under way. *)
refreshPortControlSupport(r) ==
  /\ r \notin refreshing /\ refreshing' = refreshing \union {r}
  /\ portControlSupport_' = "PENDING" /\ shown' = "PENDING"
  /\ UNCHANGED <<nat, panel>>

getPortControlSupport(r) ==
  /\ r \in refreshing /\ refreshing' = refreshing \ {r}
  /\ \E support \in Support \ {"PENDING"} :
       portControlSupport_' = support /\ shown' = support
  /\ UNCHANGED <<nat, panel>>

(* The probe of the protocols rejects: nothing catches it. *)
SupportFails(r) ==
  /\ r \in refreshing /\ refreshing' = refreshing \ {r}
  /\ UNCHANGED <<portControlSupport_, shown, nat, panel>>

(* refreshReproxyCheck, for the port in the panel. *)
refreshReproxyCheck(c, p) ==
  /\ c \notin checks /\ checks' = checks \union {c}
  /\ port' = p /\ reproxyCheck' = "PENDING"
  /\ checking' = [checking EXCEPT ![c] = p]
  /\ UNCHANGED <<nat, control>>

(* checkReproxy: a connection to the port and a SOCKS handshake. *)
checkReproxy(c) ==
  /\ checking[c] # None
  /\ reproxyCheck' = IF checking[c] \in Listening THEN "TRUE" ELSE "FALSE"
  /\ checking' = [checking EXCEPT ![c] = None]
  /\ UNCHANGED <<port, checks, nat, control>>

Next ==
  \/ \E k \in Call :
       \/ getNatType(k) \/ NextQuestion(k) \/ Countdown(k)
       \/ \E t \in Types : Answered(k, t) \/ Lose(k, t)
  \/ natResetTimeout_
  \/ \E r \in Refresh :
       refreshPortControlSupport(r) \/ getPortControlSupport(r) \/ SupportFails(r)
  \/ \E c \in Check : checkReproxy(c) \/ \E p \in Port : refreshReproxyCheck(c, p)

Spec == Init /\ [][Next]_vars

(* However calls, late answers and resets overlap, a type that is kept has one *)
(* timer that will forget it, and no timer is left to forget the next one.     *)
KeptOnce == resets = IF natType = 0 THEN 0 ELSE 1

(* The type told is the type of the NAT: not when an answer is lost or late,   *)
(* for the next question has its own.                                          *)
ToldIsActual == \A k \in Call : told[k] \in Types => told[k] = actual

(* The state of a check is of the port it is shown with: not when an earlier   *)
(* check ends after a later one (advanced-settings.ts:109-116).                *)
CheckOfPort ==
  reproxyCheck \in {"TRUE", "FALSE"} => (reproxyCheck = "TRUE") = (port \in Listening)

(* Support is known when no refresh is under way: not when one of them failed. *)
SupportKnown == refreshing = {} => portControlSupport_ # "PENDING"
===============================================================================
