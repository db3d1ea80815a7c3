------------------------------ MODULE KeyVerify ------------------------------
(* Key verification (key-verify.ts, and its use in remote-instance.ts): two   *)
(* instances exchange eight messages, their users compare a short string      *)
(* (SAS) computed from them, and each side ends with "verified" or not.       *)
(* Either user may begin; a session that is not done in 120 s fails, and may  *)
(* be begun again while messages of the earlier one are still under way.      *)
(*                                                                            *)
(* Each session makes a hash chain, and its messages reveal it link by link:  *)
(* a message is known by the session whose chain it is of, and a Commit also  *)
(* by the Hello2 it was made for.  Keys and versions are as they should be.   *)
EXTENDS Naturals, Sequences

CONSTANTS
  Peer,        \* the two instances
  Sessions,    \* bound: the sessions each may open, a function from Peer
  MaxNet,      \* bound: messages under way to one peer
  None         \* no session

VARIABLES
  session,     \* the KeyVerify objects
  current,     \* keyVerifySession_
  verifyState,
  shown,       \* the session whose SAS is verifySAS_
  resolver,    \* the session whose showSAS resolvedVerifySAS_ settles
  clicked,     \* the user's "verify" is on its way to the core
  net          \* messages under way to a peer, in order

vars == <<session, current, verifyState, shown, resolver, clicked, net>>

Session == UNION {Sessions[p] : p \in Peer}
Type == {"Hello1", "Hello2", "Commit", "DHPart1", "DHPart2", "Confirm1", "Confirm2", "Conf2Ack"}
Message == [type : Type, of : Session, ref : Session \cup {None}]
OtherPeer(p) == CHOOSE q \in Peer : q # p

(* A session: the messages it sent or accepted, and how it ended.             *)
Unused == [isInitiator |-> FALSE, messages |-> <<>>, sas |-> "none", result |-> "unused"]

TypeOK ==
  /\ \A s \in Session :
       /\ session[s].isInitiator \in BOOLEAN
       /\ DOMAIN session[s].messages \in SUBSET Type
       /\ \A t \in DOMAIN session[s].messages : session[s].messages[t] \in Message
       /\ session[s].sas \in {"none", "due", "shown", "yes", "no"}
       /\ session[s].result \in {"unused", "open", "yes", "no"}
  /\ current \in [Peer -> Session \cup {None}] /\ shown \in [Peer -> Session \cup {None}]
  /\ resolver \in [Peer -> Session \cup {None}]
  /\ verifyState \in [Peer -> {"NONE", "BEGIN", "COMPLETE", "FAILED"}]
  /\ clicked \in [Peer -> BOOLEAN] /\ net \in [Peer -> Seq(Message)]

Init ==
  /\ session = [s \in Session |-> Unused]
  /\ current = [p \in Peer |-> None] /\ verifyState = [p \in Peer |-> "NONE"]
  /\ shown = [p \in Peer |-> None] /\ resolver = [p \in Peer |-> None]
  /\ clicked = [p \in Peer |-> FALSE] /\ net = [p \in Peer |-> <<>>]

Has(x, t) == t \in DOMAIN x.messages
Of(x, t) == x.messages[t].of

(* calculateTotalHash_, and so the SAS. *)
SAS(x) == <<Of(x, "Hello2"), x.messages["Commit"], Of(x, "DHPart1"), Of(x, "DHPart2")>>

(* roleMessageMap_, appropriateForRole_ *)
appropriateForRole_(t, isInitiator) ==
  isInitiator = (t \in {"Hello2", "DHPart1", "Confirm1", "Conf2Ack"})

(* messages[m.type] = m, for a type that is not there yet.                    *)
Keep(messages, m) ==
  [t \in DOMAIN messages \cup {m.type} |-> IF t \in DOMAIN messages THEN messages[t] ELSE m]

resolve_(x, r) == IF x.result = "open" THEN [x EXCEPT !.result = r] ELSE x

set_(x, m) ==
  IF Has(x, m.type) THEN resolve_(x, "no")
  ELSE [x EXCEPT !.messages = Keep(@, m)]

------------------------------------------------------------------------------
(* sendNextMessage: what follows the last message of the peer ...             *)
NextInOrder(x) ==
  IF x.isInitiator
    THEN CASE Has(x, "Confirm1") -> "Confirm2"
           [] Has(x, "DHPart1") /\ ~Has(x, "Confirm1") -> "DHPart2"
           [] Has(x, "Hello2") /\ ~Has(x, "DHPart1") /\ ~Has(x, "Confirm1") -> "Commit"
           [] OTHER -> "Hello1"
    ELSE CASE Has(x, "Confirm2") -> "Conf2Ack"
           [] Has(x, "DHPart2") /\ ~Has(x, "Confirm2") -> "Confirm1"
           [] Has(x, "Commit") /\ ~Has(x, "DHPart2") /\ ~Has(x, "Confirm2") -> "DHPart1"
           [] OTHER -> "Hello2"

(* Mutant: neither side waits for its user's approval. *)
NextType_unapproved(x) == {NextInOrder(x)} \ DOMAIN x.messages

(* ... unless it was sent or waits for the user's approval.                   *)
NextType(x) ==
  LET next == NextInOrder(x)
      shouldSend == next = (IF x.isInitiator THEN "Confirm2" ELSE "Confirm1") => x.sas = "yes"
  IN  IF shouldSend /\ ~Has(x, next) THEN {next} ELSE {}

(* The generators: each message shows the next link of the sender's chain. *)
generate_(s, x, t) ==
  [type |-> t, of |-> s, ref |-> IF t = "Commit" THEN Of(x, "Hello2") ELSE None]

(* sendNextMessage as a whole: the session and what it sends.  Generation is  *)
(* of promises that are fulfilled already.  A send that fails ends it.        *)
sendNextMessage(s, x, sent) ==
  IF x.result # "open" \/ NextType(x) = {} THEN [x |-> x, out |-> <<>>]
  ELSE LET m == generate_(s, x, CHOOSE t \in NextType(x) : TRUE)
           y == set_(x, m) IN
       IF sent THEN [x |-> IF m.type = "Conf2Ack" THEN resolve_(y, "yes") ELSE y, out |-> <<m>>]
       ELSE [x |-> resolve_(y, "no"), out |-> <<>>]

(* The session s of p becomes n.x and sends n.out; if it ends so, p takes the *)
(* result over, whatever session is current.                                  *)
Becomes(p, s, n) ==
  LET over == session[s].result = "open" /\ n.x.result # "open"
      q == OtherPeer(p) IN
  /\ session' = [session EXCEPT ![s] = n.x]
  /\ verifyState' = IF over THEN [verifyState EXCEPT ![p] =
                                    IF n.x.result = "yes" THEN "COMPLETE" ELSE "FAILED"]
                    ELSE verifyState
  /\ current' = IF over THEN [current EXCEPT ![p] = None] ELSE current
  /\ shown' = IF over THEN [shown EXCEPT ![p] = None] ELSE shown

Sends(p, s, n) ==
  /\ Becomes(p, s, n)
  /\ Len(net[OtherPeer(p)]) + Len(n.out) <= MaxNet

Enqueue(network, p, n) == [network EXCEPT ![OtherPeer(p)] = @ \o n.out]

(* verifyUser, unless the key is verified: a session is opened and replaces   *)
(* the current one; it says Hello1, or Hello2 when it was opened by a Hello1. *)
verifyUser(p, s, hello, network) ==
  LET x == [Unused EXCEPT !.result = "open", !.isInitiator = (hello = <<>>),
                          !.messages = hello] IN
  \E sent \in BOOLEAN :
    LET n == sendNextMessage(s, x, sent) IN
    /\ session[s] = Unused
    /\ Len(network[OtherPeer(p)]) + Len(n.out) <= MaxNet
    /\ session' = [session EXCEPT ![s] = n.x]
    /\ net' = Enqueue(network, p, n)
    /\ verifyState' = [verifyState EXCEPT ![p] = IF sent THEN "BEGIN" ELSE "FAILED"]
    /\ current' = [current EXCEPT ![p] = IF sent THEN s ELSE None]
    /\ shown' = IF sent THEN shown ELSE [shown EXCEPT ![p] = None]

(* The button is there unless a verification is under way or done; by the     *)
(* time the command gets to the core that may have changed.                   *)
Click(p) ==
  /\ verifyState[p] \in {"NONE", "FAILED"} /\ ~clicked[p]
  /\ \E s \in Sessions[p] : session[s] = Unused
  /\ clicked' = [clicked EXCEPT ![p] = TRUE]
  /\ UNCHANGED <<session, current, verifyState, shown, resolver, net>>

Verify(p) ==
  /\ clicked[p] /\ clicked' = [clicked EXCEPT ![p] = FALSE]
  /\ IF verifyState[p] = "COMPLETE" \/ \A s \in Sessions[p] : session[s] # Unused
       THEN UNCHANGED <<session, current, verifyState, shown, net>>
       ELSE \E s \in Sessions[p] : verifyUser(p, s, <<>>, net)
  /\ UNCHANGED resolver

------------------------------------------------------------------------------
(* The readers: what a message must agree with, and what becomes of the       *)
(* session.  A reader that misses an earlier message throws.                  *)
Needs(t) ==
  CASE t = "Commit" -> {"Hello1", "Hello2"} [] t = "DHPart1" -> {"Hello2"}
    [] t = "DHPart2" -> {"Commit", "Hello2"} [] t = "Confirm1" -> {"DHPart1"}
    [] t = "Confirm2" -> {"DHPart2"} [] OTHER -> {}

Agrees(s, x, m) ==
  CASE m.type = "Commit" -> Of(x, "Hello1") = m.of
    [] m.type = "DHPart2" -> Of(x, "Commit") = m.of /\ x.messages["Commit"].ref = Of(x, "Hello2")
    [] m.type = "Confirm1" -> Of(x, "DHPart1") = m.of
    [] m.type = "Confirm2" -> Of(x, "DHPart2") = m.of
    [] OTHER -> TRUE

(* readHello_ .. readConf2Ack_: after a part of the key exchange the SAS is   *)
(* computed, and an acknowledgement ends the session.                         *)
Accept(s, x, m) ==
  LET y == set_(x, m) IN
  IF ~Agrees(s, x, m) THEN resolve_(x, "no")
  ELSE IF m.type \in {"DHPart1", "DHPart2"} THEN [y EXCEPT !.sas = IF @ = "none" THEN "due" ELSE @]
  ELSE IF m.type = "Conf2Ack" THEN resolve_(y, "yes") ELSE y

(* handleKeyVerifyMessage, readMessage and protoVerify_, which finds no       *)
(* prerequisites for any message: the table of them is keyed by name and read *)
(* by number.                                                                 *)
Read(p) ==
  /\ net[p] # <<>>
  /\ LET m == Head(net[p])
         rest == [net EXCEPT ![p] = Tail(@)]
         s == current[p]
         ignored == net' = rest /\ UNCHANGED <<session, current, verifyState, shown>> IN
     IF s = None
       THEN IF m.type # "Hello1" \/ verifyState[p] = "COMPLETE"
               \/ \A r \in Sessions[p] : session[r] # Unused
              THEN ignored
              ELSE \E r \in Sessions[p] : verifyUser(p, r, Keep(<<>>, m), rest)
       ELSE IF ~appropriateForRole_(m.type, session[s].isInitiator)
               \/ ~(Needs(m.type) \subseteq DOMAIN session[s].messages)
              THEN ignored
              ELSE \E sent \in BOOLEAN :
                     LET y == Accept(s, session[s], m)
                         n == IF m.type = "Conf2Ack" THEN [x |-> y, out |-> <<>>]
                              ELSE sendNextMessage(s, y, sent) IN
                     Sends(p, s, n) /\ net' = Enqueue(rest, p, n)
  /\ UNCHANGED <<resolver, clicked>>

(* calculateSAS_ is done: showSAS. *)
ShowSAS(p, s) ==
  /\ session[s].sas = "due"
  /\ session' = [session EXCEPT ![s].sas = "shown"]
  /\ shown' = [shown EXCEPT ![p] = s] /\ resolver' = [resolver EXCEPT ![p] = s]
  /\ UNCHANGED <<current, verifyState, clicked, net>>

(* finishVerifyUser: the user says yes only if the other one sees the same    *)
(* string.  The answer is for whatever session asked last.                    *)
Finish(p) ==
  /\ verifyState[p] = "BEGIN" /\ shown[p] # None /\ resolver[p] # None
  /\ \E yes, sent \in BOOLEAN :
       LET q == OtherPeer(p)
           s == resolver[p]
           x == [session[s] EXCEPT !.sas = IF yes THEN "yes" ELSE "no"]
           n == IF yes THEN sendNextMessage(s, x, sent)
                ELSE [x |-> resolve_(x, "no"), out |-> <<>>] IN
       /\ yes => /\ shown[q] # None
                 /\ SAS(session[shown[p]]) = SAS(session[shown[q]])
       /\ session[s].sas = "shown"
       /\ Sends(p, s, n) /\ net' = Enqueue(net, p, n)
  /\ UNCHANGED <<resolver, clicked>>

(* The timer of start(). *)
Timeout(p, s) ==
  /\ session[s].result = "open"
  /\ Becomes(p, s, [x |-> resolve_(session[s], "no"), out |-> <<>>])
  /\ UNCHANGED <<resolver, clicked, net>>

Lose(p) ==
  /\ net[p] # <<>> /\ net' = [net EXCEPT ![p] = Tail(@)]
  /\ UNCHANGED <<session, current, verifyState, shown, resolver, clicked>>

Next == \E p \in Peer : \/ Click(p) \/ Verify(p) \/ Read(p) \/ Finish(p) \/ Lose(p)
                        \/ \E s \in Sessions[p] : ShowSAS(p, s) \/ Timeout(p, s)
Spec == Init /\ [][Next]_vars

------------------------------------------------------------------------------
(* A responder that ends with "verified" does so with both users' approval of *)
(* the same string (key-verify.ts:563, 578).                                  *)
BothApproved ==
  \A s \in Session : session[s].result = "yes" /\ ~session[s].isInitiator =>
    LET r == Of(session[s], "DHPart2") IN
    /\ session[s].sas = "yes" /\ session[r].sas = "yes"
    /\ SAS(session[s]) = SAS(session[r])

(* An initiator that ends with "verified" was shown a string its user agreed  *)
(* with: an acknowledgement has a Confirm2 before it (key-verify.ts:648).     *)
InitiatorApproved ==
  \A s \in Session : session[s].result = "yes" => session[s].sas = "yes"
=============================================================================
