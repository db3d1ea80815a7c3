------------------------------- MODULE SocksHeaders -----------------------------
(* The bytes of the SOCKS handshake (lib/socks/headers.ts): each message is    *)
(* composed by one end and interpreted by the other, possibly cut short.  An   *)
(* address is four or sixteen bytes, or the characters of a name; texts of     *)
(* addresses (ipaddr.js) are not distinguished from their bytes.               *)
EXTENDS Integers, Sequences

CONSTANTS
  NameLengths, Ports, Texts,   \* lengths of names, ports, lengths of user names and passwords
  Cuts                         \* bound: bytes missing at the end of a message

VARIABLES
  message,   \* what is sent
  bytes,     \* composed
  result     \* interpreted: the message, or "thrown"

vars == <<message, bytes, result>>

Byte(n) == n % 256
At(b, k) == IF k \in DOMAIN b THEN b[k] ELSE 0      \* undefined, as a number
Text(n) == [k \in 1..n |-> 97]

Version == [VERSION1 |-> 1, VERSION5 |-> 5]
NOAUTH == 0
USERPASS == 2
Command == {1, 2, 3}
Interpretable == {1, 3}      \* TCP_CONNECT, UDP_ASSOCIATE
Reply == 0..9
IP_V4 == 1
DNS == 3
IP_V6 == 4

Address ==
  {[type |-> IP_V4, chars |-> <<10, 0, 0, 255>>],
   [type |-> IP_V6, chars |-> [k \in 1..16 |-> k]]}
  \cup {[type |-> DNS, chars |-> Text(n)] : n \in NameLengths}

Endpoint == {[address |-> a, port |-> p] : a \in Address, p \in Ports}

Message ==
  {[kind |-> "auth", methods |-> ms] : ms \in {<<NOAUTH>>, <<USERPASS, NOAUTH>>, <<USERPASS>>}}
  \cup {[kind |-> "userPass", username |-> Text(u), password |-> Text(p)] : u \in Texts, p \in Texts}
  \cup {[kind |-> "userPassResponse", success |-> s] : s \in BOOLEAN}
  \cup {[kind |-> "authResponse", method |-> m] : m \in {NOAUTH, USERPASS}}
  \cup {[kind |-> "request", command |-> c, endpoint |-> e] : c \in Command, e \in Endpoint}
  \cup {[kind |-> "response", reply |-> r, endpoint |-> e] : r \in Reply, e \in Endpoint}

Init == message \in Message /\ bytes = <<>> /\ result = "none"

(* composeDestination, for the type the address has. *)
composeDestination(e) ==
  LET chars == e.address.chars
  IN  <<e.address.type>>
        \o (IF e.address.type = DNS THEN <<Byte(Len(chars))>> ELSE <<>>)
        \o chars \o <<Byte(e.port \div 256), Byte(e.port)>>

(* composeAuthHandshakeBuffer, composeUserPassRequest, composeUserPassResponse, *)
(* composeAuthResponse, composeRequestBuffer, composeResponseBuffer.           *)
Composed(m) ==
  CASE m.kind = "auth" -> <<Version.VERSION5, Byte(Len(m.methods))>> \o m.methods
    [] m.kind = "userPass" ->
         <<Version.VERSION1, Byte(Len(m.username))>> \o m.username
           \o <<Byte(Len(m.password))>> \o m.password
    [] m.kind = "userPassResponse" -> <<Version.VERSION1, IF m.success THEN 0 ELSE 255>>
    [] m.kind = "authResponse" -> <<Version.VERSION5, m.method>>
    [] m.kind = "request" -> <<Version.VERSION5, m.command, 0>> \o composeDestination(m.endpoint)
    [] m.kind = "response" -> <<Version.VERSION5, m.reply, 0>> \o composeDestination(m.endpoint)

(* interpretDestination: a name is as long as it says, whatever is there; an   *)
(* address needs its bytes; a port, none.                                      *)
interpretDestination(b) ==
  LET size == CASE At(b, 1) = IP_V4 -> 4 [] At(b, 1) = IP_V6 -> 16 [] OTHER -> At(b, 2)
      start == IF At(b, 1) = DNS THEN 2 ELSE 1
  IN  IF At(b, 1) \notin {IP_V4, IP_V6, DNS} \/ (At(b, 1) # DNS /\ Len(b) < 1 + size)
      THEN {}
      ELSE {[address |-> [type |-> At(b, 1), chars |-> [k \in 1..size |-> At(b, start + k)]],
             port |-> At(b, start + size + 1) * 256 + At(b, start + size + 2)]}

(* interpretAuthHandshakeBuffer: methods that are missing are undefined, and   *)
(* one of them must be no authentication.                                      *)
interpretAuth(b) ==
  LET methods == [k \in 1..At(b, 2) |-> IF 2 + k \in DOMAIN b THEN b[2 + k] ELSE -1]
  IN  IF At(b, 1) = Version.VERSION5 /\ \E k \in DOMAIN methods : methods[k] = NOAUTH
      THEN {[kind |-> "auth", methods |-> methods]} ELSE {}

(* interpretUserPassRequest: the lengths must fill the message exactly. *)
interpretUserPass(b) ==
  LET ulen == At(b, 2)
      plen == At(b, 3 + ulen)
  IN  IF Len(b) >= 3 /\ b[1] = Version.VERSION1 /\ Len(b) = 3 + ulen + plen
      THEN {[kind |-> "userPass", username |-> SubSeq(b, 3, 2 + ulen),
             password |-> SubSeq(b, 4 + ulen, Len(b))]}
      ELSE {}

(* interpretRequest: nine bytes at least, and a command that is served. *)
interpretRequest(b) ==
  IF Len(b) < 9 \/ b[1] # Version.VERSION5 \/ b[2] \notin Interpretable THEN {}
  ELSE {[kind |-> "request", command |-> b[2], endpoint |-> e] :
          e \in interpretDestination(SubSeq(b, 4, Len(b)))}

interpretResponse(b) ==
  IF At(b, 1) # Version.VERSION5 \/ At(b, 2) \notin Reply THEN {}
  ELSE {[kind |-> "response", reply |-> At(b, 2), endpoint |-> e] :
          e \in interpretDestination(SubSeq(b, 4, Len(b)))}

Interpreted(kind, b) ==
  CASE kind = "auth" -> interpretAuth(b)
    [] kind = "userPass" -> interpretUserPass(b)
    [] kind = "userPassResponse" ->
         IF Len(b) # 2 THEN {} ELSE {[kind |-> kind, success |-> b[2] = 0]}
    [] kind = "authResponse" ->
         IF Len(b) # 2 \/ b[1] # Version.VERSION5 THEN {} ELSE {[kind |-> kind, method |-> b[2]]}
    [] kind = "request" -> interpretRequest(b)
    [] kind = "response" -> interpretResponse(b)

(* One end composes; the network may hand over less than all of it at once,    *)
(* which the readers of socks-to-rtc.ts do not put together again.             *)
Compose ==
  /\ bytes = <<>>
  /\ \E cut \in Cuts :
       /\ cut < Len(Composed(message))
       /\ bytes' = SubSeq(Composed(message), 1, Len(Composed(message)) - cut)
  /\ UNCHANGED <<message, result>>

Interpret ==
  /\ bytes # <<>> /\ result = "none"
  /\ result' = IF Interpreted(message.kind, bytes) = {} THEN "thrown"
               ELSE IF Interpreted(message.kind, bytes) = {message} THEN "same"
               ELSE "other"
  /\ UNCHANGED <<message, bytes>>

Next == Compose \/ Interpret

Spec == Init /\ [][Next]_vars

Whole == bytes = Composed(message)

(* What comes whole is understood as it was meant, for every kind of address,  *)
(* names and texts up to the longest a length byte can say and every port, and *)
(* a request for authentication of another kind or a command that is not       *)
(* served is refused.  A user name and a password are never taken from a       *)
(* message that was cut (headers.ts:162-580).                                  *)
HeadersAgree ==
  /\ (result # "none" /\ Whole) =>
       CASE message.kind = "auth" ->
              result = IF message.methods = <<USERPASS>> THEN "thrown" ELSE "same"
         [] message.kind = "request" /\ message.command \notin Interpretable -> result = "thrown"
         [] message.kind = "request" /\ Len(bytes) < 9 -> result = "thrown"
         [] OTHER -> result = "same"
  /\ (result # "none" /\ ~Whole /\ message.kind = "userPass") => result = "thrown"

(* "Fail if the request is too short to be valid." (headers.ts:323): a request *)
(* for a host whose name is one character is valid, has eight bytes, and fails.*)
ValidRequestsPass ==
  (result # "none" /\ Whole /\ message.kind = "request" /\ message.command \in Interpretable)
    => result = "same"

(* A message that was cut is refused: not so, a name and a port are read past  *)
(* the end of the bytes as zeros (headers.ts:426-443).                         *)
CutRequestsFail == (result # "none" /\ ~Whole /\ message.kind = "request") => result = "thrown"
==================================================================================
