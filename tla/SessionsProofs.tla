----------------------------- MODULE SessionsProofs -----------------------------
(* Proofs about Sessions, for any number of clients, labels and packets.       *)
(*                                                                             *)
(* A channel serves one session after the other, and the two peers need not    *)
(* be at the same one: the getter opens it again as soon as the sharer's CLOSE *)
(* is there, with its own of the last session and the OPEN of the next still   *)
(* under way.  Line says of one channel how far apart they can be.  Either     *)
(* the sharer has come to the getter's session (Heard), or its OPEN is still   *)
(* to be read, with at most one message behind it, for the getter says no more *)
(* until it is answered (Unheard); and nothing is on its way to the getter     *)
(* then, because the sharer's end takes no part between its CLOSE and the next *)
(* OPEN (Answers).  So a channel is reused only when the session it served has *)
(* stopped at the sharer, unless the whole peer connection went.               *)
(*                                                                             *)
(* With that, AllPassed counts the packets of a session: what the client, or   *)
(* the web, has sent and the other side has not been sent yet is in a queue of *)
(* its session or in the channel it uses, with a CLOSE behind it only if the   *)
(* sender is gone.                                                             *)
EXTENDS Sessions, FiniteSetTheorems, SequenceTheorems, TLAPS

Talking == {"auth", "request", "response", "replying", "linked"}
Counted == Live \cup {"stopping"}
Early == {"waiting", "connecting"}

(* All that is in the box is from u, and a CLOSE is the last of it. *)
Only(box, u) ==
  \A i \in 1..Len(box) :
    /\ box[i].from = u
    /\ box[i].kind # "OPEN"
    /\ box[i].kind = "CLOSE" => i = Len(box)
NoClose(box) == \A i \in 1..Len(box) : box[i].kind # "CLOSE"
Closes(box) == box # <<>> /\ box[Len(box)].kind = "CLOSE"

(* A channel as the getter sees it: g is the state of its end, u the session *)
(* that uses it and x the state of that; s, v and y are those of the sharer, *)
(* Q and A what each has not handled.                                        *)

(* What comes to the getter is from the session it talks to. *)
Answers(u, v, g, s, A, y) ==
  /\ Only(A, u)
  /\ u # v => A = <<>>
  /\ g = "CLOSED" => A = <<>> /\ u = v /\ s \in {"CLOSING", "CLOSED", "PERMANENTLY_CLOSED"}
  /\ s = "OPEN" => NoClose(A)
  /\ y \in Early => A = <<>>

(* The sharer has not come to the OPEN of u, which is at k: before it is the *)
(* rest of another session, after it at most one message.                    *)
Unheard(u, g, s, Q, x, k) ==
  /\ Q[k].kind = "OPEN" /\ Q[k].from = u
  /\ \A i \in 1..(k - 1) : Q[i].kind # "OPEN" /\ (Q[i].kind = "CLOSE" <=> i = k - 1)
  /\ IF k = 1 THEN s \in {"none", "CLOSED"} ELSE s = "CLOSING"
  /\ Len(Q) <= k + 1
  /\ Len(Q) > k => Q[k + 1].kind # "OPEN" /\ Q[k + 1].from = u
  /\ g = "OPEN" /\ Len(Q) > k => Q[k + 1].kind # "CLOSE"
  /\ g = "CLOSING" => Closes(Q)
  /\ g # "CLOSED"
  /\ x # "linked"
  /\ x \in {"auth", "request"} => Len(Q) = k

(* The sharer talks to u, or did last. *)
Heard(u, g, s, Q, x, y) ==
  /\ Only(Q, u)
  /\ s # "none"
  /\ g = "OPEN" => NoClose(Q) /\ s # "CLOSED"
  /\ g \in {"CLOSING", "CLOSED"} /\ s # "CLOSED" => Closes(Q)
  /\ s = "CLOSED" => Q = <<>>
  /\ y \in Early => Len(Q) <= 1 /\ x # "linked"
  /\ y = "waiting" /\ x \in {"auth", "request"} => Q = <<>>
  /\ y = "connecting" => Q = <<>> /\ x \notin {"auth", "request"}

Questions(u, v, g, s, Q, x, y) ==
  IF u = v THEN Heard(u, g, s, Q, x, y)
  ELSE y = "none" /\ \E k \in 1..Len(Q) : Unheard(u, g, s, Q, x, k)

Line(u, v, g, s, Q, A, x, y, down) ==
  /\ g = "none" <=> u = None
  /\ s = "none" <=> v = None
  /\ g = "none" => s = "none" /\ Q = <<>> /\ A = <<>>
  /\ g # "none" => ("getter" \in down <=> g = "PERMANENTLY_CLOSED")
  /\ s # "none" => ("sharer" \in down <=> s = "PERMANENTLY_CLOSED")
  /\ g # "none" /\ "getter" \notin down => Answers(u, v, g, s, A, y)
  /\ g # "none" /\ "sharer" \notin down => Questions(u, v, g, s, Q, x, y)

Of(l) == Line(gUser[l], sUser[l], gEnd[l], sEnd[l], toSharer[l], toGetter[l],
              getter[gUser[l]], sharer[gUser[l]], lost)

Lines == \A l \in Label : Of(l)

(* The sessions and the channels they use. *)
Used(l) ==
  /\ gUser[l] # None => label[gUser[l]] = l
  /\ sUser[l] # None => label[sUser[l]] = l
User(c) ==
  /\ label[c] = None <=> getter[c] \in {"none", "opening", "failed"}
  /\ client[c] = "none" => getter[c] = "none"
  /\ label[c] = None => sharer[c] = "none"
  /\ getter[c] \in Talking => gUser[label[c]] = c /\ gEnd[label[c]] = "OPEN"
  /\ sharer[c] \in Live => sUser[label[c]] = c /\ sEnd[label[c]] = "OPEN"
  /\ web[c] = "abandoned" => "sharer" \in lost

Users == (\A l \in Label : Used(l)) /\ (\A c \in Client : User(c))

Counts ==
  /\ CountIsLive
  /\ \A l \in Label : sessions_[l] # None => label[sessions_[l]] = l

IInv == TypeOK /\ Users /\ Lines /\ Counts

-----------------------------------------------------------------------------
(* What the steps do to one channel. *)

LEMMA TailAt ==
  ASSUME NEW B \in Seq(Message), B # <<>>
  PROVE  /\ Tail(B) \in Seq(Message) /\ Len(Tail(B)) = Len(B) - 1 /\ Len(B) \in Nat \ {0}
         /\ Head(B) = B[1]
         /\ \A i \in 1..Len(Tail(B)) : Tail(B)[i] = B[i + 1] /\ i + 1 \in 2..Len(B)
         /\ Len(B) = 1 => Tail(B) = <<>>
<1>1. Tail(B) \in Seq(Message) /\ Len(Tail(B)) = Len(B) - 1 /\ Len(B) \in Nat \ {0}
  OBVIOUS
<1>2. \A i \in 1..Len(Tail(B)) : Tail(B)[i] = B[i + 1] /\ i + 1 \in 2..Len(B)
  BY <1>1
<1>3. \A T \in Seq(Message) : Len(T) = 0 => T = <<>>
  OBVIOUS
<1> QED BY <1>1, <1>2, <1>3

(* Only how far its two sessions are changes, and neither further ahead. *)
GetterSettles(x, x2) ==
  x2 = x \/ x2 \notin {"linked", "auth", "request"} \/ (x = "auth" /\ x2 = "request")
SharerSettles(y, y2) == y2 = y \/ (y2 \notin Early /\ y # "none")

LEMMA Settles ==
  ASSUME NEW u, NEW v, NEW g, NEW s, NEW Q \in Seq(Message), NEW A \in Seq(Message), NEW x, NEW y, NEW down, NEW x2, NEW y2,
         Line(u, v, g, s, Q, A, x, y, down),
         GetterSettles(x, x2), SharerSettles(y, y2)
  PROVE  Line(u, v, g, s, Q, A, x2, y2, down)
BY DEF GetterSettles, SharerSettles, Line, Answers, Questions, Unheard, Heard, Early

(* The getter opens the channel for another session. *)
LEMMA Opens ==
  ASSUME NEW u, NEW v, NEW g \in {"none", "CLOSED"}, NEW s, NEW Q \in Seq(Message), NEW A \in Seq(Message), NEW x,
         NEW y, NEW down, NEW c \in Client, c # u, c # v, "getter" \notin down,
         Line(u, v, g, s, Q, A, x, y, down)
  PROVE  Line(c, v, "OPEN", s, Append(Q, Msg("OPEN", c)), A, "auth", "none", down)
<1> DEFINE Q2 == Append(Q, Msg("OPEN", c))
<1>1. /\ Len(Q2) = Len(Q) + 1 /\ Q2[Len(Q) + 1] = Msg("OPEN", c)
      /\ \A i \in 1..Len(Q) : Q2[i] = Q[i]
      /\ Len(Q) \in Nat
  OBVIOUS
<1>2. A = <<>> /\ c # None
  BY SessionsAssumption DEF Line, Answers, Client
<1>3. Answers(c, v, "OPEN", s, A, "none")
  BY <1>2 DEF Answers, Only, NoClose, Early
<1>4. ASSUME "sharer" \notin down PROVE Unheard(c, "OPEN", s, Q2, "auth", Len(Q) + 1)
  <2>1. CASE g = "none"
    BY <1>1, <1>4, <2>1 DEF Line, Unheard, Msg
  <2>2. CASE g = "CLOSED"
    <3>1. Heard(u, g, s, Q, x, y) /\ s \in {"CLOSING", "CLOSED"}
      BY <1>4, <2>2 DEF Line, Answers, Questions
    <3>2. /\ Only(Q, u) /\ (s = "CLOSING" => Closes(Q)) /\ (s = "CLOSED" => Q = <<>>)
      BY <2>2, <3>1 DEF Heard
    <3>3. /\ s = "CLOSING" => Len(Q) > 0 /\ Q[Len(Q)].kind = "CLOSE"
          /\ s = "CLOSED" => Len(Q) = 0
      BY <3>2 DEF Closes
    <3> HIDE DEF Q2
    <3> QED BY <1>1, <3>1, <3>2, <3>3 DEF Unheard, Msg, Only
  <2> QED BY <2>1, <2>2
<1>5. Len(Q) + 1 \in 1..Len(Q2)
  BY <1>1
<1> HIDE DEF Q2
<1> QED BY <1>2, <1>3, <1>4, <1>5 DEF Line, Questions, Q2

(* What the getter's session sends while it talks, or last. *)
LEMMA Asks ==
  ASSUME NEW u \in Client, NEW v, NEW s, NEW Q \in Seq(Message), NEW A \in Seq(Message), NEW y, NEW down,
         Line(u, v, "OPEN", s, Q, A, "request", y, down)
  PROVE  Line(u, v, "OPEN", s, Append(Q, Msg("request", u)), A, "response", y, down)
<1> DEFINE Q2 == Append(Q, Msg("request", u))
<1>1. /\ Len(Q2) = Len(Q) + 1 /\ Q2[Len(Q) + 1] = Msg("request", u)
      /\ \A i \in 1..Len(Q) : Q2[i] = Q[i]
      /\ Len(Q) \in Nat
  OBVIOUS
<1>2. Heard(u, "OPEN", s, Q, "request", y) => Heard(u, "OPEN", s, Q2, "response", y)
  <2>1. Q = <<>> => Len(Q) = 0
    OBVIOUS
  <2> HIDE DEF Q2
  <2> QED BY SMTT(40), <1>1, <2>1 DEF Heard, Only, NoClose, Early, Msg
<1>3. ASSUME NEW k \in 1..Len(Q), Unheard(u, "OPEN", s, Q, "request", k)
      PROVE  k \in 1..Len(Q2) /\ Unheard(u, "OPEN", s, Q2, "response", k)
  <2> HIDE DEF Q2
  <2> QED BY <1>1, <1>3 DEF Unheard, Msg
<1> HIDE DEF Q2
<1> QED BY <1>2, <1>3 DEF Line, Questions, Answers, Q2

LEMMA Passes ==
  ASSUME NEW u \in Client, NEW v, NEW s, NEW Q \in Seq(Message), NEW A \in Seq(Message), NEW x, NEW y, NEW down,
         Line(u, v, "OPEN", s, Q, A, x, y, down),
         "sharer" \notin down => u = v /\ y \notin Early,
         NEW T \in Seq(Message),
         \A i \in 1..Len(T) : T[i] = Msg("data", u)
  PROVE  Line(u, v, "OPEN", s, Q \o T, A, "linked", y, down)
<1> DEFINE Q2 == Q \o T
<1>1. /\ Len(Q2) = Len(Q) + Len(T)
      /\ \A i \in 1..Len(Q) : Q2[i] = Q[i]
      /\ \A i \in 1..Len(Q2) : i > Len(Q) => Q2[i] = T[i - Len(Q)] /\ i - Len(Q) \in 1..Len(T)
      /\ Len(Q) \in Nat /\ Len(T) \in Nat
  OBVIOUS
<1>2. \A i \in 1..Len(Q2) : i > Len(Q) => Q2[i] = Msg("data", u)
  BY <1>1
<1>3. ASSUME Heard(u, "OPEN", s, Q, x, y), y \notin Early
      PROVE  Heard(u, "OPEN", s, Q2, "linked", y)
  <2> HIDE DEF Q2
  <2>1. Only(Q2, u) /\ NoClose(Q2)
    BY SMTT(40), <1>1, <1>2, <1>3 DEF Heard, Only, NoClose, Msg
  <2> QED BY <1>3, <2>1 DEF Heard, Early
<1> HIDE DEF Q2
<1> QED BY <1>3 DEF Line, Questions, Answers, Q2

LEMMA Hangs ==
  ASSUME NEW u \in Client, NEW v, NEW s, NEW Q \in Seq(Message), NEW A \in Seq(Message), NEW x, NEW y, NEW down,
         Line(u, v, "OPEN", s, Q, A, x, y, down),
         x \in {"auth", "request"} \/ ("sharer" \notin down => u = v /\ y \notin Early)
  PROVE  Line(u, v, "CLOSING", s, Append(Q, Msg("CLOSE", u)), A, "stopped", y, down)
<1> DEFINE Q2 == Append(Q, Msg("CLOSE", u))
<1>1. /\ Len(Q2) = Len(Q) + 1 /\ Q2[Len(Q) + 1] = Msg("CLOSE", u)
      /\ \A i \in 1..Len(Q) : Q2[i] = Q[i]
      /\ Len(Q) \in Nat /\ Q2 # <<>>
      /\ Q = <<>> => Len(Q) = 0
  OBVIOUS
<1> HIDE DEF Q2
<1>2. Closes(Q2)
  BY <1>1 DEF Closes, Msg
<1>3. ASSUME Heard(u, "OPEN", s, Q, x, y), x \in {"auth", "request"} \/ y \notin Early
      PROVE  Heard(u, "CLOSING", s, Q2, "stopped", y)
  <2>1. Only(Q2, u)
    BY <1>1, <1>3 DEF Heard, Only, NoClose, Msg
  <2>2. y \in Early => y = "waiting" /\ Q = <<>>
    BY <1>3 DEF Heard, Early
  <2> QED BY <1>1, <1>2, <1>3, <2>1, <2>2 DEF Heard, Early
<1>4. ASSUME NEW k \in 1..Len(Q), Unheard(u, "OPEN", s, Q, x, k), x \in {"auth", "request"}
      PROVE  k \in 1..Len(Q2) /\ Unheard(u, "CLOSING", s, Q2, "stopped", k)
  <2>1. Len(Q) = k
    BY <1>4 DEF Unheard
  <2> QED BY <1>1, <1>2, <1>4, <2>1 DEF Unheard, Msg
<1> QED BY <1>3, <1>4 DEF Line, Questions, Answers, Q2

(* The getter's end takes a message, or the CLOSE of the sharer. *)
LEMMA TakesAnswer ==
  ASSUME NEW u, NEW v, NEW g \in {"OPEN", "CLOSING"}, NEW s, NEW Q \in Seq(Message), NEW A \in Seq(Message),
         NEW x, NEW y, NEW down, Line(u, v, g, s, Q, A, x, y, down), A # <<>>
  PROVE  Line(u, v, g, s, Q, Tail(A), x, y, down)
<1> DEFINE A2 == Tail(A)
<1>1. /\ Len(A2) = Len(A) - 1 /\ Len(A) \in Nat \ {0}
      /\ \A i \in 1..Len(A2) : A2[i] = A[i + 1] /\ i + 1 \in 2..Len(A)
  BY TailAt
<1> HIDE DEF A2
<1>2. Answers(u, v, g, s, A, y) => Answers(u, v, g, s, A2, y)
  BY <1>1 DEF Answers, Only, NoClose
<1> QED BY <1>2 DEF Line, A2

LEMMA AnswersFrom ==
  ASSUME NEW u, NEW v, NEW g \in {"OPEN", "CLOSING"}, NEW s, NEW Q \in Seq(Message), NEW A \in Seq(Message),
         NEW x, NEW y, NEW down, Line(u, v, g, s, Q, A, x, y, down), A # <<>>
  PROVE  u = v /\ y \notin Early /\ Head(A).from = u
<1>1. Answers(u, v, g, s, A, y)
  BY DEF Line
<1>2. Len(A) \in Nat \ {0} /\ Head(A) = A[1]
  BY TailAt
<1> QED BY <1>1, <1>2 DEF Answers, Only

LEMMA LastAnswer ==
  ASSUME NEW u, NEW v, NEW g \in {"OPEN", "CLOSING"}, NEW s, NEW Q \in Seq(Message), NEW A \in Seq(Message),
         NEW x, NEW y, NEW down, Line(u, v, g, s, Q, A, x, y, down), A # <<>>,
         Head(A).kind = "CLOSE"
  PROVE  s # "OPEN" /\ Tail(A) = <<>>
<1>1. Answers(u, v, g, s, A, y)
  BY DEF Line
<1>2. Len(A) \in Nat \ {0} /\ Head(A) = A[1] /\ (Len(A) = 1 => Tail(A) = <<>>)
  BY TailAt
<1> QED BY <1>1, <1>2 DEF Answers, Only, NoClose

LEMMA HearsClose ==
  ASSUME NEW u \in Client, NEW v, NEW g \in {"OPEN", "CLOSING"}, NEW s, NEW Q \in Seq(Message),
         NEW A \in Seq(Message), NEW x, NEW y, NEW down, Line(u, v, g, s, Q, A, x, y, down),
         A # <<>>, Head(A).kind = "CLOSE", NEW T,
         T = IF g = "OPEN" THEN Q \o <<Msg("CLOSE", u)>> ELSE Q,
         s \in EndState
  PROVE  Line(u, v, "CLOSED", s, T, Tail(A), "stopped", y, down)
<1>1. u = v /\ y \notin Early /\ s # "OPEN" /\ Tail(A) = <<>>
  <2>1. Answers(u, v, g, s, A, y)
    BY DEF Line
  <2>2. Len(A) \in Nat \ {0} /\ Head(A) = A[1] /\ (Len(A) = 1 => Tail(A) = <<>>)
    BY TailAt
  <2> QED BY <2>1, <2>2 DEF Answers, Only, NoClose
<1>0. Q \o <<Msg("CLOSE", u)>> = Append(Q, Msg("CLOSE", u))
  <2>1. Msg("CLOSE", u) \in Message
    BY DEF Msg, Message
  <2> QED BY <2>1, AppendIsConcat
<1>2. /\ Len(Append(Q, Msg("CLOSE", u))) = Len(Q) + 1 /\ Len(Q) \in Nat
      /\ Append(Q, Msg("CLOSE", u))[Len(Q) + 1] = Msg("CLOSE", u)
      /\ Append(Q, Msg("CLOSE", u)) # <<>>
      /\ \A i \in 1..Len(Q) : Append(Q, Msg("CLOSE", u))[i] = Q[i]
  OBVIOUS
<1>3. s \in {"CLOSING", "CLOSED", "PERMANENTLY_CLOSED"}
  BY <1>1, SessionsAssumption DEF Line, EndState, Client
<1>4. ASSUME Heard(u, g, s, Q, x, y) PROVE Heard(u, "CLOSED", s, T, "stopped", y)
  <2>1. CASE g = "OPEN"
    <3>1. Only(T, u) /\ Closes(T)
      BY <1>0, <1>2, <1>4, <2>1 DEF Heard, Only, NoClose, Closes, Msg
    <3> QED BY <1>1, <1>4, <2>1, <3>1 DEF Heard, Early
  <2>2. CASE g = "CLOSING"
    BY <1>1, <1>4, <2>2 DEF Heard, Early
  <2> QED BY <2>1, <2>2
<1>5. Answers(u, v, "CLOSED", s, <<>>, y)
  BY <1>1, <1>3 DEF Answers, Only, NoClose
<1> QED BY <1>1, <1>4, <1>5 DEF Line, Questions

(* The getter's peer connection goes. *)
LEMMA GetterGoes ==
  ASSUME NEW u, NEW v, NEW g, NEW s, NEW Q \in Seq(Message), NEW A \in Seq(Message), NEW x, NEW y, NEW down, NEW x2,
         Line(u, v, g, s, Q, A, x, y, down), "getter" \notin down,
         x2 = x \/ x2 \notin {"linked", "auth", "request"}
  PROVE  Line(u, v, IF g = "none" THEN "none" ELSE "PERMANENTLY_CLOSED", s, Q, <<>>, x2, y,
              down \cup {"getter"})
<1>1. CASE g = "none"
  BY <1>1 DEF Line
<1>2. CASE g # "none"
  <2>1. Answers(u, v, g, s, A, y)
    BY <1>2 DEF Line
  <2>2. ASSUME "sharer" \notin down
        PROVE  Questions(u, v, "PERMANENTLY_CLOSED", s, Q, x2, y)
    <3>1. CASE u = v
      BY <1>2, <2>2, <3>1 DEF Line, Questions, Heard
    <3>2. CASE u # v
      BY <1>2, <2>1, <2>2, <3>2 DEF Line, Questions, Unheard
    <3> QED BY <3>1, <3>2
  <2> QED BY <1>2, <2>2 DEF Line
<1> QED BY <1>1, <1>2

(* What the sharer's session sends, and that it closes the channel then. *)
LEMMA SharerSays ==
  ASSUME NEW u, NEW v, NEW g, NEW t \in {"OPEN", "CLOSING"}, NEW Q \in Seq(Message),
         NEW A \in Seq(Message), NEW x, NEW y, NEW down,
         NEW y2 \in {"linked", "stopping", "stopped"},
         Line(u, v, g, "OPEN", Q, A, x, y, down),
         NEW R \in Seq(Message),
         \A i \in 1..Len(R) : /\ R[i].from = v /\ R[i].kind # "OPEN"
                              /\ R[i].kind = "CLOSE" => i = Len(R) /\ t = "CLOSING"
  PROVE  Line(u, v, g, t, Q, A \o R, x, y2, down)
<1> DEFINE A2 == A \o R
<1>1. /\ Len(A2) = Len(A) + Len(R) /\ Len(A) \in Nat /\ Len(R) \in Nat
      /\ \A i \in 1..Len(A) : A2[i] = A[i]
      /\ \A i \in 1..Len(A2) : i > Len(A) => A2[i] = R[i - Len(A)] /\ i - Len(A) \in 1..Len(R)
  OBVIOUS
<1> HIDE DEF A2
<1>2. "sharer" \notin down /\ g # "none"
  BY DEF Line
<1>3. u = v /\ Heard(u, g, "OPEN", Q, x, y)
  BY <1>2 DEF Line, Questions, Unheard
<1>4. Heard(u, g, t, Q, x, y2)
  BY <1>3 DEF Heard, Early
<1>5. ASSUME "getter" \notin down PROVE Answers(u, v, g, t, A2, y2)
  <2>1. Only(A, u) /\ NoClose(A) /\ g # "CLOSED"
    BY <1>2, <1>5 DEF Line, Answers
  <2>2. ASSUME NEW i \in 1..Len(A2)
        PROVE  A2[i].from = u /\ A2[i].kind # "OPEN" /\ (A2[i].kind = "CLOSE" => i = Len(A2))
    <3>1. CASE i <= Len(A)
      BY <1>1, <2>1, <3>1 DEF Only, NoClose
    <3>2. CASE i > Len(A)
      <4>1. A2[i] = R[i - Len(A)] /\ i - Len(A) \in 1..Len(R)
        BY <1>1, <3>2
      <4>2. i - Len(A) = Len(R) => i = Len(A2)
        BY <1>1
      <4> QED BY <1>3, <4>1, <4>2
    <3> QED BY <1>1, <3>1, <3>2
  <2>3. t = "OPEN" => NoClose(A2)
    BY <1>1, <2>1 DEF NoClose
  <2>4. Only(A2, u)
    BY <2>2 DEF Only
  <2> QED BY <1>3, <2>1, <2>3, <2>4 DEF Answers, Early
<1> QED BY <1>2, <1>3, <1>4, <1>5 DEF Line, Questions, A2

(* The sharer comes to the getter's session. *)
LEMMA NextSession ==
  ASSUME NEW u, NEW v, NEW g, NEW s \in {"none", "CLOSED"}, NEW Q \in Seq(Message),
         NEW A \in Seq(Message), NEW x, NEW y, NEW down, Line(u, v, g, s, Q, A, x, y, down),
         "sharer" \notin down, Q # <<>>
  PROVE  g # "none" /\ u # v /\ Unheard(u, g, s, Q, x, 1)
<1>1. g # "none" /\ Questions(u, v, g, s, Q, x, y)
  BY DEF Line
<1>2. u # v
  BY <1>1 DEF Questions, Heard
<1>3. PICK k \in 1..Len(Q) : Unheard(u, g, s, Q, x, k)
  BY <1>1, <1>2 DEF Questions
<1>4. k = 1
  BY <1>3 DEF Unheard
<1> QED BY <1>1, <1>2, <1>3, <1>4 DEF Questions

LEMMA HeardNow ==
  ASSUME NEW u, NEW g, NEW s, NEW Q \in Seq(Message), NEW x,
         Q # <<>>, Unheard(u, g, s, Q, x, 1)
  PROVE  /\ Only(Tail(Q), u) /\ Len(Tail(Q)) <= 1 /\ g # "CLOSED" /\ x # "linked"
         /\ g = "OPEN" => NoClose(Tail(Q))
         /\ g = "CLOSING" => Closes(Tail(Q))
         /\ x \in {"auth", "request"} => Tail(Q) = <<>>
<1> DEFINE Q2 == Tail(Q)
<1>1. /\ Len(Q2) = Len(Q) - 1 /\ Len(Q) \in Nat \ {0} /\ Q2 \in Seq(Message)
      /\ \A i \in 1..Len(Q2) : Q2[i] = Q[i + 1]
      /\ Len(Q) = 1 => Q2 = <<>>
  BY TailAt
<1> HIDE DEF Q2
<1>2. Q2 = <<>> => Len(Q2) = 0
  OBVIOUS
<1>3. Len(Q) <= 2 /\ Q[1].kind = "OPEN"
  BY DEF Unheard
<1>4. Only(Q2, u) /\ (g = "OPEN" => NoClose(Q2))
  BY <1>1, <1>3 DEF Unheard, Only, NoClose
<1>5. g = "CLOSING" => Closes(Q2)
  BY <1>1, <1>2, <1>3 DEF Unheard, Closes
<1> QED BY <1>1, <1>3, <1>4, <1>5 DEF Unheard, Q2

LEMMA Accepts ==
  ASSUME NEW u, NEW v, NEW g, NEW s \in {"none", "CLOSED"}, NEW Q \in Seq(Message),
         NEW A \in Seq(Message), NEW x, NEW y, NEW down, Line(u, v, g, s, Q, A, x, y, down),
         "sharer" \notin down, Q # <<>>
  PROVE  Line(u, u, g, "OPEN", Tail(Q), A, x, "waiting", down)
<1>1. g # "none" /\ u # v /\ Unheard(u, g, s, Q, x, 1)
  BY NextSession
<1>2. /\ Only(Tail(Q), u) /\ Len(Tail(Q)) <= 1 /\ g # "CLOSED" /\ x # "linked"
      /\ g = "OPEN" => NoClose(Tail(Q))
      /\ g = "CLOSING" => Closes(Tail(Q))
      /\ x \in {"auth", "request"} => Tail(Q) = <<>>
  BY <1>1, HeardNow
<1>3. Heard(u, g, "OPEN", Tail(Q), x, "waiting")
  BY <1>2 DEF Heard
<1>4. "getter" \notin down => Answers(u, u, g, "OPEN", A, "waiting")
  BY <1>1, <1>2 DEF Line, Answers, Only, NoClose
<1> QED BY <1>1, <1>3, <1>4 DEF Line, Questions

LEMMA Refuses ==
  ASSUME NEW u, NEW v, NEW g, NEW s \in {"none", "CLOSED"}, NEW Q \in Seq(Message),
         NEW A \in Seq(Message), NEW x, NEW y, NEW down, Line(u, v, g, s, Q, A, x, y, down),
         "sharer" \notin down, Q # <<>>, NEW T, T = Append(A, Msg("CLOSE", u))
  PROVE  Line(u, u, g, "CLOSING", Tail(Q), T, x, "refused", down)
<1>1. g # "none" /\ u # v /\ Unheard(u, g, s, Q, x, 1)
  BY NextSession
<1>2. /\ Only(Tail(Q), u) /\ Len(Tail(Q)) <= 1 /\ g # "CLOSED" /\ x # "linked"
      /\ g = "OPEN" => NoClose(Tail(Q))
      /\ g = "CLOSING" => Closes(Tail(Q))
      /\ x \in {"auth", "request"} => Tail(Q) = <<>>
  BY <1>1, HeardNow
<1>3. Heard(u, g, "CLOSING", Tail(Q), x, "refused")
  BY <1>2 DEF Heard, Early
<1>4. ASSUME "getter" \notin down
      PROVE  Answers(u, u, g, "CLOSING", Append(A, Msg("CLOSE", u)), "refused")
  <2>1. A = <<>>
    BY <1>1, <1>4 DEF Line, Answers
  <2>2. /\ Len(Append(A, Msg("CLOSE", u))) = 1
        /\ Append(A, Msg("CLOSE", u))[1] = Msg("CLOSE", u)
    BY <2>1
  <2>3. Only(Append(A, Msg("CLOSE", u)), u)
    BY <2>2 DEF Only, Msg
  <2> QED BY <1>2, <2>3 DEF Answers, Early
<1> QED BY <1>1, <1>3, <1>4 DEF Line, Questions

(* The first message of a session is read, then any other. *)
LEMMA ReadsRequest ==
  ASSUME NEW u, NEW v, NEW g, NEW Q \in Seq(Message), NEW A \in Seq(Message), NEW x, NEW down,
         Line(u, v, g, "OPEN", Q, A, x, "waiting", down), Q # <<>>, Head(Q).kind # "CLOSE"
  PROVE  Line(u, v, g, "OPEN", Tail(Q), A, x, "connecting", down)
<1>1. "sharer" \notin down /\ g # "none"
  BY DEF Line
<1>2. u = v /\ Heard(u, g, "OPEN", Q, x, "waiting")
  BY <1>1 DEF Line, Questions, Unheard
<1>3. Len(Q) = 1 /\ Tail(Q) = <<>> /\ Q[1].kind # "CLOSE"
  <2>1. Len(Q) \in Nat \ {0} /\ Head(Q) = Q[1]
    BY TailAt
  <2>2. Len(Q) = 1 => Tail(Q) = <<>>
    BY TailAt
  <2>3. Len(Q) <= 1
    BY <1>2 DEF Heard, Early
  <2>4. Q[1].kind # "CLOSE"
    BY Zenon, <2>1
  <2>5. Len(Q) = 1
    <3>1. \A n \in Nat \ {0} : n <= 1 => n = 1
      OBVIOUS
    <3> QED BY Zenon, <2>1, <2>3, <3>1
  <2> QED BY <2>2, <2>4, <2>5
<1>4. Heard(u, g, "OPEN", <<>>, x, "connecting")
  BY <1>2, <1>3 DEF Heard, Only, NoClose, Closes, Early
<1>5. "getter" \notin down => Answers(u, v, g, "OPEN", A, "connecting")
  BY <1>1 DEF Line, Answers, Early
<1> QED BY <1>1, <1>2, <1>3, <1>4, <1>5 DEF Line, Questions

LEMMA TakesQuestion ==
  ASSUME NEW u, NEW v, NEW g, NEW s \in {"OPEN", "CLOSING"}, NEW Q \in Seq(Message),
         NEW A \in Seq(Message), NEW x, NEW y, NEW down, Line(u, v, g, s, Q, A, x, y, down),
         Q # <<>>, Head(Q).kind # "CLOSE", y \notin Early
  PROVE  Line(u, v, g, s, Tail(Q), A, x, y, down)
<1> DEFINE Q2 == Tail(Q)
<1>1. /\ Len(Q2) = Len(Q) - 1 /\ Len(Q) \in Nat \ {0} /\ Q2 \in Seq(Message) /\ Head(Q) = Q[1]
      /\ \A i \in 1..Len(Q2) : Q2[i] = Q[i + 1] /\ i + 1 \in 2..Len(Q)
  BY TailAt
<1> HIDE DEF Q2
<1>2. Closes(Q) => Len(Q2) > 0 /\ Q2 # <<>>
  <2>1. Len(Q2) = 0 => Len(Q) = 1
    BY <1>1
  <2>2. Len(Q2) > 0 => Q2 # <<>>
    BY <1>1
  <2> QED BY <1>1, <2>1, <2>2 DEF Closes
<1>6. Closes(Q) => Closes(Q2)
  <2>1. Len(Q2) > 0 => Q2[Len(Q2)] = Q[Len(Q)]
    BY <1>1
  <2> QED BY <1>2, <2>1 DEF Closes
<1>3. "sharer" \notin down /\ g # "none"
  BY DEF Line
<1>4. ASSUME Heard(u, g, s, Q, x, y) PROVE Heard(u, g, s, Q2, x, y)
  <2>1. Only(Q2, u)
    <3>1. ASSUME NEW i \in 1..Len(Q2)
          PROVE  /\ Q2[i].from = u /\ Q2[i].kind # "OPEN"
                 /\ Q2[i].kind = "CLOSE" => i + 1 = Len(Q)
      <4>1. Q2[i] = Q[i + 1] /\ i + 1 \in 1..Len(Q)
        BY <1>1
      <4> QED BY <1>4, <4>1 DEF Heard, Only
    <3> QED BY <1>1, <3>1 DEF Only
  <2>2. NoClose(Q) => NoClose(Q2)
    BY <1>1 DEF NoClose
  <2> QED BY <1>4, <1>6, <2>1, <2>2 DEF Heard, Early
<1>5. ASSUME NEW k \in 1..Len(Q), Unheard(u, g, s, Q, x, k)
      PROVE  k - 1 \in 1..Len(Q2) /\ Unheard(u, g, s, Q2, x, k - 1)
  <2>1. k > 2
    BY <1>1, <1>5 DEF Unheard
  <2>2. /\ k - 1 \in 1..Len(Q2) /\ Q2[k - 1] = Q[k]
        /\ \A i \in 1..(k - 2) : Q2[i] = Q[i + 1] /\ i + 1 \in 1..(k - 1)
        /\ Len(Q) > k => Q2[k] = Q[k + 1]
    BY <1>1, <1>5, <2>1
  <2>4. \A i \in 1..(k - 2) : Q2[i].kind # "OPEN" /\ (Q2[i].kind = "CLOSE" <=> i = k - 2)
    BY <1>5, <2>1, <2>2 DEF Unheard
  <2>5. Q2[k - 1].kind = "OPEN" /\ Q2[k - 1].from = u /\ Len(Q2) <= k /\ k - 1 # 1
    BY <1>1, <1>5, <2>1, <2>2 DEF Unheard
  <2>6. Len(Q2) > k - 1 => Len(Q) > k /\ Q2[k] = Q[k + 1]
    BY <1>1, <1>5, <2>2
  <2> QED BY <1>1, <1>5, <1>6, <2>1, <2>2, <2>4, <2>5, <2>6 DEF Unheard
<1> QED BY <1>3, <1>4, <1>5 DEF Line, Questions, Q2

(* The channel is closed at the sharer. *)
LEMMA SharerHearsClose ==
  ASSUME NEW u, NEW v, NEW g, NEW s \in {"OPEN", "CLOSING"}, NEW Q \in Seq(Message),
         NEW A \in Seq(Message), NEW x, NEW y, NEW down, NEW y2,
         Line(u, v, g, s, Q, A, x, y, down), Q # <<>>, Head(Q).kind = "CLOSE",
         u = v => y2 \notin Early, u # v => y2 = y, NEW T \in Seq(Message),
         s = "CLOSING" => T = A, s = "OPEN" => T = Append(A, Msg("CLOSE", v))
  PROVE  Line(u, v, g, "CLOSED", Tail(Q), T, x, y2, down)
<1> DEFINE Q2 == Tail(Q)
<1>1. /\ Len(Q2) = Len(Q) - 1 /\ Len(Q) \in Nat \ {0} /\ Q2 \in Seq(Message) /\ Head(Q) = Q[1]
      /\ \A i \in 1..Len(Q2) : Q2[i] = Q[i + 1] /\ i + 1 \in 2..Len(Q)
      /\ Len(Q) = 1 => Q2 = <<>>
  BY TailAt
<1> HIDE DEF Q2
<1>2. "sharer" \notin down /\ g # "none"
  BY DEF Line
<1>3. CASE u = v
  <2>1. Heard(u, g, s, Q, x, y)
    BY <1>2, <1>3 DEF Line, Questions
  <2>2. Q2 = <<>> /\ g # "OPEN"
    BY <1>1, <2>1 DEF Heard, Only, NoClose
  <2>3. Heard(u, g, "CLOSED", Q2, x, y2)
    BY <1>3, <2>1, <2>2 DEF Heard, Only, Early
  <2>4. ASSUME "getter" \notin down PROVE Answers(u, v, g, "CLOSED", T, y2)
    <3>1. Answers(u, v, g, s, A, y)
      BY <1>2, <2>4 DEF Line
    <3>2. CASE s = "CLOSING"
      BY <1>3, <3>1, <3>2 DEF Answers
    <3>3. CASE s = "OPEN"
      <4>1. /\ Len(T) = Len(A) + 1 /\ Len(A) \in Nat /\ T[Len(A) + 1] = Msg("CLOSE", v)
            /\ \A i \in 1..Len(A) : T[i] = A[i]
        BY <3>3
      <4>2. Only(T, u)
        BY <1>3, <3>1, <3>3, <4>1 DEF Answers, Only, NoClose, Msg
      <4> QED BY <1>3, <3>1, <3>3, <4>2 DEF Answers
    <3> QED BY <3>2, <3>3
  <2> QED BY <1>2, <1>3, <2>3, <2>4 DEF Line, Questions, Q2
<1>4. CASE u # v
  <2>1. PICK k \in 1..Len(Q) : Unheard(u, g, s, Q, x, k)
    BY <1>2, <1>4 DEF Line, Questions
  <2>2. k = 2 /\ s = "CLOSING"
    BY <1>1, <2>1 DEF Unheard
  <2>3. Unheard(u, g, "CLOSED", Q2, x, 1) /\ 1 \in 1..Len(Q2)
    <3>1. /\ Len(Q) >= 2 /\ Q2[1] = Q[2] /\ Q2 # <<>>
          /\ Len(Q) > 2 => Q2[2] = Q[3]
          /\ Q2[Len(Q2)] = Q[Len(Q)]
      BY <1>1, <2>1, <2>2
    <3> QED BY <1>1, <2>1, <2>2, <3>1 DEF Unheard, Closes
  <2>4. T = A /\ y2 = y /\ y = "none"
    BY <1>2, <1>4, <2>2 DEF Line, Questions
  <2>5. "getter" \notin down => Answers(u, v, g, "CLOSED", T, y2)
    BY <1>2, <1>4, <2>4 DEF Line, Answers, Early
  <2> QED BY <1>2, <1>4, <2>3, <2>4, <2>5 DEF Line, Questions, Q2
<1> QED BY <1>3, <1>4

(* The sharer's peer connection goes. *)
LEMMA SharerGoes ==
  ASSUME NEW u, NEW v, NEW g, NEW s, NEW Q \in Seq(Message), NEW A \in Seq(Message), NEW x,
         NEW y, NEW down, NEW y2,
         Line(u, v, g, s, Q, A, x, y, down), "sharer" \notin down, y2 = y \/ y2 \notin Early
  PROVE  Line(u, v, g, IF s = "none" THEN "none" ELSE "PERMANENTLY_CLOSED", <<>>, A, x, y2,
              down \cup {"sharer"})
<1>1. CASE g = "none"
  BY <1>1 DEF Line
<1>2. CASE g # "none"
  BY <1>2 DEF Line, Answers
<1> QED BY <1>1, <1>2

-----------------------------------------------------------------------------
(* The channels a step does not touch, and the sessions at the one it does. *)

LEMMA Same ==
  ASSUME NEW u, NEW v, NEW g, NEW s, NEW Q \in Seq(Message), NEW A \in Seq(Message), NEW x,
         NEW y, NEW down, NEW x2, NEW y2, Line(u, v, g, s, Q, A, x, y, down),
         u # None => x2 = x /\ y2 = y
  PROVE  Line(u, v, g, s, Q, A, x2, y2, down)
BY DEF Line

(* Nothing of the channel changes, or of the sessions that use it. *)
Untouched(l) ==
  /\ gUser'[l] = gUser[l] /\ sUser'[l] = sUser[l]
  /\ gEnd'[l] = gEnd[l] /\ sEnd'[l] = sEnd[l]
  /\ toSharer'[l] = toSharer[l] /\ toGetter'[l] = toGetter[l]
  /\ lost' = lost

LEMMA Elsewhere ==
  ASSUME IInv, NEW c \in Client, NEW l \in Label, label[c] # l, Untouched(l),
         \A d \in Client \ {c} : getter'[d] = getter[d] /\ sharer'[d] = sharer[d]
  PROVE  Of(l)'
<1>1. gUser[l] \in Client \cup {None} /\ gUser[l] # c
  BY SessionsAssumption DEF IInv, TypeOK, Users, Used, Client
<1>2. gUser[l] # None => getter'[gUser[l]] = getter[gUser[l]] /\ sharer'[gUser[l]] = sharer[gUser[l]]
  BY <1>1
<1>3. toSharer[l] \in Seq(Message) /\ toGetter[l] \in Seq(Message)
  BY DEF IInv, TypeOK
<1>4. Line(gUser[l], sUser[l], gEnd[l], sEnd[l], toSharer[l], toGetter[l],
           getter[gUser[l]], sharer[gUser[l]], lost)
  BY DEF IInv, Lines, Of
<1>5. Line(gUser[l], sUser[l], gEnd[l], sEnd[l], toSharer[l], toGetter[l],
           getter'[gUser[l]], sharer'[gUser[l]], lost)
  BY <1>2, <1>3, <1>4, Same
<1> QED BY <1>5 DEF Of, Untouched

(* A step that only changes how far the sessions are. *)
LEMMA Settled ==
  ASSUME IInv, UNCHANGED <<gUser, sUser, gEnd, sEnd, toSharer, toGetter, lost>>,
         \A d \in Client :
           GetterSettles(getter[d], getter'[d]) /\ SharerSettles(sharer[d], sharer'[d])
  PROVE  Lines'
<1> SUFFICES ASSUME NEW l \in Label PROVE Of(l)'
  BY DEF Lines
<1> DEFINE x == getter[gUser[l]]
           x2 == getter'[gUser[l]]
           y == sharer[gUser[l]]
           y2 == sharer'[gUser[l]]
<1>1. gUser[l] \in Client \cup {None}
  BY DEF IInv, TypeOK
<1>2. toSharer[l] \in Seq(Message) /\ toGetter[l] \in Seq(Message)
  BY DEF IInv, TypeOK
<1>3. Line(gUser[l], sUser[l], gEnd[l], sEnd[l], toSharer[l], toGetter[l], x, y, lost)
  BY DEF IInv, Lines, Of
<1>4. gUser[l] # None => GetterSettles(x, x2) /\ SharerSettles(y, y2)
  BY <1>1
<1> HIDE DEF x, x2, y, y2
<1>5. Line(gUser[l], sUser[l], gEnd[l], sEnd[l], toSharer[l], toGetter[l], x2, y2, lost)
  <2>1. CASE gUser[l] = None
    BY <1>2, <1>3, <2>1, Same
  <2>2. CASE gUser[l] # None
    BY <1>2, <1>3, <1>4, <2>2, Settles
  <2> QED BY <2>1, <2>2
<1> QED BY <1>5 DEF Of, x2, y2

LEMMA GetterAt ==
  ASSUME IInv, NEW c \in Client, getter[c] \in Talking
  PROVE  /\ label[c] \in Label /\ gUser[label[c]] = c /\ gEnd[label[c]] = "OPEN"
         /\ "getter" \notin lost
<1>1. label[c] \in Label /\ gUser[label[c]] = c /\ gEnd[label[c]] = "OPEN"
  <2>1. User(c) /\ label[c] \in Label \cup {None}
    BY DEF IInv, TypeOK, Users
  <2>2. label[c] # None
    BY <2>1 DEF User, Talking
  <2> QED BY <2>1, <2>2 DEF User
<1> QED BY <1>1 DEF IInv, Lines, Of, Line

LEMMA SharerAt ==
  ASSUME IInv, NEW c \in Client, sharer[c] \in Live
  PROVE  /\ label[c] \in Label /\ sUser[label[c]] = c /\ sEnd[label[c]] = "OPEN"
         /\ gUser[label[c]] = c /\ "sharer" \notin lost
<1>1. label[c] \in Label /\ sUser[label[c]] = c /\ sEnd[label[c]] = "OPEN"
  BY DEF IInv, TypeOK, Users, User, Live
<1>2. "sharer" \notin lost /\ gEnd[label[c]] # "none"
  BY <1>1 DEF IInv, Lines, Of, Line
<1>3. gUser[label[c]] = sUser[label[c]]
  BY <1>1, <1>2 DEF IInv, Lines, Of, Line, Questions, Unheard
<1> QED BY <1>1, <1>2, <1>3

LEMMA LinkedAt ==
  ASSUME IInv, NEW c \in Client, getter[c] = "linked", "sharer" \notin lost
  PROVE  sUser[label[c]] = c /\ sharer[c] \notin Early
<1>1. label[c] \in Label /\ gUser[label[c]] = c /\ gEnd[label[c]] = "OPEN"
  BY GetterAt DEF Talking
<1> QED BY <1>1 DEF IInv, Lines, Of, Line, Questions, Unheard, Heard, Early

-----------------------------------------------------------------------------
(* The count of sessions. *)
Counting == {c \in Client : sharer[c] \in Counted}

LEMMA Countable ==
  /\ IsFiniteSet(Client)
  /\ \A D \in SUBSET Client : IsFiniteSet(D) /\ Cardinality(D) \in Nat
<1>1. IsFiniteSet(Client)
  BY SessionsAssumption, FS_Interval DEF Client
<1> QED BY <1>1, FS_Subset, FS_CardinalityType

LEMMA Uncounted ==
  ASSUME IInv, \A c \in Client : sharer'[c] \in Counted <=> sharer[c] \in Counted,
         UNCHANGED <<sessions_, numSessions_, others>>,
         \A c \in Client : label[c] # None => label'[c] = label[c]
  PROVE  Counts'
<1>1. Counting' = Counting
  BY DEF Counting
<1>2. CountIsLive'
  <2>1. numSessions_' - others' = Cardinality(Counting')
    BY <1>1 DEF IInv, Counts, CountIsLive, Counting, Counted
  <2>2. ASSUME NEW l \in Label, sessions_'[l] # None PROVE sharer'[sessions_'[l]] \in Counted
    BY <2>2 DEF IInv, TypeOK, Counts, CountIsLive, Counted
  <2> QED BY <2>1, <2>2 DEF CountIsLive, Counting, Counted
<1>3. ASSUME NEW l \in Label, sessions_[l] # None PROVE label'[sessions_[l]] = l
  BY <1>3, SessionsAssumption DEF IInv, TypeOK, Counts
<1> QED BY <1>2, <1>3 DEF Counts

LEMMA Discards ==
  ASSUME IInv, NEW D \in SUBSET Client, Discard(D), UNCHANGED <<label, others>>,
         \A c \in D : sharer[c] \in Counted,
         \A c \in Client : sharer'[c] \in Counted <=> sharer[c] \in Counted /\ c \notin D
  PROVE  /\ Counts' /\ numSessions_' \in 0..SESSION_LIMIT
         /\ sessions_' \in [Label -> Client \cup {None}]
<1>1. /\ IsFiniteSet(Counting) /\ Cardinality(Counting) \in Nat
      /\ IsFiniteSet(D) /\ Cardinality(D) \in Nat
  BY Countable DEF Counting
<1>2. D \subseteq Counting /\ Counting' = Counting \ D
  BY DEF Counting
<1>3. Cardinality(Counting') = Cardinality(Counting) - Cardinality(D)
  <2>1. Counting \cap D = D
    BY <1>2
  <2> QED BY <1>1, <1>2, <2>1, FS_Difference
<1>4. Cardinality(D) <= Cardinality(Counting)
  BY <1>1, <1>2, FS_Subset
<1>5. numSessions_ - others = Cardinality(Counting)
  BY DEF IInv, Counts, CountIsLive, Counting, Counted
<1>6. numSessions_ \in 0..SESSION_LIMIT /\ others \in Nat /\ SESSION_LIMIT \in Nat
  BY SessionsAssumption DEF IInv, TypeOK
<1>7. numSessions_' = numSessions_ - Cardinality(D)
  BY DEF Discard
<1>8. numSessions_' \in 0..SESSION_LIMIT /\ numSessions_' - others' = Cardinality(Counting')
  BY <1>1, <1>3, <1>4, <1>5, <1>6, <1>7
<1>9. sessions_' \in [Label -> Client \cup {None}]
  BY DEF Discard, IInv, TypeOK
<1>10. ASSUME NEW l \in Label, sessions_'[l] # None
       PROVE  sharer'[sessions_'[l]] \in Counted /\ label'[sessions_'[l]] = l
  <2>1. sessions_'[l] = sessions_[l] /\ \A c \in D : label[c] # l
    BY <1>10 DEF Discard
  <2>2. sessions_[l] \in Client /\ sharer[sessions_[l]] \in Counted /\ label[sessions_[l]] = l
    BY <1>10, <2>1 DEF IInv, TypeOK, Counts, CountIsLive, Counted
  <2> QED BY <2>1, <2>2
<1> QED BY <1>8, <1>9, <1>10 DEF Counts, CountIsLive, Counting, Counted

-----------------------------------------------------------------------------
(* The steps of the getter. *)

LEMMA Saying ==
  ASSUME NEW Q \in Seq(Message), NEW c \in Client, NEW kind \in {"OPEN", "CLOSE", "request"}
  PROVE  /\ Msg(kind, c) \in Message
         /\ Q \o <<Msg(kind, c)>> = Append(Q, Msg(kind, c))
         /\ <<>> \o <<Msg(kind, c)>> = <<Msg(kind, c)>>
         /\ Append(Q, Msg(kind, c)) \in Seq(Message)
<1>1. Msg(kind, c) \in Message
  BY DEF Msg, Message
<1> QED BY <1>1, AppendIsConcat

(* Only the session c of the getter goes on, and at most its channel closes. *)
LEMMA GetterUsers ==
  ASSUME IInv, NEW c \in Client, UNCHANGED <<label, gUser, sUser, sEnd, sharer, web, lost>>,
         \A d \in Client \ {c} : getter'[d] = getter[d],
         \A d \in Client : client'[d] = "none" => client[d] = "none",
         client'[c] = "none" => getter'[c] = "none",
         label[c] = None <=> getter'[c] \in {"none", "opening", "failed"},
         getter'[c] \in Talking => getter[c] \in Talking /\ gEnd' = gEnd,
         \/ gEnd' = gEnd
         \/ gUser[label[c]] = c /\ \A l \in Label : l # label[c] => gEnd'[l] = gEnd[l]
  PROVE  Users'
<1>1. ASSUME NEW l \in Label PROVE Used(l)'
  BY DEF IInv, Users, Used
<1>2. ASSUME NEW d \in Client PROVE User(d)'
  <2>0. User(d)
    BY DEF IInv, Users
  <2>1. getter'[d] \in Talking => gUser[label[d]] = d /\ gEnd'[label[d]] = "OPEN"
    <3>1. CASE d = c
      BY <2>0, <3>1 DEF User
    <3>2. CASE d # c
      <4>1. ASSUME getter[d] \in Talking PROVE gEnd'[label[d]] = gEnd[label[d]]
        BY <3>2, <4>1, GetterAt
      <4> QED BY <2>0, <3>2, <4>1 DEF User
    <3> QED BY <3>1, <3>2
  <2> QED BY <2>0, <2>1 DEF User
<1> QED BY <1>1, <1>2 DEF Users

LEMMA makeTcpWaits ==
  ASSUME IInv, NEW c \in Client, client[c] = "none",
         client' = [client EXCEPT ![c] = "open"],
         getter' = [getter EXCEPT ![c] = "opening"],
         UNCHANGED <<label, gEnd, gUser, toSharer, server, fromClient, clientSent, clientGot,
                     sharing, toGetter, others, lost>>
  PROVE  IInv'
<1>1. TypeOK'
  BY DEF IInv, TypeOK, sharing
<1>2. getter[c] = "none" /\ label[c] = None
  BY DEF IInv, Users, User
<1>3. Users'
  <2>1. label[c] = None <=> getter'[c] \in {"none", "opening", "failed"}
    BY <1>2 DEF IInv, TypeOK
  <2>2. \A d \in Client \ {c} : getter'[d] = getter[d]
    OBVIOUS
  <2>3. \A d \in Client : client'[d] = "none" => client[d] = "none"
    BY DEF IInv, TypeOK
  <2>4. client'[c] # "none" /\ getter'[c] \notin Talking
    BY DEF IInv, TypeOK, Talking
  <2> QED BY <2>1, <2>2, <2>3, <2>4, GetterUsers DEF sharing
<1>4. Lines'
  <2>1. getter'[c] = "opening" /\ \A d \in Client \ {c} : getter'[d] = getter[d]
    BY DEF IInv, TypeOK
  <2>2. \A d \in Client : GetterSettles(getter[d], getter'[d])
    BY <2>1 DEF GetterSettles
  <2>3. \A d \in Client : SharerSettles(sharer[d], sharer'[d])
    BY DEF SharerSettles, sharing
  <2> QED BY <2>2, <2>3, Settled DEF sharing
<1>5. Counts'
  BY Uncounted DEF sharing
<1> QED BY <1>1, <1>3, <1>4, <1>5 DEF IInv

(* A channel, new or of the pool, is opened for session c. *)
LEMMA UsesKeeps ==
  ASSUME IInv, NEW c \in Client, NEW l \in Label, gEnd[l] \in {"none", "CLOSED"}, Uses(c, l),
         label[c] = None, getter[c] \in {"none", "opening", "failed"}, "getter" \notin lost,
         client' = client \/ client' = [client EXCEPT ![c] = "open"],
         client'[c] # "none",
         UNCHANGED <<server, fromClient, clientSent, clientGot, sharing, toGetter, others, lost>>
  PROVE  IInv'
<1> USE DEF IInv
<1>1. TypeOK'
  <2>1. Append(toSharer[l], Msg("OPEN", c)) \in Seq(Message)
    BY Saying DEF TypeOK
  <2>2. /\ toSharer' \in [Label -> Seq(Message)] /\ getter' \in [Client -> {"none", "opening",
             "failed", "auth", "request", "response", "replying", "linked", "stopped"}]
        /\ gEnd' \in [Label -> EndState] /\ gUser' \in [Label -> Client \cup {None}]
        /\ label' \in [Client -> Label \cup {None}]
    BY <2>1 DEF TypeOK, Uses, EndState
  <2>3. client' \in [Client -> {"none", "open", "gone", "closed"}]
    BY DEF TypeOK
  <2> QED BY <2>2, <2>3 DEF TypeOK, sharing
<1>2. /\ gUser[l] # c /\ sUser[l] # c
      /\ \A m \in Label : gUser[m] # c /\ sUser[m] # c
  <2>1. c # None /\ \A m \in Label : m # None
    BY SessionsAssumption DEF Client
  <2> QED BY <2>1 DEF Users, Used
<1>3. sharer[c] = "none"
  BY DEF Users, User
<1>4. Users'
  <2>1. ASSUME NEW m \in Label PROVE Used(m)'
    <3>1. Used(m)
      BY DEF Users
    <3>2. sUser'[m] # None => label'[sUser'[m]] = m
      BY <1>2, <3>1 DEF Used, Uses, TypeOK, sharing
    <3>3. gUser'[m] # None => label'[gUser'[m]] = m
      BY <1>2, <3>1 DEF Used, Uses, TypeOK
    <3> QED BY <3>2, <3>3 DEF Used
  <2>2. ASSUME NEW d \in Client PROVE User(d)'
    <3>0. User(d)
      BY DEF Users
    <3>1. CASE d = c
      <4>1. getter'[c] = "auth" /\ label'[c] = l /\ gUser'[l] = c /\ gEnd'[l] = "OPEN" /\ l # None
        BY SessionsAssumption DEF Uses, TypeOK
      <4> QED BY <1>3, <3>0, <3>1, <4>1 DEF User, Talking, Live, sharing
    <3>2. CASE d # c
      <4>1. getter'[d] = getter[d] /\ label'[d] = label[d] /\ client'[d] = client[d]
        BY <3>2 DEF Uses, TypeOK
      <4>2. ASSUME getter[d] \in Talking PROVE label[d] # l /\ label[d] \in Label
        BY <4>2, GetterAt
      <4>3. getter[d] \in Talking => gUser'[label[d]] = gUser[label[d]]
                                     /\ gEnd'[label[d]] = gEnd[label[d]]
        BY <4>2 DEF Uses, TypeOK
      <4> QED BY <3>0, <4>1, <4>3 DEF User, sharing
    <3> QED BY <3>1, <3>2
  <2> QED BY <2>1, <2>2 DEF Users
<1>5. Lines'
  <2> SUFFICES ASSUME NEW m \in Label PROVE Of(m)'
    BY DEF Lines
  <2>1. CASE m = l
    <3>1. Line(c, sUser[l], "OPEN", sEnd[l], Append(toSharer[l], Msg("OPEN", c)), toGetter[l],
               "auth", "none", lost)
      <4>1. toSharer[l] \in Seq(Message) /\ toGetter[l] \in Seq(Message)
        BY DEF TypeOK
      <4>2. Of(l)
        BY DEF Lines
      <4> QED BY <1>2, <4>1, <4>2, Opens DEF Of
    <3>2. /\ gUser'[l] = c /\ gEnd'[l] = "OPEN" /\ getter'[c] = "auth"
          /\ toSharer'[l] = Append(toSharer[l], Msg("OPEN", c))
      BY DEF Uses, TypeOK
    <3> QED BY <1>3, <2>1, <3>1, <3>2 DEF Of, sharing
  <2>2. CASE m # l
    <3>1. Untouched(m)
      BY <2>2 DEF Untouched, Uses, TypeOK, sharing
    <3>2. label[c] # m
      BY SessionsAssumption
    <3>3. \A d \in Client \ {c} : getter'[d] = getter[d] /\ sharer'[d] = sharer[d]
      BY DEF Uses, sharing
    <3> QED BY <3>1, <3>2, <3>3, Elsewhere
  <2> QED BY <2>1, <2>2
<1>6. Counts'
  <2>1. \A d \in Client : label[d] # None => label'[d] = label[d]
    BY DEF Uses, TypeOK
  <2> QED BY <2>1, Uncounted DEF sharing
<1> QED BY <1>1, <1>4, <1>5, <1>6

(* Only how far session c is changes at the getter. *)
LEMMA GetterGoesOn ==
  ASSUME IInv, NEW c \in Client, NEW next \in {"failed", "request", "replying"},
         getter' = [getter EXCEPT ![c] = next],
         \/ getter[c] = "opening" /\ next = "failed"
         \/ getter[c] = "auth" /\ next = "request"
         \/ getter[c] \in {"request", "response"} /\ next = "replying",
         fromClient' \in [Client -> Nat],
         UNCHANGED <<server, client, clientSent, clientGot, label, gEnd, gUser, sharing,
                     toSharer, toGetter, others, lost>>
  PROVE  IInv'
<1>1. TypeOK'
  BY DEF IInv, TypeOK, sharing
<1>2. getter'[c] = next /\ \A d \in Client \ {c} : getter'[d] = getter[d]
  BY DEF IInv, TypeOK
<1>3. Users'
  <2>1. User(c)
    BY DEF IInv, Users
  <2>2. label[c] = None <=> getter'[c] \in {"none", "opening", "failed"}
    BY <1>2, <2>1 DEF User
  <2>3. client'[c] = "none" => getter'[c] = "none"
    BY <2>1 DEF User
  <2>4. getter'[c] \in Talking => getter[c] \in Talking /\ gEnd' = gEnd
    BY <1>2 DEF Talking
  <2> QED BY <1>2, <2>2, <2>3, <2>4, GetterUsers DEF sharing
<1>4. Lines'
  <2>1. \A d \in Client : GetterSettles(getter[d], getter'[d])
    BY <1>2 DEF GetterSettles
  <2>2. \A d \in Client : SharerSettles(sharer[d], sharer'[d])
    BY DEF SharerSettles, sharing
  <2> QED BY <2>1, <2>2, Settled DEF sharing
<1>5. Counts'
  BY Uncounted DEF sharing
<1> QED BY <1>1, <1>3, <1>4, <1>5 DEF IInv

(* The channel of session c is what changes, and that session. *)
LEMMA GetterLine ==
  ASSUME IInv, NEW c \in Client, gUser[label[c]] = c,
         UNCHANGED <<gUser, sUser, sEnd, sharer, lost>>,
         \A d \in Client \ {c} : getter'[d] = getter[d],
         \A l \in Label \ {label[c]} :
           gEnd'[l] = gEnd[l] /\ toSharer'[l] = toSharer[l] /\ toGetter'[l] = toGetter[l],
         Line(c, sUser[label[c]], gEnd'[label[c]], sEnd[label[c]], toSharer'[label[c]],
              toGetter'[label[c]], getter'[c], sharer[c], lost)
  PROVE  Lines'
<1> SUFFICES ASSUME NEW l \in Label PROVE Of(l)'
  BY DEF Lines
<1>1. CASE l = label[c]
  BY <1>1 DEF Of
<1>2. CASE l # label[c]
  <2>1. Untouched(l)
    BY <1>2 DEF Untouched
  <2> QED BY <1>2, <2>1, Elsewhere
<1> QED BY <1>1, <1>2

LEMMA LineAt ==
  ASSUME IInv, NEW l \in Label
  PROVE  /\ Of(l) /\ toSharer[l] \in Seq(Message) /\ toGetter[l] \in Seq(Message)
         /\ gEnd[l] \in EndState /\ sEnd[l] \in EndState
         /\ gUser[l] \in Client \cup {None} /\ sUser[l] \in Client \cup {None}
BY DEF IInv, Lines, TypeOK

LEMMA doRequestHandshakeKeeps ==
  ASSUME IInv, NEW c \in Client, doRequestHandshake_(c)
  PROVE  IInv'
<1> DEFINE l == label[c]
<1>1. getter[c] = "request" /\ l \in Label /\ gUser[l] = c /\ gEnd[l] = "OPEN"
  BY GetterAt DEF doRequestHandshake_, Talking
<1>2. /\ toSharer[l] \in Seq(Message) /\ toGetter[l] \in Seq(Message) /\ Of(l)
      /\ toSharer[l] \o <<Msg("request", c)>> = Append(toSharer[l], Msg("request", c))
      /\ Append(toSharer[l], Msg("request", c)) \in Seq(Message)
  BY <1>1, LineAt, Saying
<1>3. toSharer' = [toSharer EXCEPT ![l] = Append(toSharer[l], Msg("request", c))]
  BY <1>1, <1>2 DEF doRequestHandshake_, Says
<1>4. getter' = [getter EXCEPT ![c] = "response"]
  BY DEF doRequestHandshake_
<1>5. TypeOK'
  <2>1. toSharer' \in [Label -> Seq(Message)]
    BY <1>2, <1>3 DEF IInv, TypeOK
  <2>2. fromClient' \in [Client -> Nat]
    BY DEF IInv, TypeOK, doRequestHandshake_, Packet
  <2> QED BY <1>4, <2>1, <2>2 DEF IInv, TypeOK, doRequestHandshake_, sharing
<1>6. getter'[c] = "response" /\ \A d \in Client \ {c} : getter'[d] = getter[d]
  BY <1>4 DEF IInv, TypeOK
<1>7. Users'
  <2>1. User(c)
    BY DEF IInv, Users
  <2>2. label[c] = None <=> getter'[c] \in {"none", "opening", "failed"}
    BY <1>1, <1>6, SessionsAssumption
  <2>3. client'[c] = "none" => getter'[c] = "none"
    BY <1>1, <2>1 DEF User, doRequestHandshake_
  <2> QED BY <1>1, <1>6, <2>2, <2>3, GetterUsers DEF doRequestHandshake_, sharing, Talking
<1>8. Lines'
  <2>1. Line(c, sUser[l], "OPEN", sEnd[l], Append(toSharer[l], Msg("request", c)), toGetter[l],
             "response", sharer[c], lost)
    <3>1. Line(c, sUser[l], "OPEN", sEnd[l], toSharer[l], toGetter[l], "request", sharer[c], lost)
      BY <1>1, <1>2 DEF Of
    <3> HIDE DEF l
    <3> QED BY <1>2, <3>1, Asks
  <2>2. toSharer'[l] = Append(toSharer[l], Msg("request", c))
    BY <1>1, <1>3 DEF IInv, TypeOK
  <2>3. \A m \in Label \ {l} : toSharer'[m] = toSharer[m]
    BY <1>3 DEF IInv, TypeOK
  <2> QED BY <1>1, <1>6, <2>1, <2>2, <2>3, GetterLine DEF doRequestHandshake_, sharing, Talking
<1>9. Counts'
  BY Uncounted DEF doRequestHandshake_, sharing
<1> QED BY <1>5, <1>7, <1>8, <1>9 DEF IInv

(* Session c stops and closes its channel, with A still to be read. *)
LEMMA GetterHangsUp ==
  ASSUME IInv, NEW c \in Client, getter[c] \in Talking, NEW A \in Seq(Message),
         toGetter' = [toGetter EXCEPT ![label[c]] = A],
         Line(c, sUser[label[c]], "OPEN", sEnd[label[c]], toSharer[label[c]], A, getter[c],
              sharer[c], lost),
         \/ getter[c] \in {"auth", "request"}
         \/ "sharer" \notin lost => c = sUser[label[c]] /\ sharer[c] \notin Early,
         getter' = [getter EXCEPT ![c] = "stopped"],
         client' \in [Client -> {"none", "open", "gone", "closed"}],
         \A d \in Client : client'[d] = "none" => client[d] = "none",
         SaysAndCloses(toSharer, gEnd, label[c], c, <<>>),
         UNCHANGED <<server, fromClient, clientSent, clientGot, label, gUser, sharing, others,
                     lost>>
  PROVE  IInv'
<1> DEFINE l == label[c]
<1>1. l \in Label /\ gUser[l] = c /\ gEnd[l] = "OPEN"
  BY GetterAt
<1>2. /\ toSharer[l] \in Seq(Message)
      /\ toSharer[l] \o (<<>> \o <<Msg("CLOSE", c)>>) = Append(toSharer[l], Msg("CLOSE", c))
      /\ Append(toSharer[l], Msg("CLOSE", c)) \in Seq(Message)
  BY <1>1, LineAt, Saying
<1>3. /\ toSharer' = [toSharer EXCEPT ![l] = Append(toSharer[l], Msg("CLOSE", c))]
      /\ gEnd' = [gEnd EXCEPT ![l] = "CLOSING"]
  BY <1>1, <1>2 DEF SaysAndCloses, Says
<1>4. TypeOK'
  <2>1. toSharer' \in [Label -> Seq(Message)] /\ toGetter' \in [Label -> Seq(Message)]
    BY <1>2, <1>3 DEF IInv, TypeOK
  <2>2. gEnd' \in [Label -> EndState]
    BY <1>3 DEF IInv, TypeOK, EndState
  <2> QED BY <2>1, <2>2 DEF IInv, TypeOK, sharing
<1>5. getter'[c] = "stopped" /\ \A d \in Client \ {c} : getter'[d] = getter[d]
  BY DEF IInv, TypeOK
<1>6. /\ toSharer'[l] = Append(toSharer[l], Msg("CLOSE", c)) /\ gEnd'[l] = "CLOSING"
      /\ toGetter'[l] = A
  BY <1>1, <1>3 DEF IInv, TypeOK
<1>7. \A m \in Label \ {l} :
        gEnd'[m] = gEnd[m] /\ toSharer'[m] = toSharer[m] /\ toGetter'[m] = toGetter[m]
  BY <1>3 DEF IInv, TypeOK
<1>8. Users'
  <2>1. User(c) /\ getter'[c] \notin Talking
    BY <1>5 DEF IInv, Users, Talking
  <2>2. label[c] = None <=> getter'[c] \in {"none", "opening", "failed"}
    BY <1>1, <1>5, SessionsAssumption
  <2>3. client'[c] = "none" => getter'[c] = "none"
    BY <2>1 DEF User, Talking
  <2> QED BY <1>1, <1>5, <1>7, <2>1, <2>2, <2>3, GetterUsers DEF sharing
<1>9. Lines'
  <2>1. Line(c, sUser[l], "CLOSING", sEnd[l], Append(toSharer[l], Msg("CLOSE", c)), A,
             "stopped", sharer[c], lost)
    <3> HIDE DEF l
    <3> QED BY <1>2, Hangs DEF l
  <2> QED BY <1>1, <1>5, <1>6, <1>7, <2>1, GetterLine DEF sharing
<1>10. Counts'
  BY Uncounted DEF sharing
<1> QED BY <1>4, <1>8, <1>9, <1>10 DEF IInv

(* Session c sends packets on, with A still to be read. *)
LEMMA GetterSendsOn ==
  ASSUME IInv, NEW c \in Client, getter[c] \in Talking, NEW A \in Seq(Message),
         toGetter' = [toGetter EXCEPT ![label[c]] = A],
         Line(c, sUser[label[c]], "OPEN", sEnd[label[c]], toSharer[label[c]], A, getter[c],
              sharer[c], lost),
         "sharer" \notin lost => c = sUser[label[c]] /\ sharer[c] \notin Early,
         getter' = [getter EXCEPT ![c] = "linked"],
         NEW T \in Seq(Message), \A i \in 1..Len(T) : T[i] = Msg("data", c),
         Says(toSharer, gEnd, label[c], T),
         fromClient' \in [Client -> Nat], clientSent' \in [Client -> 0..MaxPackets],
         UNCHANGED <<server, client, clientGot, label, gEnd, gUser, sharing, others, lost>>
  PROVE  IInv'
<1> DEFINE l == label[c]
<1>1. l \in Label /\ gUser[l] = c /\ gEnd[l] = "OPEN"
  BY GetterAt
<1>2. toSharer[l] \in Seq(Message)
  BY <1>1, LineAt
<1>3. toSharer' = [toSharer EXCEPT ![l] = toSharer[l] \o T]
  BY <1>1 DEF Says
<1>4. TypeOK'
  <2>0. toSharer[l] \o T \in Seq(Message)
    BY <1>2
  <2>1. toSharer' \in [Label -> Seq(Message)] /\ toGetter' \in [Label -> Seq(Message)]
    BY <1>3, <2>0 DEF IInv, TypeOK
  <2> QED BY <2>1 DEF IInv, TypeOK, sharing
<1>5. getter'[c] = "linked" /\ \A d \in Client \ {c} : getter'[d] = getter[d]
  BY DEF IInv, TypeOK
<1>6. toSharer'[l] = toSharer[l] \o T /\ gEnd'[l] = "OPEN" /\ toGetter'[l] = A
  BY <1>1, <1>3 DEF IInv, TypeOK
<1>7. \A m \in Label \ {l} :
        gEnd'[m] = gEnd[m] /\ toSharer'[m] = toSharer[m] /\ toGetter'[m] = toGetter[m]
  BY <1>3 DEF IInv, TypeOK
<1>8. Users'
  <2>1. User(c)
    BY DEF IInv, Users
  <2>2. label[c] = None <=> getter'[c] \in {"none", "opening", "failed"}
    BY <1>1, <1>5, SessionsAssumption
  <2>3. client'[c] = "none" => getter'[c] = "none"
    BY <2>1 DEF User, Talking
  <2> QED BY <1>1, <1>5, <2>2, <2>3, GetterUsers DEF sharing
<1>9. Lines'
  <2>1. Line(c, sUser[l], "OPEN", sEnd[l], toSharer[l] \o T, A, "linked", sharer[c], lost)
    <3> HIDE DEF l
    <3> QED BY <1>2, Passes DEF l
  <2> QED BY <1>1, <1>5, <1>6, <1>7, <2>1, GetterLine DEF sharing
<1>10. Counts'
  BY Uncounted DEF sharing
<1> QED BY <1>4, <1>8, <1>9, <1>10 DEF IInv

(* The getter's end of l takes a message that changes nothing but clientGot. *)
LEMMA GetterTakes ==
  ASSUME IInv, NEW l \in Label, gEnd[l] \in {"OPEN", "CLOSING"}, toGetter[l] # <<>>,
         Takes(toGetter, l), clientGot' \in [Client -> Nat],
         UNCHANGED <<server, client, fromClient, clientSent, getter, label, gEnd, gUser,
                     sharing, toSharer, others, lost>>
  PROVE  IInv'
<1>1. /\ toGetter' = [toGetter EXCEPT ![l] = Tail(toGetter[l])]
      /\ toGetter[l] \in Seq(Message) /\ toSharer[l] \in Seq(Message) /\ Of(l)
  BY LineAt DEF Takes
<1>2. Tail(toGetter[l]) \in Seq(Message)
  BY <1>1
<1>3. TypeOK'
  BY <1>1, <1>2 DEF IInv, TypeOK, sharing
<1>4. Users'
  BY DEF IInv, Users, Used, User, sharing
<1>5. Lines'
  <2> SUFFICES ASSUME NEW m \in Label PROVE Of(m)'
    BY DEF Lines
  <2>1. CASE m = l
    <3>1. Line(gUser[l], sUser[l], gEnd[l], sEnd[l], toSharer[l], Tail(toGetter[l]),
               getter[gUser[l]], sharer[gUser[l]], lost)
      BY <1>1, TakesAnswer DEF Of
    <3> QED BY <1>1, <2>1, <3>1 DEF Of, IInv, TypeOK, sharing
  <2>2. CASE m # l
    BY <1>1, <2>2, LineAt DEF Of, IInv, TypeOK, sharing
  <2> QED BY <2>1, <2>2
<1>6. Counts'
  BY Uncounted DEF sharing
<1> QED BY <1>3, <1>4, <1>5, <1>6 DEF IInv

LEMMA Stops ==
  ASSUME IInv, NEW c \in Client, StopGetter({c})
  PROVE  /\ getter' = [getter EXCEPT ![c] = "stopped"]
         /\ client' \in [Client -> {"none", "open", "gone", "closed"}]
         /\ \A d \in Client : client'[d] = "none" => client[d] = "none"
BY DEF StopGetter, IInv, TypeOK

(* The handshake fails. *)
LEMMA HandshakeFails ==
  ASSUME IInv, NEW c \in Client, getter[c] \in {"auth", "request"}, EndGetter(c),
         UNCHANGED <<server, fromClient, clientSent, clientGot, label, gUser, sharing, toGetter,
                     others, lost>>
  PROVE  IInv'
<1>1. getter[c] \in Talking
  BY DEF Talking
<1>2. label[c] \in Label /\ gUser[label[c]] = c /\ gEnd[label[c]] = "OPEN"
  BY <1>1, GetterAt
<1>3. toGetter[label[c]] \in Seq(Message) /\ toGetter' = [toGetter EXCEPT ![label[c]] = toGetter[label[c]]]
  BY <1>2, LineAt DEF IInv, TypeOK
<1>4. Line(c, sUser[label[c]], "OPEN", sEnd[label[c]], toSharer[label[c]], toGetter[label[c]],
           getter[c], sharer[c], lost)
  BY <1>2, LineAt DEF Of
<1>5. /\ getter' = [getter EXCEPT ![c] = "stopped"]
      /\ client' \in [Client -> {"none", "open", "gone", "closed"}]
      /\ \A d \in Client : client'[d] = "none" => client[d] = "none"
  BY Stops DEF EndGetter
<1>6. SaysAndCloses(toSharer, gEnd, label[c], c, <<>>)
  BY DEF EndGetter
<1> QED BY <1>1, <1>3, <1>4, <1>5, <1>6, GetterHangsUp

LEMMA ReceiveResponseKeeps ==
  ASSUME IInv, NEW l \in Label, ReceiveResponse(l)
  PROVE  IInv'
<1> DEFINE c == gUser[l]
           A == Tail(toGetter[l])
<1>1. /\ gEnd[l] = "OPEN" /\ toGetter[l] # <<>> /\ getter[c] = "response"
      /\ toGetter' = [toGetter EXCEPT ![l] = A]
  BY DEF ReceiveResponse, Takes
<1>2. c \in Client /\ label[c] = l
  <2>1. gUser[l] # None /\ gUser[l] \in Client \cup {None}
    BY <1>1, LineAt DEF Of, Line
  <2> QED BY <2>1 DEF IInv, Users, Used
<1>3. /\ toGetter[l] \in Seq(Message) /\ toSharer[l] \in Seq(Message) /\ A \in Seq(Message)
      /\ Line(c, sUser[l], "OPEN", sEnd[l], toSharer[l], toGetter[l], getter[c], sharer[c], lost)
  BY <1>1, LineAt DEF Of
<1>4. "sharer" \notin lost => c = sUser[l] /\ sharer[c] \notin Early
  BY <1>1, <1>3, AnswersFrom
<1>5. Line(c, sUser[l], "OPEN", sEnd[l], toSharer[l], A, getter[c], sharer[c], lost)
  BY <1>1, <1>3, TakesAnswer
<1>6. getter[c] \in Talking
  BY <1>1 DEF Talking
<1> HIDE DEF A, c
<1>7. CASE WaitsForClient(c) /\ UNCHANGED fromClient
  <2>1. getter'[c] = "replying" /\ \A d \in Client \ {c} : getter'[d] = getter[d]
    BY <1>2, <1>7 DEF WaitsForClient, IInv, TypeOK
  <2>2. UNCHANGED <<server, client, fromClient, clientSent, clientGot, label, gUser, gEnd,
                    toSharer, sharing, others, lost>>
    BY <1>7 DEF ReceiveResponse, WaitsForClient
  <2>3. TypeOK'
    BY <1>1, <1>3, <1>7, <2>2 DEF WaitsForClient, IInv, TypeOK, sharing
  <2>4. Users'
    <3>1. label[c] = None <=> getter'[c] \in {"none", "opening", "failed"}
      BY <1>2, <2>1, SessionsAssumption
    <3>2. client'[c] = "none" => getter'[c] = "none"
      BY <1>2, <1>6, <2>2 DEF IInv, Users, User, Talking
    <3> QED BY <1>2, <1>6, <2>1, <2>2, <3>1, <3>2, GetterUsers DEF sharing
  <2>5. Lines'
    <3>1. GetterSettles(getter[c], "replying") /\ SharerSettles(sharer[c], sharer[c])
      BY DEF GetterSettles, SharerSettles
    <3>2. Line(c, sUser[l], "OPEN", sEnd[l], toSharer[l], A, "replying", sharer[c], lost)
      BY <1>3, <1>5, <3>1, Settles
    <3>3. toGetter'[l] = A /\ \A m \in Label \ {l} : toGetter'[m] = toGetter[m]
      BY <1>1 DEF IInv, TypeOK
    <3> QED BY <1>1, <1>2, <2>1, <2>2, <3>2, <3>3, GetterLine DEF sharing, c
  <2>6. Counts'
    BY <2>2, Uncounted DEF sharing
  <2> QED BY <2>3, <2>4, <2>5, <2>6 DEF IInv
<1>8. CASE LinkGetter(c)
  <2> DEFINE T == Times(fromClient[c], Msg("data", c))
  <2>1. T \in Seq(Message) /\ \A i \in 1..Len(T) : T[i] = Msg("data", c)
    <3>1. fromClient[c] \in Nat /\ Msg("data", c) \in Message
      BY <1>2 DEF IInv, TypeOK, Msg, Message
    <3> QED BY <3>1 DEF Times
  <2>2. /\ getter' = [getter EXCEPT ![c] = "linked"] /\ Says(toSharer, gEnd, label[c], T)
        /\ fromClient' \in [Client -> Nat]
    BY <1>8 DEF LinkGetter, IInv, TypeOK
  <2>3. clientSent' \in [Client -> 0..MaxPackets]
    BY DEF IInv, TypeOK, ReceiveResponse
  <2>4. UNCHANGED <<server, client, clientGot, label, gEnd, gUser, sharing, others, lost>>
    BY <1>8 DEF ReceiveResponse, LinkGetter
  <2> HIDE DEF T
  <2> QED BY <1>1, <1>2, <1>3, <1>4, <1>5, <1>6, <2>1, <2>2, <2>3, <2>4, GetterSendsOn
<1>9. CASE EndGetter(c) /\ UNCHANGED fromClient
  <2>1. /\ getter' = [getter EXCEPT ![c] = "stopped"]
        /\ client' \in [Client -> {"none", "open", "gone", "closed"}]
        /\ \A d \in Client : client'[d] = "none" => client[d] = "none"
    BY <1>2, <1>9, Stops DEF EndGetter
  <2>2. SaysAndCloses(toSharer, gEnd, label[c], c, <<>>)
    BY <1>9 DEF EndGetter
  <2>3. UNCHANGED <<server, fromClient, clientSent, clientGot, label, gUser, sharing, others, lost>>
    BY <1>9 DEF ReceiveResponse
  <2> QED BY <1>1, <1>2, <1>3, <1>4, <1>5, <1>6, <2>1, <2>2, <2>3, GetterHangsUp
<1> QED BY <1>7, <1>8, <1>9 DEF ReceiveResponse, c

LEMMA GetterClosedKeeps ==
  ASSUME IInv, NEW l \in Label, GetterClosed(l)
  PROVE  IInv'
<1> DEFINE c == gUser[l]
           A == Tail(toGetter[l])
           T == IF gEnd[l] = "OPEN" THEN toSharer[l] \o <<Msg("CLOSE", c)>> ELSE toSharer[l]
<1>1. /\ gEnd[l] \in {"OPEN", "CLOSING"} /\ toGetter[l] # <<>> /\ Head(toGetter[l]).kind = "CLOSE"
      /\ toGetter' = [toGetter EXCEPT ![l] = A] /\ toSharer' = [toSharer EXCEPT ![l] = T]
      /\ gEnd' = [gEnd EXCEPT ![l] = "CLOSED"] /\ StopGetter({c})
      /\ UNCHANGED <<server, fromClient, clientSent, clientGot, label, gUser, sharing, others,
                     lost>>
  BY DEF GetterClosed, Takes, Says
<1>2. c \in Client /\ label[c] = l
  <2>1. gUser[l] # None /\ gUser[l] \in Client \cup {None}
    BY <1>1, LineAt DEF Of, Line
  <2> QED BY <2>1 DEF IInv, Users, Used
<1>3. /\ toGetter[l] \in Seq(Message) /\ toSharer[l] \in Seq(Message) /\ A \in Seq(Message)
      /\ sEnd[l] \in EndState
      /\ Line(c, sUser[l], gEnd[l], sEnd[l], toSharer[l], toGetter[l], getter[c], sharer[c], lost)
  BY <1>1, LineAt DEF Of
<1>4. T \in Seq(Message)
  BY <1>2, <1>3, Saying
<1> HIDE DEF c, A
<1>5. Line(c, sUser[l], "CLOSED", sEnd[l], T, A, "stopped", sharer[c], lost)
  BY <1>1, <1>2, <1>3, HearsClose DEF A
<1> HIDE DEF T
<1>6. /\ getter' = [getter EXCEPT ![c] = "stopped"]
      /\ client' \in [Client -> {"none", "open", "gone", "closed"}]
      /\ \A d \in Client : client'[d] = "none" => client[d] = "none"
  BY <1>1, <1>2, Stops
<1>7. TypeOK'
  <2>1. toSharer' \in [Label -> Seq(Message)] /\ toGetter' \in [Label -> Seq(Message)]
    BY <1>1, <1>3, <1>4 DEF IInv, TypeOK
  <2>2. gEnd' \in [Label -> EndState]
    BY <1>1 DEF IInv, TypeOK, EndState
  <2> QED BY <1>1, <1>6, <2>1, <2>2 DEF IInv, TypeOK, sharing
<1>8. getter'[c] = "stopped" /\ \A d \in Client \ {c} : getter'[d] = getter[d]
  BY <1>2, <1>6 DEF IInv, TypeOK
<1>9. /\ gEnd'[l] = "CLOSED" /\ toSharer'[l] = T /\ toGetter'[l] = A
      /\ \A m \in Label \ {l} :
           gEnd'[m] = gEnd[m] /\ toSharer'[m] = toSharer[m] /\ toGetter'[m] = toGetter[m]
  BY <1>1 DEF IInv, TypeOK
<1>10. gUser[label[c]] = c
  BY <1>2 DEF c
<1>11. Users'
  <2>1. User(c) /\ getter'[c] \notin Talking
    BY <1>2, <1>8 DEF IInv, Users, Talking
  <2>2. label[c] = None <=> getter'[c] \in {"none", "opening", "failed"}
    BY <1>2, <1>8, SessionsAssumption
  <2>3. client'[c] = "none" => getter'[c] = "none"
    BY <1>2, <1>6, <2>1, <2>2 DEF User
  <2> QED BY <1>1, <1>2, <1>6, <1>8, <1>9, <1>10, <2>1, <2>2, <2>3, GetterUsers DEF sharing
<1>12. Lines'
  BY <1>1, <1>2, <1>5, <1>8, <1>9, <1>10, GetterLine DEF sharing
<1>13. Counts'
  BY <1>1, Uncounted DEF sharing
<1> QED BY <1>7, <1>11, <1>12, <1>13 DEF IInv

LEMMA StopSocksToRtcKeeps ==
  ASSUME IInv, StopSocksToRtc
  PROVE  IInv'
<1> DEFINE S == {gUser[l] : l \in {l \in Label : gEnd[l] \in {"OPEN", "CLOSING"}}}
<1>1. /\ "getter" \notin lost /\ lost' = lost \cup {"getter"} /\ server' = "closing"
      /\ gEnd' = [l \in Label |-> IF gEnd[l] = "none" THEN "none" ELSE "PERMANENTLY_CLOSED"]
      /\ toGetter' = [l \in Label |-> <<>>]
      /\ getter' = [c \in Client |-> IF c \in S THEN "stopped" ELSE getter[c]]
      /\ client' = [c \in Client |-> IF c \in S /\ client[c] = "open" THEN "closed" ELSE client[c]]
      /\ UNCHANGED <<fromClient, clientSent, clientGot, label, gUser, sharing, toSharer, others>>
  BY DEF StopSocksToRtc, StopGetter
<1>2. TypeOK'
  BY <1>1 DEF IInv, TypeOK, EndState, sharing
<1>3. \A c \in Client : getter[c] \in Talking => c \in S
  <2> SUFFICES ASSUME NEW c \in Client, getter[c] \in Talking PROVE c \in S
    OBVIOUS
  <2> QED BY GetterAt
<1>4. \A c \in Client : c \in S => label[c] \in Label
  <2> SUFFICES ASSUME NEW l \in Label, gEnd[l] \in {"OPEN", "CLOSING"}
               PROVE  label[gUser[l]] = l
    OBVIOUS
  <2>1. gUser[l] # None
    BY LineAt DEF Of, Line
  <2> QED BY <2>1 DEF IInv, Users, Used
<1>5. \A c \in Client : getter'[c] \notin Talking
  BY <1>1, <1>3 DEF Talking
<1>6. Users'
  <2>1. ASSUME NEW l \in Label PROVE Used(l)'
    BY <1>1 DEF IInv, Users, Used, sharing
  <2>2. ASSUME NEW c \in Client PROVE User(c)'
    <3>0. User(c)
      BY DEF IInv, Users
    <3>1. label[c] = None <=> getter'[c] \in {"none", "opening", "failed"}
      BY <1>1, <1>4, <3>0, SessionsAssumption DEF User
    <3>2. client'[c] = "none" => getter'[c] = "none"
      <4>1. c \in S => getter[c] # "none"
        BY <1>4, <3>0, SessionsAssumption DEF User
      <4> QED BY <1>1, <3>0, <4>1 DEF User
    <3> QED BY <1>1, <1>5, <3>0, <3>1, <3>2 DEF User, sharing
  <2> QED BY <2>1, <2>2 DEF Users
<1>7. Lines'
  <2> SUFFICES ASSUME NEW l \in Label PROVE Of(l)'
    BY DEF Lines
  <2> DEFINE x == getter[gUser[l]]
             x2 == getter'[gUser[l]]
             y == sharer[gUser[l]]
  <2>1. /\ Line(gUser[l], sUser[l], gEnd[l], sEnd[l], toSharer[l], toGetter[l], x, y, lost)
        /\ toSharer[l] \in Seq(Message) /\ toGetter[l] \in Seq(Message)
        /\ gUser[l] \in Client \cup {None}
    BY LineAt DEF Of
  <2>2. CASE gUser[l] \in Client
    <3>1. x2 = x \/ x2 \notin {"linked", "auth", "request"}
      BY <1>1, <2>2
    <3> HIDE DEF x, x2, y
    <3>2. Line(gUser[l], sUser[l], IF gEnd[l] = "none" THEN "none" ELSE "PERMANENTLY_CLOSED",
               sEnd[l], toSharer[l], <<>>, x2, y, lost \cup {"getter"})
      BY <1>1, <2>1, <3>1, GetterGoes
    <3> QED BY <1>1, <3>2 DEF Of, sharing, x2, y
  <2>3. CASE gUser[l] = None
    <3>1. gEnd[l] = "none" /\ sEnd[l] = "none" /\ sUser[l] = None /\ toSharer[l] = <<>>
      BY <2>1, <2>3 DEF Line
    <3>2. gEnd'[l] = "none" /\ toGetter'[l] = <<>>
      BY <1>1, <3>1
    <3> QED BY <1>1, <2>3, <3>1, <3>2 DEF Of, Line, sharing
  <2> QED BY <2>1, <2>2, <2>3
<1>8. Counts'
  BY <1>1, Uncounted DEF sharing
<1> QED BY <1>2, <1>6, <1>7, <1>8 DEF IInv

LEMMA ServerShutKeeps ==
  ASSUME IInv, ServerShut
  PROVE  IInv'
<1>1. /\ server' = "shut"
      /\ client' = [c \in Client |-> IF client[c] = "open" THEN "closed" ELSE client[c]]
      /\ UNCHANGED <<fromClient, clientSent, clientGot, getter, label, gEnd, gUser, sharing,
                     toSharer, toGetter, others, lost>>
  BY DEF ServerShut
<1>2. TypeOK'
  BY <1>1 DEF IInv, TypeOK, sharing
<1>3. Users'
  <2>1. \A c \in Client : client'[c] = "none" => client[c] = "none"
    BY <1>1
  <2> QED BY <1>1, <2>1 DEF IInv, Users, Used, User, sharing
<1>4. Lines'
  BY <1>1 DEF IInv, Lines, Of, sharing
<1>5. Counts'
  BY <1>1, Uncounted DEF sharing
<1> QED BY <1>2, <1>3, <1>4, <1>5 DEF IInv

LEMMA ClientSendsKeeps ==
  ASSUME IInv, NEW c \in Client, ClientSends(c)
  PROVE  IInv'
<1>1. /\ client[c] = "open" /\ clientSent[c] < MaxPackets
      /\ clientSent' = [clientSent EXCEPT ![c] = @ + 1]
      /\ UNCHANGED <<server, client, clientGot, getter, label, gEnd, gUser, sharing, toGetter,
                     others, lost>>
  BY DEF ClientSends
<1>2. clientSent' \in [Client -> 0..MaxPackets]
  BY <1>1, SessionsAssumption DEF IInv, TypeOK
<1>3. CASE getter[c] = "linked"
  <2>1. Says(toSharer, gEnd, label[c], <<Msg("data", c)>>) /\ UNCHANGED fromClient
    BY <1>3 DEF ClientSends
  <2>2. /\ <<Msg("data", c)>> \in Seq(Message)
        /\ \A i \in 1..Len(<<Msg("data", c)>>) : <<Msg("data", c)>>[i] = Msg("data", c)
    <3>1. Msg("data", c) \in Message
      BY DEF Msg, Message
    <3> QED BY <3>1
  <2>3. getter[c] \in Talking
    BY <1>3 DEF Talking
  <2>4. label[c] \in Label /\ gUser[label[c]] = c /\ gEnd[label[c]] = "OPEN"
    BY <2>3, GetterAt
  <2>5. /\ toGetter[label[c]] \in Seq(Message)
        /\ toGetter' = [toGetter EXCEPT ![label[c]] = toGetter[label[c]]]
        /\ Line(c, sUser[label[c]], "OPEN", sEnd[label[c]], toSharer[label[c]],
                toGetter[label[c]], getter[c], sharer[c], lost)
    BY <1>1, <2>4, LineAt DEF Of, IInv, TypeOK
  <2>6. "sharer" \notin lost => c = sUser[label[c]] /\ sharer[c] \notin Early
    BY <1>3, LinkedAt
  <2>7. getter' = [getter EXCEPT ![c] = "linked"] /\ fromClient' \in [Client -> Nat]
    BY <1>1, <1>3, <2>1 DEF IInv, TypeOK
  <2> DEFINE T == <<Msg("data", c)>>
  <2> HIDE DEF T
  <2>8. T \in Seq(Message) /\ Says(toSharer, gEnd, label[c], T)
        /\ \A i \in 1..Len(T) : T[i] = Msg("data", c)
    BY <2>1, <2>2 DEF T
  <2> QED BY <1>1, <1>2, <2>3, <2>5, <2>6, <2>7, <2>8, GetterSendsOn
<1>4. CASE getter[c] # "linked"
  <2>1. fromClient' = [fromClient EXCEPT ![c] = @ + 1] /\ UNCHANGED toSharer
    BY <1>4 DEF ClientSends
  <2>2. TypeOK'
    BY <1>1, <1>2, <2>1 DEF IInv, TypeOK, sharing
  <2>3. Users' /\ Lines'
    BY <1>1, <2>1 DEF IInv, Users, Used, User, Lines, Of, sharing
  <2>4. Counts'
    BY <1>1, Uncounted DEF sharing
  <2> QED BY <2>2, <2>3, <2>4 DEF IInv
<1> QED BY <1>3, <1>4

LEMMA ClientGoneKeeps ==
  ASSUME IInv, NEW c \in Client, ClientGone(c)
  PROVE  IInv'
<1>1. /\ client[c] = "open" /\ client' = [client EXCEPT ![c] = "gone"]
      /\ UNCHANGED <<server, fromClient, clientSent, clientGot, label, gUser, sharing, toGetter,
                     others, lost>>
  BY DEF ClientGone
<1>2. /\ client' \in [Client -> {"none", "open", "gone", "closed"}]
      /\ \A d \in Client : client'[d] = "none" => client[d] = "none"
  BY <1>1 DEF IInv, TypeOK
<1>3. CASE getter[c] = "linked"
  <2>1. /\ getter' = [getter EXCEPT ![c] = "stopped"]
        /\ SaysAndCloses(toSharer, gEnd, label[c], c, <<>>)
    BY <1>3 DEF ClientGone
  <2>2. getter[c] \in Talking
    BY <1>3 DEF Talking
  <2>3. label[c] \in Label /\ gUser[label[c]] = c /\ gEnd[label[c]] = "OPEN"
    BY <2>2, GetterAt
  <2>4. /\ toGetter[label[c]] \in Seq(Message)
        /\ toGetter' = [toGetter EXCEPT ![label[c]] = toGetter[label[c]]]
        /\ Line(c, sUser[label[c]], "OPEN", sEnd[label[c]], toSharer[label[c]],
                toGetter[label[c]], getter[c], sharer[c], lost)
    BY <1>1, <2>3, LineAt DEF Of, IInv, TypeOK
  <2>5. "sharer" \notin lost => c = sUser[label[c]] /\ sharer[c] \notin Early
    BY <1>3, LinkedAt
  <2> QED BY <1>1, <1>2, <2>1, <2>2, <2>4, <2>5, GetterHangsUp
<1>4. CASE getter[c] # "linked"
  <2>1. UNCHANGED <<getter, toSharer, gEnd>>
    BY <1>4 DEF ClientGone
  <2>2. TypeOK'
    BY <1>1, <1>2, <2>1 DEF IInv, TypeOK, sharing
  <2>3. Users' /\ Lines'
    BY <1>1, <1>2, <2>1 DEF IInv, Users, Used, User, Lines, Of, sharing
  <2>4. Counts'
    BY <1>1, Uncounted DEF sharing
  <2> QED BY <2>2, <2>3, <2>4 DEF IInv
<1> QED BY <1>3, <1>4

LEMMA makeTcpToRtcSessionKeeps ==
  ASSUME IInv, NEW c \in Client, makeTcpToRtcSession_(c)
  PROVE  IInv'
<1>1. /\ client[c] = "none" /\ client' = [client EXCEPT ![c] = "open"]
      /\ UNCHANGED <<server, fromClient, clientSent, clientGot, sharing, toGetter, others, lost>>
  BY DEF makeTcpToRtcSession_
<1>2. getter[c] = "none" /\ label[c] = None /\ client'[c] = "open"
  BY <1>1 DEF IInv, Users, User, TypeOK
<1>3. CASE "getter" \notin lost /\ \E l \in Label : gEnd[l] = "CLOSED" /\ Uses(c, l)
  <2>1. PICK l \in Label : gEnd[l] = "CLOSED" /\ Uses(c, l)
    BY <1>3
  <2> QED BY <1>1, <1>2, <1>3, <2>1, UsesKeeps
<1>4. CASE getter' = [getter EXCEPT ![c] = "opening"] /\ UNCHANGED <<label, gEnd, gUser, toSharer>>
  BY <1>1, <1>4, makeTcpWaits
<1> QED BY <1>3, <1>4 DEF makeTcpToRtcSession_

LEMMA GetterStepKeeps ==
  ASSUME IInv, NEW c \in Client, GetterStep(c)
  PROVE  IInv'
<1>1. CASE ChannelOpened(c)
  <2>1. PICK l \in Label : gEnd[l] = "none" /\ Uses(c, l)
    BY <1>1 DEF ChannelOpened
  <2>2. label[c] = None /\ client[c] # "none"
    BY <1>1 DEF ChannelOpened, IInv, Users, User
  <2> QED BY <1>1, <2>1, <2>2, UsesKeeps DEF ChannelOpened
<1>2. CASE ChannelNotOpened(c)
  <2>1. fromClient' \in [Client -> Nat]
    BY <1>2 DEF ChannelNotOpened, IInv, TypeOK
  <2> QED BY <1>2, <2>1, GetterGoesOn DEF ChannelNotOpened
<1>3. CASE doAuthHandshake_(c)
  <2>1. fromClient' \in [Client -> Nat]
    BY <1>3 DEF doAuthHandshake_, Packet, IInv, TypeOK
  <2> QED BY <1>3, <2>1, GetterGoesOn DEF doAuthHandshake_
<1>4. CASE AuthFails(c)
  BY <1>4, HandshakeFails DEF AuthFails
<1>5. CASE doRequestHandshake_(c)
  BY <1>5, doRequestHandshakeKeeps
<1>6. CASE RequestFails(c)
  <2>1. CASE EndGetter(c)
    BY <1>6, <2>1, HandshakeFails DEF RequestFails
  <2>2. CASE WaitsForClient(c)
    <3>1. fromClient' \in [Client -> Nat]
      BY <1>6 DEF RequestFails, IInv, TypeOK
    <3> QED BY <1>6, <2>2, <3>1, GetterGoesOn DEF RequestFails, WaitsForClient
  <2> QED BY <1>6, <2>1, <2>2 DEF RequestFails
<1> QED BY <1>1, <1>2, <1>3, <1>4, <1>5, <1>6 DEF GetterStep

LEMMA GetterReceivesKeeps ==
  ASSUME IInv, NEW l \in Label, GetterReceives(l)
  PROVE  IInv'
<1>1. CASE ReceiveAnswer(l)
  <2>1. clientGot' \in [Client -> Nat]
    <3>1. /\ clientGot' = [clientGot EXCEPT ![gUser[l]] = clientGot[gUser[l]] + 1]
          /\ clientGot \in [Client -> Nat]
      BY <1>1 DEF ReceiveAnswer, IInv, TypeOK
    <3> DEFINE u == gUser[l]
    <3> HIDE DEF u
    <3>2. clientGot' = [clientGot EXCEPT ![u] = clientGot[u] + 1]
      BY <3>1 DEF u
    <3>3. u \in Client => clientGot[u] + 1 \in Nat
      BY <3>1
    <3>4. clientGot' = [d \in Client |-> IF d = u THEN clientGot[u] + 1 ELSE clientGot[d]]
      BY <3>1, <3>2
    <3> QED BY <3>1, <3>3, <3>4
  <2> QED BY <1>1, <2>1, GetterTakes DEF ReceiveAnswer
<1>2. CASE GetterIgnores(l)
  <2>1. clientGot' \in [Client -> Nat]
    BY <1>2 DEF GetterIgnores, getting, IInv, TypeOK
  <2> QED BY <1>2, <2>1, GetterTakes DEF GetterIgnores, getting
<1> QED BY <1>1, <1>2, ReceiveResponseKeeps, GetterClosedKeeps DEF GetterReceives

-----------------------------------------------------------------------------
(* The steps of the sharer. *)

(* Only session c of the sharer goes on, and at most its channel closes. *)
LEMMA SharerUsers ==
  ASSUME IInv, NEW c \in Client, UNCHANGED <<client, getter, label, gEnd, gUser, sUser, lost>>,
         \A d \in Client \ {c} : sharer'[d] = sharer[d],
         \A d \in Client : web'[d] = "abandoned" => web[d] = "abandoned",
         label[c] # None,
         sharer'[c] \in Live => sharer[c] \in Live /\ sEnd' = sEnd,
         \/ sEnd' = sEnd
         \/ sUser[label[c]] = c /\ \A l \in Label : l # label[c] => sEnd'[l] = sEnd[l]
  PROVE  Users'
<1>1. ASSUME NEW l \in Label PROVE Used(l)'
  BY DEF IInv, Users, Used
<1>2. ASSUME NEW d \in Client PROVE User(d)'
  <2>0. User(d)
    BY DEF IInv, Users
  <2>1. sharer'[d] \in Live => sUser[label[d]] = d /\ sEnd'[label[d]] = "OPEN"
    <3>1. CASE d = c
      BY <2>0, <3>1 DEF User
    <3>2. CASE d # c
      <4>1. ASSUME sharer[d] \in Live PROVE sEnd'[label[d]] = sEnd[label[d]]
        BY <3>2, <4>1, SharerAt
      <4> QED BY <2>0, <3>2, <4>1 DEF User
    <3> QED BY <3>1, <3>2
  <2>2. label[d] = None => sharer'[d] = "none"
    BY <2>0 DEF User
  <2>3. web'[d] = "abandoned" => "sharer" \in lost
    BY <2>0 DEF User
  <2> QED BY <2>0, <2>1, <2>2, <2>3 DEF User
<1> QED BY <1>1, <1>2 DEF Users

(* The channel of session c is what changes, and that session. *)
LEMMA SharerLine ==
  ASSUME IInv, NEW c \in Client, gUser[label[c]] = c, UNCHANGED <<gUser, gEnd, getter, lost>>,
         \A d \in Client \ {c} : sharer'[d] = sharer[d],
         \A l \in Label \ {label[c]} :
           /\ sUser'[l] = sUser[l] /\ sEnd'[l] = sEnd[l]
           /\ toSharer'[l] = toSharer[l] /\ toGetter'[l] = toGetter[l],
         Line(c, sUser'[label[c]], gEnd[label[c]], sEnd'[label[c]], toSharer'[label[c]],
              toGetter'[label[c]], getter[c], sharer'[c], lost)
  PROVE  Lines'
<1> SUFFICES ASSUME NEW l \in Label PROVE Of(l)'
  BY DEF Lines
<1>1. CASE l = label[c]
  BY <1>1 DEF Of
<1>2. CASE l # label[c]
  <2>1. Untouched(l)
    BY <1>2 DEF Untouched
  <2> QED BY <1>2, <2>1, Elsewhere
<1> QED BY <1>1, <1>2

(* Messages of session c that are no part of opening or closing. *)
Replies(reply, c) ==
  \A i \in 1..Len(reply) : reply[i].from = c /\ reply[i].kind \notin {"OPEN", "CLOSE"}

WithClose(reply, c) == reply \o <<Msg("CLOSE", c)>>

LEMMA RepliesAndCloses ==
  ASSUME NEW c \in Client, NEW g, NEW Q \in Seq(Message), NEW A \in Seq(Message), NEW x, NEW y,
         NEW down, NEW next \in {"stopping", "stopped"}, Line(c, c, g, "OPEN", Q, A, x, y, down),
         NEW reply \in Seq(Message), Replies(reply, c), NEW T, T = A \o WithClose(reply, c)
  PROVE  T \in Seq(Message) /\ Line(c, c, g, "CLOSING", Q, T, x, next, down)
<1> DEFINE R == WithClose(reply, c)
<1>1. R \in Seq(Message)
  <2>1. Msg("CLOSE", c) \in Message
    BY Saying
  <2> QED BY <2>1 DEF WithClose
<1>2. \A i \in 1..Len(R) : /\ R[i].from = c /\ R[i].kind # "OPEN"
                           /\ R[i].kind = "CLOSE" => i = Len(R) /\ "CLOSING" = "CLOSING"
  <2>1. Len(R) = Len(reply) + 1 /\ R[Len(reply) + 1] = Msg("CLOSE", c) /\ Len(reply) \in Nat
    BY DEF WithClose
  <2>2. \A i \in 1..Len(reply) : R[i] = reply[i]
    BY DEF WithClose
  <2> HIDE DEF R
  <2>3. ASSUME NEW i \in 1..Len(R)
        PROVE  R[i].from = c /\ R[i].kind # "OPEN" /\ (R[i].kind = "CLOSE" => i = Len(R))
    <3>1. CASE i = Len(reply) + 1
      BY <2>1, <3>1 DEF Msg
    <3>2. CASE i # Len(reply) + 1
      <4>1. i \in 1..Len(reply)
        BY <2>1, <3>2
      <4> QED BY <2>2, <4>1 DEF Replies
    <3> QED BY <3>1, <3>2
  <2> QED BY <2>3
<1> HIDE DEF R
<1>3. A \o R \in Seq(Message)
  BY <1>1
<1>4. Line(c, c, g, "CLOSING", Q, A \o R, x, next, down)
  BY <1>1, <1>2, SharerSays
<1>5. T = A \o R
  BY DEF R
<1> QED BY <1>3, <1>4, <1>5

(* Session c replies, stops or begins to, and closes its channel; Q is left  *)
(* to be read, and y is how far it has come.                                 *)
LEMMA SharerHangsUp ==
  ASSUME IInv, NEW c \in Client, sharer[c] \in Live, NEW Q \in Seq(Message),
         toSharer' = [toSharer EXCEPT ![label[c]] = Q], NEW y,
         Line(c, c, gEnd[label[c]], "OPEN", Q, toGetter[label[c]], getter[c], y, lost),
         NEW next \in {"stopping", "stopped"}, sharer' = [sharer EXCEPT ![c] = next],
         Discard(IF next = "stopped" THEN {c} ELSE {}),
         web' \in [Client -> {"none", "connecting", "abandoned", "open", "gone", "closing", "closed"}],
         \A d \in Client : web'[d] = "abandoned" => web[d] = "abandoned",
         NEW reply \in Seq(Message), Replies(reply, c),
         SaysAndCloses(toGetter, sEnd, label[c], c, reply),
         fromWeb' \in [Client -> Nat],
         UNCHANGED <<getting, sUser, webSent, webGot, others, lost>>
  PROVE  IInv'
<1> DEFINE l == label[c]
           T == toGetter[l] \o WithClose(reply, c)
<1>1. /\ l \in Label /\ gUser[l] = c /\ sUser[l] = c /\ sEnd[l] = "OPEN"
      /\ toGetter[l] \in Seq(Message) /\ gEnd[l] \in EndState
  BY SharerAt, LineAt
<1>2. T \in Seq(Message) /\ Line(c, c, gEnd[l], "CLOSING", Q, T, getter[c], next, lost)
  <2>1. Line(c, c, gEnd[l], "OPEN", Q, toGetter[l], getter[c], y, lost)
    OBVIOUS
  <2> DEFINE A == toGetter[l]
             g == gEnd[l]
             x == getter[c]
  <2>2. A \in Seq(Message) /\ Line(c, c, g, "OPEN", Q, A, x, y, lost)
    BY <1>1, <2>1
  <2>3. T = A \o WithClose(reply, c)
    OBVIOUS
  <2> HIDE DEF T, A, g, x
  <2>4. T \in Seq(Message) /\ Line(c, c, g, "CLOSING", Q, T, x, next, lost)
    BY <2>2, <2>3, RepliesAndCloses
  <2> QED BY <2>4 DEF g, x
<1>4. /\ toGetter' = [toGetter EXCEPT ![l] = T]
      /\ sEnd' = [sEnd EXCEPT ![l] = "CLOSING"]
  BY <1>1 DEF SaysAndCloses, Says, WithClose
<1> HIDE DEF T
<1>5. sharer'[c] = next /\ \A d \in Client \ {c} : sharer'[d] = sharer[d]
  BY DEF IInv, TypeOK
<1>6. /\ toSharer'[l] = Q /\ sEnd'[l] = "CLOSING" /\ toGetter'[l] = T
      /\ \A m \in Label \ {l} :
           sEnd'[m] = sEnd[m] /\ toSharer'[m] = toSharer[m] /\ toGetter'[m] = toGetter[m]
  BY <1>1, <1>4 DEF IInv, TypeOK
<1>7. /\ Counts' /\ numSessions_' \in 0..SESSION_LIMIT
      /\ sessions_' \in [Label -> Client \cup {None}]
  <2> DEFINE D == IF next = "stopped" THEN {c} ELSE {}
  <2>1. D \in SUBSET Client /\ Discard(D) /\ \A d \in D : sharer[d] \in Counted
    BY DEF Live, Counted
  <2>2. \A d \in Client : sharer'[d] \in Counted <=> sharer[d] \in Counted /\ d \notin D
    BY <1>5 DEF Live, Counted
  <2> HIDE DEF D
  <2> QED BY <2>1, <2>2, Discards DEF getting
<1>8. TypeOK'
  <2>2. toSharer' \in [Label -> Seq(Message)] /\ toGetter' \in [Label -> Seq(Message)]
    BY <1>2, <1>4 DEF IInv, TypeOK
  <2>3. sEnd' \in [Label -> EndState]
    BY <1>4 DEF IInv, TypeOK, EndState
  <2>4. sharer' \in [Client -> {"none", "refused", "waiting", "connecting", "linked",
                                "stopping", "stopped"}]
    BY DEF IInv, TypeOK
  <2> QED BY <1>7, <2>2, <2>3, <2>4 DEF IInv, TypeOK, getting
<1>9. Users'
  <2>1. sharer'[c] \notin Live /\ label[c] # None
    BY <1>1, <1>5, SessionsAssumption DEF Live
  <2> QED BY <1>1, <1>5, <1>6, <2>1, SharerUsers DEF getting
<1>10. Lines'
  <2>1. sUser'[l] = c /\ \A m \in Label : sUser'[m] = sUser[m]
    BY <1>1
  <2> QED BY <1>1, <1>2, <1>5, <1>6, <2>1, SharerLine DEF getting
<1> QED BY <1>7, <1>8, <1>9, <1>10 DEF IInv

(* Session c sends messages on while it is linked, or as it becomes so. *)
LEMMA SharerSendsOn ==
  ASSUME IInv, NEW c \in Client, sharer[c] \in Live, sharer' = [sharer EXCEPT ![c] = "linked"],
         NEW reply \in Seq(Message), Replies(reply, c), Says(toGetter, sEnd, label[c], reply),
         fromWeb' \in [Client -> Nat], webSent' \in [Client -> 0..MaxAnswers],
         UNCHANGED <<getting, sUser, web, webGot, sEnd, sessions_, numSessions_, toSharer,
                     others, lost>>
  PROVE  IInv'
<1> DEFINE l == label[c]
<1>1. /\ l \in Label /\ gUser[l] = c /\ sUser[l] = c /\ sEnd[l] = "OPEN"
      /\ toGetter[l] \in Seq(Message) /\ toSharer[l] \in Seq(Message)
      /\ Line(c, c, gEnd[l], "OPEN", toSharer[l], toGetter[l], getter[c], sharer[c], lost)
  BY SharerAt, LineAt DEF Of
<1>2. toGetter' = [toGetter EXCEPT ![l] = toGetter[l] \o reply]
  BY <1>1 DEF Says
<1>3. sharer'[c] = "linked" /\ \A d \in Client \ {c} : sharer'[d] = sharer[d]
  BY DEF IInv, TypeOK
<1>4. /\ toGetter'[l] = toGetter[l] \o reply
      /\ \A m \in Label \ {l} : toGetter'[m] = toGetter[m]
  BY <1>1, <1>2 DEF IInv, TypeOK
<1>5. TypeOK'
  <2>1. toGetter[l] \o reply \in Seq(Message)
    BY <1>1
  <2>2. toGetter' \in [Label -> Seq(Message)]
    BY <1>2, <2>1 DEF IInv, TypeOK
  <2> QED BY <2>2 DEF IInv, TypeOK, getting
<1>6. Users'
  <2>1. sharer'[c] \in Live => sharer[c] \in Live /\ sEnd' = sEnd
    OBVIOUS
  <2>2. label[c] # None
    BY <1>1, SessionsAssumption
  <2> QED BY <1>1, <1>3, <2>1, <2>2, SharerUsers DEF getting
<1>7. Lines'
  <2>1. Line(c, c, gEnd[l], "OPEN", toSharer[l], toGetter[l] \o reply, getter[c], "linked", lost)
    <3>1. "linked" \notin Early
      BY DEF Early
    <3>2. \A i \in 1..Len(reply) :
            /\ reply[i].from = c /\ reply[i].kind # "OPEN"
            /\ reply[i].kind = "CLOSE" => i = Len(reply) /\ "OPEN" = "CLOSING"
      BY DEF Replies
    <3> HIDE DEF l
    <3> QED BY <1>1, <3>1, <3>2, SharerSays
  <2> QED BY <1>1, <1>3, <1>4, <2>1, SharerLine DEF getting
<1>8. Counts'
  <2>1. \A d \in Client : sharer'[d] \in Counted <=> sharer[d] \in Counted
    BY <1>3 DEF Live, Counted
  <2> QED BY <2>1, Uncounted DEF getting
<1> QED BY <1>5, <1>6, <1>7, <1>8 DEF IInv

LEMMA SharerOf ==
  ASSUME IInv, NEW l \in Label, sEnd[l] # "none"
  PROVE  sUser[l] \in Client /\ label[sUser[l]] = l
<1>1. sUser[l] # None /\ sUser[l] \in Client \cup {None}
  BY LineAt DEF Of, Line
<1> QED BY <1>1 DEF IInv, Users, Used

LEMMA Ends ==
  ASSUME IInv, NEW c \in Client, NEW reply, EndSharer(c, reply)
  PROVE  \E next \in {"stopping", "stopped"} :
           /\ sharer' = [sharer EXCEPT ![c] = next]
           /\ Discard(IF next = "stopped" THEN {c} ELSE {})
           /\ web' \in [Client -> {"none", "connecting", "abandoned", "open", "gone", "closing",
                                   "closed"}]
           /\ \A d \in Client : web'[d] = "abandoned" => web[d] = "abandoned"
           /\ SaysAndCloses(toGetter, sEnd, label[c], c, reply)
<1> DEFINE next == IF web[c] = "open" THEN "stopping" ELSE "stopped"
           slow == {} \cup {d \in {c} : web[d] = "open"}
<1>1. /\ sharer' = [d \in Client |-> IF d \in slow THEN "stopping"
                                     ELSE IF d \in {c} THEN "stopped" ELSE sharer[d]]
      /\ web' = [d \in Client |-> IF d \in {} THEN "abandoned"
                                  ELSE IF d \in slow THEN "closing" ELSE web[d]]
      /\ Discard({c} \ slow)
      /\ SaysAndCloses(toGetter, sEnd, label[c], c, reply)
  BY DEF EndSharer, StopResources
<1>2. /\ web[c] = "open" => slow = {c}
      /\ web[c] # "open" => slow = {}
  OBVIOUS
<1>3. {c} \ slow = IF next = "stopped" THEN {c} ELSE {}
  BY <1>2
<1>4. sharer' = [sharer EXCEPT ![c] = next]
  BY <1>1, <1>2 DEF IInv, TypeOK
<1>5. /\ web' \in [Client -> {"none", "connecting", "abandoned", "open", "gone", "closing", "closed"}]
      /\ \A d \in Client : web'[d] = "abandoned" => web[d] = "abandoned"
  BY <1>1 DEF IInv, TypeOK
<1>6. Discard(IF next = "stopped" THEN {c} ELSE {})
  BY <1>1, <1>3
<1>7. next \in {"stopping", "stopped"}
  OBVIOUS
<1> HIDE DEF next
<1> QED BY <1>1, <1>4, <1>5, <1>6, <1>7

(* Session c is over, with Q left to be read and y how far it has come. *)
LEMMA EndSharerKeeps ==
  ASSUME IInv, NEW c \in Client, sharer[c] \in Live, NEW Q \in Seq(Message),
         toSharer' = [toSharer EXCEPT ![label[c]] = Q], NEW y,
         Line(c, c, gEnd[label[c]], "OPEN", Q, toGetter[label[c]], getter[c], y, lost),
         NEW reply \in Seq(Message), Replies(reply, c), EndSharer(c, reply),
         fromWeb' \in [Client -> Nat],
         UNCHANGED <<getting, sUser, webSent, webGot, others, lost>>
  PROVE  IInv'
<1>1. PICK next \in {"stopping", "stopped"} :
        /\ sharer' = [sharer EXCEPT ![c] = next]
        /\ Discard(IF next = "stopped" THEN {c} ELSE {})
        /\ web' \in [Client -> {"none", "connecting", "abandoned", "open", "gone", "closing",
                                "closed"}]
        /\ \A d \in Client : web'[d] = "abandoned" => web[d] = "abandoned"
        /\ SaysAndCloses(toGetter, sEnd, label[c], c, reply)
  BY Ends
<1> QED BY <1>1, SharerHangsUp

LEMMA ReplyAlone ==
  ASSUME NEW c \in Client, NEW kind \in {"succeeded", "failure", "data"}
  PROVE  <<Msg(kind, c)>> \in Seq(Message) /\ Replies(<<Msg(kind, c)>>, c)
BY DEF Msg, Message, Replies

LEMMA RepliesJoin ==
  ASSUME NEW c \in Client, NEW H \in Seq(Message), NEW T \in Seq(Message), Replies(H, c),
         Replies(T, c), NEW R, R = H \o T
  PROVE  R \in Seq(Message) /\ Replies(R, c)
<1>1. /\ R \in Seq(Message) /\ Len(R) = Len(H) + Len(T) /\ Len(H) \in Nat /\ Len(T) \in Nat
      /\ \A i \in 1..Len(H) : R[i] = H[i]
      /\ \A i \in 1..Len(R) : i > Len(H) => R[i] = T[i - Len(H)] /\ i - Len(H) \in 1..Len(T)
  OBVIOUS
<1>2. ASSUME NEW i \in 1..Len(R) PROVE R[i].from = c /\ R[i].kind \notin {"OPEN", "CLOSE"}
  <2>1. CASE i > Len(H)
    BY <1>1, <2>1 DEF Replies
  <2>2. CASE ~(i > Len(H))
    BY <1>1, <2>2 DEF Replies
  <2> QED BY <2>1, <2>2
<1> QED BY <1>1, <1>2 DEF Replies

(* The sharer's end of l takes the first message of a session. *)
LEMMA ReceiveEndpointKeeps ==
  ASSUME IInv, NEW l \in Label, NEW c \in Client, c = sUser[l], ReceiveEndpoint(l)
  PROVE  IInv'
<1> DEFINE Q == Tail(toSharer[l])
<1>1. /\ sEnd[l] = "OPEN" /\ toSharer[l] # <<>> /\ Head(toSharer[l]).kind # "CLOSE"
      /\ sharer[c] = "waiting" /\ toSharer' = [toSharer EXCEPT ![l] = Q]
      /\ UNCHANGED <<getting, sUser, fromWeb, webSent, webGot, others, lost>>
  BY DEF ReceiveEndpoint, Takes
<1>2. c \in Client /\ label[c] = l /\ gUser[l] = c
  <2>1. c \in Client /\ label[c] = l
    BY <1>1, SharerOf
  <2>2. sharer[c] \in Live
    BY <1>1 DEF Live
  <2> QED BY <2>1, <2>2, SharerAt
<1>3. /\ toSharer[l] \in Seq(Message) /\ Q \in Seq(Message) /\ toGetter[l] \in Seq(Message)
      /\ Line(c, c, gEnd[l], "OPEN", toSharer[l], toGetter[l], getter[c], "waiting", lost)
  BY <1>1, <1>2, LineAt DEF Of
<1>4. Line(c, c, gEnd[l], "OPEN", Q, toGetter[l], getter[c], "connecting", lost)
  BY <1>1, <1>3, ReadsRequest
<1>5. fromWeb' \in [Client -> Nat]
  BY <1>1 DEF IInv, TypeOK
<1> HIDE DEF Q
<1>6. CASE EndSharer(c, <<Msg("failure", c)>>)
  <2> DEFINE reply == <<Msg("failure", c)>>
  <2>1. reply \in Seq(Message) /\ Replies(reply, c)
    BY <1>2, ReplyAlone
  <2>2. sharer[c] \in Live
    BY <1>1 DEF Live
  <2>3. EndSharer(c, reply)
    BY <1>6
  <2> HIDE DEF reply
  <2> DEFINE y == "connecting"
  <2>4. Line(c, c, gEnd[label[c]], "OPEN", Q, toGetter[label[c]], getter[c], y, lost)
    BY <1>2, <1>4
  <2>5. toSharer' = [toSharer EXCEPT ![label[c]] = Q]
    BY <1>1, <1>2
  <2> HIDE DEF y
  <2> QED BY <1>1, <1>2, <1>3, <1>5, <2>1, <2>2, <2>3, <2>4, <2>5, EndSharerKeeps
<1>7. CASE /\ sharer' = [sharer EXCEPT ![c] = "connecting"]
           /\ web' = [web EXCEPT ![c] = "connecting"]
           /\ UNCHANGED <<toGetter, sEnd, sessions_, numSessions_>>
  <2>1. TypeOK'
    BY <1>1, <1>3, <1>7 DEF IInv, TypeOK, getting
  <2>2. /\ sharer'[c] = "connecting" /\ \A d \in Client \ {c} : sharer'[d] = sharer[d]
        /\ \A d \in Client : web'[d] = "abandoned" => web[d] = "abandoned"
    BY <1>2, <1>7 DEF IInv, TypeOK
  <2>3. Users'
    <3>1. sharer[c] \in Live /\ label[c] # None
      BY <1>1, <1>2, SessionsAssumption DEF Live
    <3> QED BY <1>1, <1>2, <1>7, <2>2, <3>1, SharerUsers DEF getting
  <2>4. Lines'
    <3>1. toSharer'[l] = Q /\ \A m \in Label \ {l} : toSharer'[m] = toSharer[m]
      BY <1>1 DEF IInv, TypeOK
    <3> QED BY <1>1, <1>2, <1>4, <1>7, <2>2, <3>1, SharerLine DEF getting
  <2>5. Counts'
    <3>1. \A d \in Client : sharer'[d] \in Counted <=> sharer[d] \in Counted
      BY <1>1, <2>2 DEF Counted, Live
    <3> QED BY <1>1, <1>7, <3>1, Uncounted DEF getting
  <2> QED BY <2>1, <2>3, <2>4, <2>5 DEF IInv
<1>8. CASE EndSharer(sUser[l], <<Msg("failure", sUser[l])>>)
  <2>1. EndSharer(c, <<Msg("failure", c)>>)
    BY <1>8 DEF EndSharer, StopResources, SaysAndCloses, Says, Discard, Msg
  <2> QED BY <1>6, <2>1
<1> QED BY <1>7, <1>8 DEF ReceiveEndpoint

LEMMA ConnectedKeeps ==
  ASSUME IInv, NEW c \in Client, Connected(c)
  PROVE  IInv'
<1>1. /\ sharer[c] = "connecting"
      /\ UNCHANGED <<getting, sUser, webSent, webGot, toSharer, others, lost>>
  BY DEF Connected
<1>2. sharer[c] \in Live
  BY <1>1 DEF Live
<1> DEFINE Q == toSharer[label[c]]
<1>3. /\ Q \in Seq(Message) /\ toSharer' = [toSharer EXCEPT ![label[c]] = Q]
      /\ Line(c, c, gEnd[label[c]], "OPEN", Q, toGetter[label[c]], getter[c], sharer[c], lost)
  <2>1. /\ label[c] \in Label /\ sUser[label[c]] = c /\ sEnd[label[c]] = "OPEN"
        /\ gUser[label[c]] = c
    BY <1>2, SharerAt
  <2>2. Q \in Seq(Message) /\ Of(label[c])
    BY <2>1, LineAt
  <2>3. toSharer' = [toSharer EXCEPT ![label[c]] = Q]
    BY <1>1 DEF IInv, TypeOK
  <2> QED BY <2>1, <2>2, <2>3 DEF Of
<1> HIDE DEF Q
<1>4. CASE EndSharer(c, <<Msg("failure", c)>>) /\ UNCHANGED fromWeb
  <2> DEFINE reply == <<Msg("failure", c)>>
  <2>1. reply \in Seq(Message) /\ Replies(reply, c) /\ EndSharer(c, reply)
    BY <1>4, ReplyAlone
  <2>2. fromWeb' \in [Client -> Nat]
    BY <1>4 DEF IInv, TypeOK
  <2> HIDE DEF reply
  <2> QED BY <1>1, <1>2, <1>3, <2>1, <2>2, EndSharerKeeps
<1>5. CASE LinkSharer(c)
  <2> DEFINE reply == <<Msg("succeeded", c)>> \o Times(fromWeb[c], Msg("data", c))
  <2>1. reply \in Seq(Message) /\ Replies(reply, c)
    <3>1. fromWeb[c] \in Nat
      BY DEF IInv, TypeOK
    <3>2. /\ Times(fromWeb[c], Msg("data", c)) \in Seq(Message)
          /\ Len(Times(fromWeb[c], Msg("data", c))) = fromWeb[c]
          /\ \A i \in 1..fromWeb[c] : Times(fromWeb[c], Msg("data", c))[i] = Msg("data", c)
      <4>1. Msg("data", c) \in Message
        BY DEF Msg, Message
      <4> QED BY <3>1, <4>1 DEF Times
    <3> DEFINE T == Times(fromWeb[c], Msg("data", c))
               H == <<Msg("succeeded", c)>>
    <3>3. H \in Seq(Message) /\ Replies(H, c)
      BY ReplyAlone
    <3>4. T \in Seq(Message) /\ Replies(T, c)
      BY <3>2 DEF Replies, Msg
    <3>5. reply = H \o T
      OBVIOUS
    <3> HIDE DEF T, H, reply
    <3> QED BY <3>3, <3>4, <3>5, RepliesJoin
  <2>2. fromWeb' \in [Client -> Nat]
    BY <1>5 DEF LinkSharer, IInv, TypeOK
  <2>3. CASE web[c] = "gone"
    <3>1. EndSharer(c, reply)
      BY <1>5, <2>3 DEF LinkSharer
    <3> HIDE DEF reply
    <3> QED BY <1>1, <1>2, <1>3, <2>1, <2>2, <3>1, EndSharerKeeps
  <2>4. CASE web[c] # "gone"
    <3>1. /\ sharer' = [sharer EXCEPT ![c] = "linked"] /\ Says(toGetter, sEnd, label[c], reply)
          /\ UNCHANGED <<web, sEnd, sessions_, numSessions_>>
      BY <1>5, <2>4 DEF LinkSharer
    <3>2. webSent' \in [Client -> 0..MaxAnswers]
      BY <1>1 DEF IInv, TypeOK
    <3> HIDE DEF reply
    <3> QED BY <1>1, <1>2, <2>1, <2>2, <3>1, <3>2, SharerSendsOn
  <2> QED BY <2>3, <2>4
<1> QED BY <1>4, <1>5 DEF Connected

LEMMA NotConnectedKeeps ==
  ASSUME IInv, NEW c \in Client, NotConnected(c)
  PROVE  IInv'
<1>1. /\ sharer[c] = "connecting" /\ sharer' = [sharer EXCEPT ![c] = "stopped"]
      /\ web' = [web EXCEPT ![c] = "closed"] /\ Discard({c})
      /\ SaysAndCloses(toGetter, sEnd, label[c], c, <<Msg("failure", c)>>)
      /\ UNCHANGED <<getting, sUser, fromWeb, webSent, webGot, toSharer, others, lost>>
  BY DEF NotConnected
<1> DEFINE Q == toSharer[label[c]]
           reply == <<Msg("failure", c)>>
           next == "stopped"
<1>2. sharer[c] \in Live
  BY <1>1 DEF Live
<1>3. /\ Q \in Seq(Message) /\ toSharer' = [toSharer EXCEPT ![label[c]] = Q]
      /\ Line(c, c, gEnd[label[c]], "OPEN", Q, toGetter[label[c]], getter[c], sharer[c], lost)
  <2>1. /\ label[c] \in Label /\ sUser[label[c]] = c /\ sEnd[label[c]] = "OPEN"
        /\ gUser[label[c]] = c
    BY <1>2, SharerAt
  <2>2. Q \in Seq(Message) /\ Of(label[c])
    BY <2>1, LineAt
  <2>3. toSharer' = [toSharer EXCEPT ![label[c]] = Q]
    BY <1>1 DEF IInv, TypeOK
  <2> QED BY <2>1, <2>2, <2>3 DEF Of
<1>4. reply \in Seq(Message) /\ Replies(reply, c)
  BY ReplyAlone
<1>5. /\ web' \in [Client -> {"none", "connecting", "abandoned", "open", "gone", "closing", "closed"}]
      /\ \A d \in Client : web'[d] = "abandoned" => web[d] = "abandoned"
      /\ fromWeb' \in [Client -> Nat]
  BY <1>1 DEF IInv, TypeOK
<1>6. /\ next \in {"stopping", "stopped"} /\ sharer' = [sharer EXCEPT ![c] = next]
      /\ Discard(IF next = "stopped" THEN {c} ELSE {})
      /\ SaysAndCloses(toGetter, sEnd, label[c], c, reply)
  BY <1>1
<1> HIDE DEF Q, reply, next
<1> QED BY <1>1, <1>2, <1>3, <1>4, <1>5, <1>6, SharerHangsUp

(* A late answer finds the channel closed. *)
LEMMA AnsweredLateKeeps ==
  ASSUME IInv, NEW c \in Client, AnsweredLate(c)
  PROVE  IInv'
<1>1. /\ web[c] = "abandoned" /\ web' = [web EXCEPT ![c] = "closing"]
      /\ UNCHANGED <<getting, sharer, fromWeb, webSent, webGot, sessions_, numSessions_, sEnd,
                     sUser, toSharer, others, lost>>
  BY DEF AnsweredLate
<1>2. "sharer" \in lost
  BY <1>1 DEF IInv, Users, User
<1>3. \A l \in Label : sEnd[l] # "OPEN"
  <2> SUFFICES ASSUME NEW l \in Label, sEnd[l] = "OPEN" PROVE FALSE
    OBVIOUS
  <2> QED BY <1>2, LineAt DEF Of, Line
<1>4. toGetter' = toGetter
  <2>1. PICK kind \in {"succeeded", "failure"} : Says(toGetter, sEnd, label[c], <<Msg(kind, c)>>)
    BY DEF AnsweredLate
  <2> DEFINE T == <<Msg(kind, c)>>
  <2>2. toGetter' = [toGetter EXCEPT ![label[c]] = IF sEnd[label[c]] = "OPEN" THEN @ \o T ELSE @]
    BY <2>1 DEF Says
  <2> HIDE DEF T
  <2>3. CASE label[c] \in Label
    BY <1>3, <2>2, <2>3 DEF IInv, TypeOK
  <2>4. CASE label[c] \notin Label
    BY <2>2, <2>4 DEF IInv, TypeOK
  <2> QED BY <2>3, <2>4
<1>5. TypeOK'
  BY <1>1, <1>4 DEF IInv, TypeOK, getting
<1>6. Users' /\ Lines'
  <2>1. \A d \in Client : web'[d] = "abandoned" => web[d] = "abandoned"
    BY <1>1 DEF IInv, TypeOK
  <2> QED BY <1>1, <1>4, <2>1 DEF IInv, Users, Used, User, Lines, Of, getting
<1>7. Counts'
  BY <1>1, Uncounted DEF getting
<1> QED BY <1>5, <1>6, <1>7 DEF IInv

LEMMA StoppedKeeps ==
  ASSUME IInv, NEW c \in Client, Stopped(c)
  PROVE  IInv'
<1>1. /\ sharer[c] = "stopping" /\ web' = [web EXCEPT ![c] = "closed"]
      /\ sharer' = [sharer EXCEPT ![c] = "stopped"] /\ Discard({c})
      /\ UNCHANGED <<getting, fromWeb, webSent, webGot, sEnd, sUser, toSharer, toGetter, others,
                     lost>>
  BY DEF Stopped
<1>2. /\ sharer'[c] = "stopped" /\ \A d \in Client \ {c} : sharer'[d] = sharer[d]
      /\ \A d \in Client : web'[d] = "abandoned" => web[d] = "abandoned"
  BY <1>1 DEF IInv, TypeOK
<1>3. Counts' /\ numSessions_' \in 0..SESSION_LIMIT /\ sessions_' \in [Label -> Client \cup {None}]
  <2> DEFINE D == {c}
  <2>1. D \in SUBSET Client /\ Discard(D) /\ (\A d \in D : sharer[d] \in Counted)
        /\ UNCHANGED <<label, others>>
    BY <1>1 DEF Counted, getting
  <2>2. \A d \in Client : sharer'[d] \in Counted <=> sharer[d] \in Counted /\ d \notin D
    BY <1>2 DEF Counted, Live
  <2> HIDE DEF D
  <2> QED BY <2>1, <2>2, Discards
<1>4. TypeOK'
  BY <1>1, <1>3 DEF IInv, TypeOK, getting
<1>5. Users'
  <2>1. label[c] # None
    BY <1>1 DEF IInv, Users, User
  <2> QED BY <1>1, <1>2, <2>1, SharerUsers DEF getting, Live
<1>6. Lines'
  <2>1. \A d \in Client : SharerSettles(sharer[d], sharer'[d])
    BY <1>1, <1>2 DEF SharerSettles, Early
  <2>2. \A d \in Client : GetterSettles(getter[d], getter'[d])
    BY <1>1 DEF GetterSettles, getting
  <2> QED BY <1>1, <2>1, <2>2, Settled DEF getting
<1> QED BY <1>3, <1>4, <1>5, <1>6 DEF IInv

LEMMA WebKeeps ==
  ASSUME IInv, NEW c \in Client, WebConnects(c) \/ WebSends(c) \/ WebGone(c)
  PROVE  IInv'
<1>1. CASE sharer[c] = "linked" /\ WebSends(c)
  <2>1. /\ sharer' = [sharer EXCEPT ![c] = "linked"] /\ sharer[c] \in Live
        /\ fromWeb' \in [Client -> Nat] /\ webSent' \in [Client -> 0..MaxAnswers]
    BY <1>1, SessionsAssumption DEF WebSends, IInv, TypeOK, Live
  <2> DEFINE reply == <<Msg("data", c)>>
  <2>2. reply \in Seq(Message) /\ Replies(reply, c) /\ Says(toGetter, sEnd, label[c], reply)
    BY <1>1, ReplyAlone DEF WebSends
  <2> HIDE DEF reply
  <2>3. UNCHANGED <<getting, sUser, web, webGot, sEnd, sessions_, numSessions_, toSharer,
                    others, lost>>
    BY <1>1 DEF WebSends
  <2> QED BY <2>1, <2>2, <2>3, SharerSendsOn
<1>2. CASE sharer[c] = "linked" /\ WebGone(c)
  <2>1. /\ web' = [web EXCEPT ![c] = "gone"] /\ sharer' = [sharer EXCEPT ![c] = "stopped"]
        /\ Discard({c}) /\ SaysAndCloses(toGetter, sEnd, label[c], c, <<>>)
        /\ UNCHANGED <<getting, fromWeb, webSent, webGot, sUser, toSharer, others, lost>>
    BY <1>2 DEF WebGone
  <2> DEFINE Q == toSharer[label[c]]
             reply == <<>>
             next == "stopped"
  <2>2. sharer[c] \in Live
    BY <1>2 DEF Live
  <2>3. /\ Q \in Seq(Message) /\ toSharer' = [toSharer EXCEPT ![label[c]] = Q]
        /\ Line(c, c, gEnd[label[c]], "OPEN", Q, toGetter[label[c]], getter[c], sharer[c], lost)
    <3>1. /\ label[c] \in Label /\ sUser[label[c]] = c /\ sEnd[label[c]] = "OPEN"
          /\ gUser[label[c]] = c
      BY <2>2, SharerAt
    <3>2. Q \in Seq(Message) /\ Of(label[c])
      BY <3>1, LineAt
    <3>3. toSharer' = [toSharer EXCEPT ![label[c]] = Q]
      BY <2>1 DEF IInv, TypeOK
    <3> QED BY <3>1, <3>2, <3>3 DEF Of
  <2>4. reply \in Seq(Message) /\ Replies(reply, c)
    BY DEF Replies
  <2>5. /\ web' \in [Client -> {"none", "connecting", "abandoned", "open", "gone", "closing",
                                "closed"}]
        /\ \A d \in Client : web'[d] = "abandoned" => web[d] = "abandoned"
        /\ fromWeb' \in [Client -> Nat]
    BY <2>1 DEF IInv, TypeOK
  <2>6. /\ next \in {"stopping", "stopped"} /\ sharer' = [sharer EXCEPT ![c] = next]
        /\ Discard(IF next = "stopped" THEN {c} ELSE {})
        /\ SaysAndCloses(toGetter, sEnd, label[c], c, reply)
    BY <2>1
  <2> HIDE DEF Q, reply, next
  <2> QED BY <2>1, <2>2, <2>3, <2>4, <2>5, <2>6, SharerHangsUp
<1>3. CASE WebConnects(c) \/ sharer[c] # "linked"
  <2>1. UNCHANGED <<getting, sharer, webGot, sessions_, numSessions_, sEnd, sUser, toSharer,
                    toGetter, others, lost>>
    BY <1>3 DEF WebConnects, WebSends, WebGone
  <2>2. TypeOK'
    <3>1. CASE WebConnects(c)
      BY <2>1, <3>1 DEF WebConnects, IInv, TypeOK, getting
    <3>2. CASE WebSends(c) /\ sharer[c] # "linked"
      <4>1. /\ webSent' = [webSent EXCEPT ![c] = webSent[c] + 1] /\ webSent[c] < MaxAnswers
            /\ fromWeb' = [fromWeb EXCEPT ![c] = fromWeb[c] + 1] /\ UNCHANGED web
        BY <3>2 DEF WebSends
      <4>2. webSent' \in [Client -> 0..MaxAnswers] /\ fromWeb' \in [Client -> Nat]
        BY <4>1, SessionsAssumption DEF IInv, TypeOK
      <4> QED BY <2>1, <4>1, <4>2 DEF IInv, TypeOK, getting
    <3>3. CASE WebGone(c)
      BY <2>1, <3>3 DEF WebGone, IInv, TypeOK, getting
    <3> QED BY <1>3, <3>1, <3>2, <3>3
  <2>3. \A d \in Client : web'[d] = "abandoned" => web[d] = "abandoned"
    BY <1>3 DEF WebConnects, WebSends, WebGone, IInv, TypeOK
  <2>4. Users' /\ Lines'
    BY <2>1, <2>3 DEF IInv, Users, Used, User, Lines, Of, getting
  <2>5. Counts'
    BY <2>1, Uncounted DEF getting
  <2> QED BY <2>2, <2>4, <2>5 DEF IInv
<1> QED BY <1>1, <1>2, <1>3

(* A sharer's end that is closing, or linked, takes a message. *)
LEMMA SharerTakes ==
  ASSUME IInv, NEW l \in Label, toSharer[l] # <<>>, Head(toSharer[l]).kind # "CLOSE",
         \/ sEnd[l] = "CLOSING"
         \/ sEnd[l] = "OPEN" /\ sharer[sUser[l]] = "linked",
         Takes(toSharer, l), webGot' \in [Client -> Nat],
         UNCHANGED <<getting, sharer, web, fromWeb, webSent, sessions_, numSessions_, sEnd, sUser,
                     toGetter, others, lost>>
  PROVE  IInv'
<1>1. /\ toSharer' = [toSharer EXCEPT ![l] = Tail(toSharer[l])]
      /\ toGetter[l] \in Seq(Message) /\ toSharer[l] \in Seq(Message) /\ Of(l)
      /\ gUser[l] \in Client \cup {None}
  BY LineAt DEF Takes
<1>2. Tail(toSharer[l]) \in Seq(Message)
  BY <1>1
<1>3. TypeOK'
  BY <1>1, <1>2 DEF IInv, TypeOK, getting
<1>4. Users'
  BY DEF IInv, Users, Used, User, getting
<1>5. gUser[l] \in Client /\ sharer[gUser[l]] \notin Early
  <2>1. gUser[l] \in Client
    BY <1>1 DEF Of, Line
  <2>2. label[gUser[l]] = l
    BY <2>1, SessionsAssumption DEF IInv, Users, Used, Client
  <2>3. ASSUME sharer[gUser[l]] \in Early PROVE FALSE
    <3>1. sUser[l] = gUser[l] /\ sEnd[l] = "OPEN"
      BY <2>1, <2>2, <2>3, SharerAt DEF Early, Live
    <3> QED BY <2>3, <3>1 DEF Early
  <2> QED BY <2>1, <2>3
<1>6. Lines'
  <2> SUFFICES ASSUME NEW m \in Label PROVE Of(m)'
    BY DEF Lines
  <2>1. CASE m = l
    <3>1. Line(gUser[l], sUser[l], gEnd[l], sEnd[l], Tail(toSharer[l]), toGetter[l],
               getter[gUser[l]], sharer[gUser[l]], lost)
      <4> DEFINE u == gUser[l]
                 s == sEnd[l]
                 Q == toSharer[l]
                 y == sharer[u]
      <4>1. /\ Line(u, sUser[l], gEnd[l], s, Q, toGetter[l], getter[u], y, lost)
            /\ s \in {"OPEN", "CLOSING"} /\ Q \in Seq(Message) /\ toGetter[l] \in Seq(Message)
            /\ Q # <<>> /\ Head(Q).kind # "CLOSE" /\ y \notin Early
        BY <1>1, <1>5 DEF Of
      <4> HIDE DEF u, s, Q, y
      <4>2. Line(u, sUser[l], gEnd[l], s, Tail(Q), toGetter[l], getter[u], y, lost)
        BY <4>1, TakesQuestion
      <4> QED BY <4>2 DEF u, s, Q, y
    <3> QED BY <1>1, <2>1, <3>1 DEF Of, IInv, TypeOK, getting
  <2>2. CASE m # l
    BY <1>1, <2>2, LineAt DEF Of, IInv, TypeOK, getting
  <2> QED BY <2>1, <2>2
<1>7. Counts'
  BY Uncounted DEF getting
<1> QED BY <1>3, <1>4, <1>6, <1>7 DEF IInv

(* StopResources of sessions of which D have stopped at once. *)
LEMMA StopsSharers ==
  ASSUME IInv, NEW S \in SUBSET Client, \A c \in S : sharer[c] \in Live, StopSharer(S),
         UNCHANGED <<label, others>>
  PROVE  /\ Counts' /\ numSessions_' \in 0..SESSION_LIMIT
         /\ sessions_' \in [Label -> Client \cup {None}]
         /\ sharer' \in [Client -> {"none", "refused", "waiting", "connecting", "linked",
                                    "stopping", "stopped"}]
         /\ web' \in [Client -> {"none", "connecting", "abandoned", "open", "gone", "closing",
                                 "closed"}]
         /\ \A c \in Client : c \notin S => sharer'[c] = sharer[c]
         /\ \A c \in S : sharer'[c] \in {"stopping", "stopped"}
         /\ \A c \in Client :
              web'[c] = "abandoned" => web[c] = "abandoned" \/ (c \in S /\ sharer[c] = "connecting")
<1> DEFINE pending == {c \in S : sharer[c] = "connecting"}
           slow == pending \cup {c \in S : web[c] = "open"}
           D == S \ slow
<1>1. /\ sharer' = [c \in Client |-> IF c \in slow THEN "stopping"
                                     ELSE IF c \in S THEN "stopped" ELSE sharer[c]]
      /\ web' = [c \in Client |-> IF c \in pending THEN "abandoned"
                                  ELSE IF c \in slow THEN "closing" ELSE web[c]]
      /\ Discard(D)
  BY DEF StopSharer, StopResources
<1>2. D \in SUBSET Client /\ \A c \in D : sharer[c] \in Counted
  BY DEF Counted
<1>3. \A c \in Client : sharer'[c] \in Counted <=> sharer[c] \in Counted /\ c \notin D
  BY <1>1 DEF Counted, Live
<1>4. /\ Counts' /\ numSessions_' \in 0..SESSION_LIMIT
      /\ sessions_' \in [Label -> Client \cup {None}]
  <2> HIDE DEF D
  <2> QED BY <1>1, <1>2, <1>3, Discards
<1>5. /\ sharer' \in [Client -> {"none", "refused", "waiting", "connecting", "linked",
                                 "stopping", "stopped"}]
      /\ web' \in [Client -> {"none", "connecting", "abandoned", "open", "gone", "closing",
                              "closed"}]
  BY <1>1 DEF IInv, TypeOK
<1>6. /\ \A c \in Client : c \notin S => sharer'[c] = sharer[c]
      /\ \A c \in S : sharer'[c] \in {"stopping", "stopped"}
  BY <1>1
<1>7. \A c \in Client :
        web'[c] = "abandoned" => web[c] = "abandoned" \/ (c \in S /\ sharer[c] = "connecting")
  BY <1>1
<1> QED BY <1>4, <1>5, <1>6, <1>7

LEMMA SharerClosedKeeps ==
  ASSUME IInv, NEW l \in Label, NEW v \in Client, v = sUser[l], SharerClosed(l)
  PROVE  IInv'
<1> DEFINE Q == toSharer[l]
           A == toGetter[l]
           T == IF sEnd[l] = "OPEN" THEN A \o <<Msg("CLOSE", v)>> ELSE A
           S == {v} \cap {c \in Client : sharer[c] \in Live}
           u == gUser[l]
<1>1. /\ sEnd[l] \in {"OPEN", "CLOSING"} /\ Q # <<>> /\ Head(Q).kind = "CLOSE"
      /\ toGetter' = [toGetter EXCEPT ![l] = T] /\ sEnd' = [sEnd EXCEPT ![l] = "CLOSED"]
      /\ toSharer' = [toSharer EXCEPT ![l] = Tail(Q)]
      /\ UNCHANGED <<getting, fromWeb, webSent, webGot, sUser, others, lost>>
  BY DEF SharerClosed, Takes, Says
<1>2. StopSharer(S)
  BY DEF SharerClosed, StopSharer, StopResources, Discard
<1>3. /\ Q \in Seq(Message) /\ A \in Seq(Message) /\ u \in Client \cup {None}
      /\ Line(u, v, gEnd[l], sEnd[l], Q, A, getter[u], sharer[u], lost)
  BY LineAt DEF Of
<1>4. label[v] = l /\ u \in Client /\ "sharer" \notin lost
  <2>1. label[v] = l
    BY <1>1, SharerOf
  <2>2. u # None /\ "sharer" \notin lost
    BY <1>1, <1>3 DEF Line
  <2> QED BY <1>3, <2>1, <2>2
<1>5. T \in Seq(Message) /\ Tail(Q) \in Seq(Message)
      /\ (sEnd[l] = "OPEN" => T = Append(A, Msg("CLOSE", v))) /\ (sEnd[l] = "CLOSING" => T = A)
  BY <1>1, <1>3, Saying
<1> HIDE DEF Q, A, T, S, u
<1>6. /\ Counts' /\ numSessions_' \in 0..SESSION_LIMIT
      /\ sessions_' \in [Label -> Client \cup {None}]
      /\ sharer' \in [Client -> {"none", "refused", "waiting", "connecting", "linked",
                                 "stopping", "stopped"}]
      /\ web' \in [Client -> {"none", "connecting", "abandoned", "open", "gone", "closing",
                              "closed"}]
      /\ \A c \in Client : c \notin S => sharer'[c] = sharer[c]
      /\ \A c \in S : sharer'[c] \in {"stopping", "stopped"}
      /\ \A c \in Client :
           web'[c] = "abandoned" => web[c] = "abandoned" \/ (c \in S /\ sharer[c] = "connecting")
  <2>1. S \in SUBSET Client /\ \A c \in S : sharer[c] \in Live
    BY DEF S
  <2>2. UNCHANGED <<label, others>>
    BY <1>1 DEF getting
  <2> QED BY <1>2, <2>1, <2>2, StopsSharers
<1>7. \A c \in Client \ {v} : sharer'[c] = sharer[c]
  BY <1>6 DEF S
<1>8. sharer'[v] \notin Live
  BY <1>6 DEF S, Live
<1>9. \A c \in Client : web'[c] = "abandoned" => web[c] = "abandoned"
  <2>1. ASSUME v \in S PROVE sharer[v] # "connecting"
    <3>1. sEnd[l] = "OPEN" /\ u = v
      BY <1>4, <2>1, SharerAt DEF S, u
    <3> QED BY <1>1, <1>3, <1>4, <3>1 DEF Line, Questions, Heard
  <2> QED BY <1>6, <2>1 DEF S
<1>10. TypeOK'
  BY <1>1, <1>3, <1>5, <1>6 DEF IInv, TypeOK, EndState, getting
<1>11. Users'
  <2>1. label[v] # None
    BY <1>4, SessionsAssumption
  <2>2. /\ sEnd'[l] = "CLOSED" /\ \A m \in Label \ {l} : sEnd'[m] = sEnd[m]
    BY <1>1 DEF IInv, TypeOK
  <2> QED BY <1>1, <1>4, <1>7, <1>8, <1>9, <2>1, <2>2, SharerUsers DEF getting
<1>12. Lines'
  <2>1. u = v => sharer'[u] \notin Early
    BY <1>8 DEF Live, Early
  <2>2. u # v => sharer'[u] = sharer[u]
    BY <1>4, <1>7
  <2>3. Line(u, v, gEnd[l], "CLOSED", Tail(Q), T, getter[u], sharer'[u], lost)
    BY <1>1, <1>3, <1>5, <2>1, <2>2, SharerHearsClose
  <2>4. toGetter'[l] = T /\ sEnd'[l] = "CLOSED" /\ toSharer'[l] = Tail(Q)
    BY <1>1 DEF IInv, TypeOK
  <2>5. ASSUME NEW m \in Label PROVE Of(m)'
    <3>1. CASE m = l
      BY <1>1, <2>3, <2>4, <3>1 DEF Of, getting, u
    <3>2. CASE m # l
      <4>1. Untouched(m)
        BY <1>1, <3>2 DEF Untouched, IInv, TypeOK, getting
      <4> QED BY <1>1, <1>4, <1>7, <3>2, <4>1, Elsewhere DEF getting
    <3> QED BY <3>1, <3>2
  <2> QED BY <2>5 DEF Lines
<1> QED BY <1>6, <1>10, <1>11, <1>12 DEF IInv

LEMMA onPeerOpenedChannelKeeps ==
  ASSUME IInv, NEW l \in Label, NEW c, c = Head(toSharer[l]).from, onPeerOpenedChannel_(l)
  PROVE  IInv'
<1> DEFINE Q == toSharer[l]
           A == toGetter[l]
           T == Append(A, Msg("CLOSE", c))
<1>1. /\ "sharer" \notin lost /\ sEnd[l] \in {"none", "CLOSED"} /\ Q # <<>>
      /\ toSharer' = [toSharer EXCEPT ![l] = Tail(Q)] /\ sUser' = [sUser EXCEPT ![l] = c]
      /\ (numSessions_ < SESSION_LIMIT /\ Accept(c, l)) \/ Refuse(c, l)
      /\ UNCHANGED <<getting, web, fromWeb, webSent, webGot, others, lost>>
  BY DEF onPeerOpenedChannel_, Takes, Accept, Refuse, Msg
<1>2. /\ Q \in Seq(Message) /\ A \in Seq(Message) /\ gUser[l] \in Client \cup {None}
      /\ Line(gUser[l], sUser[l], gEnd[l], sEnd[l], Q, A, getter[gUser[l]], sharer[gUser[l]], lost)
  BY LineAt DEF Of
<1>3. /\ gEnd[l] # "none" /\ gUser[l] # sUser[l]
      /\ Unheard(gUser[l], gEnd[l], sEnd[l], Q, getter[gUser[l]], 1)
      /\ Line(gUser[l], gUser[l], gEnd[l], "OPEN", Tail(Q), A, getter[gUser[l]], "waiting", lost)
      /\ gUser[l] = c =>
           Line(c, c, gEnd[l], "CLOSING", Tail(Q), T, getter[c], "refused", lost)
  <2> DEFINE u == gUser[l]
             v == sUser[l]
             g == gEnd[l]
             s == sEnd[l]
             x == getter[u]
             y == sharer[u]
  <2>1. /\ Line(u, v, g, s, Q, A, x, y, lost) /\ s \in {"none", "CLOSED"}
        /\ Q \in Seq(Message) /\ A \in Seq(Message) /\ Q # <<>> /\ "sharer" \notin lost
    BY <1>1, <1>2
  <2>5. u = c => T = Append(A, Msg("CLOSE", u))
    OBVIOUS
  <2> HIDE DEF u, v, g, s, x, y, Q, A, T
  <2>2. g # "none" /\ u # v /\ Unheard(u, g, s, Q, x, 1)
    BY <2>1, NextSession
  <2>3. Line(u, u, g, "OPEN", Tail(Q), A, x, "waiting", lost)
    BY <2>1, Accepts
  <2>4. u = c => Line(u, u, g, "CLOSING", Tail(Q), T, x, "refused", lost)
    BY <2>1, <2>5, Refuses
  <2> QED BY <2>2, <2>3, <2>4 DEF u, v, g, s, x
<1>4. gUser[l] = c /\ c \in Client /\ label[c] = l /\ sharer[c] = "none"
  <2>1. Head(Q) = Q[1]
    BY <1>1, <1>2, TailAt
  <2>2. gUser[l] = c
    BY <1>3, <2>1 DEF Unheard
  <2>3. gUser[l] \in Client
    BY <1>2, <1>3 DEF Line
  <2>4. label[gUser[l]] = l
    BY <2>3, SessionsAssumption DEF IInv, Users, Used, Client
  <2>5. sharer[gUser[l]] = "none"
    BY <1>1, <1>2, <1>3 DEF Line, Questions
  <2> QED BY <2>2, <2>3, <2>4, <2>5
<1>5. Tail(Q) \in Seq(Message)
  BY <1>1, <1>2
<1> HIDE DEF Q, A, T
<1>6. \A m \in Label \ {l} : toSharer'[m] = toSharer[m] /\ sUser'[m] = sUser[m]
  BY <1>1 DEF IInv, TypeOK
<1>7. toSharer'[l] = Tail(Q) /\ sUser'[l] = c
  BY <1>1 DEF IInv, TypeOK
<1>8. \A m \in Label : sUser[m] = c => m = l
  BY <1>4, SessionsAssumption DEF IInv, Users, Used, Client
<1>9. ASSUME NEW end \in {"OPEN", "CLOSING"}, NEW y \in {"waiting", "refused"},
             end = "OPEN" <=> y = "waiting",
             sEnd' = [sEnd EXCEPT ![l] = end], sharer' = [sharer EXCEPT ![c] = y]
      PROVE  Users'
  <2>1. ASSUME NEW m \in Label PROVE Used(m)'
    BY <1>1, <1>4, <1>6, <1>7, <2>1 DEF IInv, Users, Used, getting
  <2>2. ASSUME NEW d \in Client PROVE User(d)'
    <3>0. User(d)
      BY DEF IInv, Users
    <3>1. CASE d = c
      BY <1>1, <1>4, <1>7, <1>9, <3>0, <3>1, SessionsAssumption DEF User, getting, Live, IInv, TypeOK
    <3>2. CASE d # c
      <4>1. sharer'[d] = sharer[d]
        BY <1>9, <3>2 DEF IInv, TypeOK
      <4>2. ASSUME sharer[d] \in Live
            PROVE  sEnd'[label[d]] = sEnd[label[d]] /\ sUser'[label[d]] = sUser[label[d]]
        <5>1. label[d] \in Label /\ sEnd[label[d]] = "OPEN"
          BY <4>2, SharerAt
        <5> QED BY <1>1, <1>6, <1>9, <5>1 DEF IInv, TypeOK
      <4> QED BY <1>1, <3>0, <4>1, <4>2 DEF User, getting
    <3> QED BY <3>1, <3>2
  <2> QED BY <2>1, <2>2 DEF Users
<1>10. CASE numSessions_ < SESSION_LIMIT /\ Accept(c, l)
  <2>1. /\ numSessions_' = numSessions_ + 1 /\ sessions_' = [sessions_ EXCEPT ![l] = c]
        /\ sharer' = [sharer EXCEPT ![c] = "waiting"] /\ sEnd' = [sEnd EXCEPT ![l] = "OPEN"]
        /\ toGetter' = toGetter
    BY <1>10 DEF Accept
  <2>2. TypeOK'
    <3>1. numSessions_' \in 0..SESSION_LIMIT
      BY <1>10, <2>1, SessionsAssumption DEF IInv, TypeOK
    <3> QED BY <1>1, <1>4, <1>5, <3>1, <2>1, SessionsAssumption DEF IInv, TypeOK, EndState, getting
  <2>3. Users'
    BY <1>9, <2>1
  <2>4. sharer'[c] = "waiting" /\ \A d \in Client \ {c} : sharer'[d] = sharer[d]
    BY <1>4, <2>1 DEF IInv, TypeOK
  <2>5. Lines'
    <3>1. Line(c, c, gEnd[l], "OPEN", Tail(Q), A, getter[c], "waiting", lost)
      BY <1>3, <1>4
    <3>2. sEnd'[l] = "OPEN" /\ \A m \in Label \ {l} : sEnd'[m] = sEnd[m]
      BY <2>1 DEF IInv, TypeOK
    <3>3. gUser[label[c]] = c /\ toGetter[l] = A
      BY <1>4 DEF A
    <3>4. /\ \A m \in Label \ {label[c]} :
              /\ sUser'[m] = sUser[m] /\ sEnd'[m] = sEnd[m]
              /\ toSharer'[m] = toSharer[m] /\ toGetter'[m] = toGetter[m]
          /\ Line(c, sUser'[label[c]], gEnd[label[c]], sEnd'[label[c]], toSharer'[label[c]],
                  toGetter'[label[c]], getter[c], sharer'[c], lost)
      BY <1>4, <1>6, <1>7, <2>1, <2>4, <3>1, <3>2, <3>3
    <3>5. UNCHANGED <<gUser, gEnd, getter, lost>>
      BY <1>1 DEF getting
    <3> QED BY <1>4, <2>4, <3>3, <3>4, <3>5, SharerLine
  <2>6. Counts'
    <3>1. Counting' = Counting \cup {c} /\ c \notin Counting /\ IsFiniteSet(Counting)
      BY <1>4, <2>4, Countable DEF Counting, Counted, Live
    <3>2. Cardinality(Counting') = Cardinality(Counting) + 1
      BY <3>1, FS_AddElement
    <3>3. numSessions_ - others = Cardinality(Counting)
      BY DEF IInv, Counts, CountIsLive, Counting, Counted
    <3>4. numSessions_' - others' = Cardinality(Counting')
      <4>1. Cardinality(Counting) \in Nat /\ numSessions_ \in Nat /\ others \in Nat
        BY Countable, SessionsAssumption DEF Counting, IInv, TypeOK
      <4> QED BY <1>1, <2>1, <3>2, <3>3, <4>1
    <3>5. ASSUME NEW m \in Label, sessions_'[m] # None
          PROVE  sharer'[sessions_'[m]] \in Counted /\ label'[sessions_'[m]] = m
      <4>1. CASE m = l
        BY <1>1, <1>4, <2>1, <2>4, <4>1 DEF Counted, Live, IInv, TypeOK, getting
      <4>2. CASE m # l
        <5>1. sessions_'[m] = sessions_[m]
          BY <2>1, <4>2 DEF IInv, TypeOK
        <5>2. /\ sessions_[m] \in Client /\ sharer[sessions_[m]] \in Counted
              /\ label[sessions_[m]] = m
          BY <3>5, <5>1 DEF IInv, TypeOK, Counts, CountIsLive, Counted
        <5> QED BY <1>1, <1>4, <2>4, <4>2, <5>1, <5>2 DEF getting
      <4> QED BY <4>1, <4>2
    <3> QED BY <3>4, <3>5 DEF Counts, CountIsLive, Counting, Counted
  <2> QED BY <2>2, <2>3, <2>5, <2>6 DEF IInv
<1>11. CASE Refuse(c, l)
  <2>1. /\ UNCHANGED <<numSessions_, sessions_>>
        /\ sharer' = [sharer EXCEPT ![c] = "refused"] /\ sEnd' = [sEnd EXCEPT ![l] = "CLOSING"]
        /\ toGetter' = [toGetter EXCEPT ![l] = T]
    BY <1>11 DEF Refuse, A, T
  <2>2. T \in Seq(Message)
    BY <1>2, <1>4, Saying DEF T
  <2>3. TypeOK'
    BY <1>1, <1>4, <1>5, <2>1, <2>2 DEF IInv, TypeOK, EndState, getting
  <2>4. Users'
    BY <1>9, <2>1
  <2>5. sharer'[c] = "refused" /\ \A d \in Client \ {c} : sharer'[d] = sharer[d]
    BY <1>4, <2>1 DEF IInv, TypeOK
  <2>6. Lines'
    <3>1. Line(c, c, gEnd[l], "CLOSING", Tail(Q), T, getter[c], "refused", lost)
      BY <1>3, <1>4
    <3>2. sEnd'[l] = "CLOSING" /\ toGetter'[l] = T
          /\ \A m \in Label \ {l} : sEnd'[m] = sEnd[m] /\ toGetter'[m] = toGetter[m]
      BY <2>1 DEF IInv, TypeOK, T
    <3>3. gUser[label[c]] = c
      BY <1>4
    <3>4. /\ \A m \in Label \ {label[c]} :
              /\ sUser'[m] = sUser[m] /\ sEnd'[m] = sEnd[m]
              /\ toSharer'[m] = toSharer[m] /\ toGetter'[m] = toGetter[m]
          /\ Line(c, sUser'[label[c]], gEnd[label[c]], sEnd'[label[c]], toSharer'[label[c]],
                  toGetter'[label[c]], getter[c], sharer'[c], lost)
      BY <1>4, <1>6, <1>7, <2>5, <3>1, <3>2
    <3>5. UNCHANGED <<gUser, gEnd, getter, lost>>
      BY <1>1 DEF getting
    <3> QED BY <1>4, <2>5, <3>3, <3>4, <3>5, SharerLine
  <2>7. Counts'
    <3>1. \A d \in Client : sharer'[d] \in Counted <=> sharer[d] \in Counted
      BY <1>4, <2>5 DEF Counted, Live
    <3> QED BY <1>1, <2>1, <3>1, Uncounted DEF getting
  <2> QED BY <2>3, <2>4, <2>6, <2>7 DEF IInv
<1> QED BY <1>1, <1>10, <1>11

LEMMA StopRtcToNetKeeps ==
  ASSUME IInv, StopRtcToNet
  PROVE  IInv'
<1> DEFINE S == {c \in Client : sharer[c] \in Live}
<1>1. /\ "sharer" \notin lost /\ lost' = lost \cup {"sharer"} /\ StopSharer(S)
      /\ sEnd' = [l \in Label |-> IF sEnd[l] = "none" THEN "none" ELSE "PERMANENTLY_CLOSED"]
      /\ toSharer' = [l \in Label |-> <<>>]
      /\ UNCHANGED <<getting, fromWeb, webSent, webGot, sUser, toGetter, others>>
  BY DEF StopRtcToNet
<1>2. /\ Counts' /\ numSessions_' \in 0..SESSION_LIMIT
      /\ sessions_' \in [Label -> Client \cup {None}]
      /\ sharer' \in [Client -> {"none", "refused", "waiting", "connecting", "linked",
                                 "stopping", "stopped"}]
      /\ web' \in [Client -> {"none", "connecting", "abandoned", "open", "gone", "closing",
                              "closed"}]
      /\ \A c \in Client : c \notin S => sharer'[c] = sharer[c]
      /\ \A c \in S : sharer'[c] \in {"stopping", "stopped"}
  <2>1. S \in SUBSET Client /\ \A c \in S : sharer[c] \in Live
    OBVIOUS
  <2>2. UNCHANGED <<label, others>>
    BY <1>1 DEF getting
  <2> HIDE DEF S
  <2> QED BY <1>1, <2>1, <2>2, StopsSharers
<1>3. TypeOK'
  BY <1>1, <1>2 DEF IInv, TypeOK, EndState, getting
<1>4. \A c \in Client : /\ sharer'[c] \notin Live
                        /\ sharer'[c] = sharer[c] \/ (sharer'[c] \notin Early /\ sharer[c] # "none")
  BY <1>2 DEF Live, Early
<1>5. Users'
  <2>1. ASSUME NEW l \in Label PROVE Used(l)'
    BY <1>1 DEF IInv, Users, Used, getting
  <2>2. ASSUME NEW c \in Client PROVE User(c)'
    <3>1. User(c)
      BY DEF IInv, Users
    <3> QED BY <1>1, <1>4, <3>1 DEF User, getting
  <2> QED BY <2>1, <2>2 DEF Users
<1>6. Lines'
  <2> SUFFICES ASSUME NEW l \in Label PROVE Of(l)'
    BY DEF Lines
  <2> DEFINE x == getter[gUser[l]]
             y == sharer[gUser[l]]
             y2 == sharer'[gUser[l]]
  <2>1. /\ Line(gUser[l], sUser[l], gEnd[l], sEnd[l], toSharer[l], toGetter[l], x, y, lost)
        /\ toSharer[l] \in Seq(Message) /\ toGetter[l] \in Seq(Message)
        /\ gUser[l] \in Client \cup {None}
    BY LineAt DEF Of
  <2>2. CASE gUser[l] \in Client
    <3>1. y2 = y \/ y2 \notin Early
      BY <1>4, <2>2
    <3> HIDE DEF x, y, y2
    <3>2. Line(gUser[l], sUser[l], gEnd[l], IF sEnd[l] = "none" THEN "none"
               ELSE "PERMANENTLY_CLOSED", <<>>, toGetter[l], x, y2, lost \cup {"sharer"})
      BY <1>1, <2>1, <3>1, SharerGoes
    <3> QED BY <1>1, <3>2 DEF Of, getting, x, y2
  <2>3. CASE gUser[l] = None
    <3>1. gEnd[l] = "none" /\ sEnd[l] = "none" /\ sUser[l] = None /\ toGetter[l] = <<>>
      BY <2>1, <2>3 DEF Line
    <3>2. sEnd'[l] = "none" /\ toSharer'[l] = <<>>
      BY <1>1, <3>1
    <3> QED BY <1>1, <2>3, <3>1, <3>2 DEF Of, Line, getting
  <2> QED BY <2>1, <2>2, <2>3
<1> QED BY <1>2, <1>3, <1>5, <1>6 DEF IInv

-----------------------------------------------------------------------------
LEMMA IInvInit == Init => IInv
<1> SUFFICES ASSUME Init PROVE IInv
  OBVIOUS
<1>1. TypeOK
  BY SessionsAssumption DEF Init, TypeOK, EndState
<1>2. Users
  BY DEF Init, Users, Used, User, Talking, Live
<1>3. Lines
  BY DEF Init, Lines, Of, Line
<1>4. Counts
  <2>1. {c \in Client : sharer[c] \in Live \cup {"stopping"}} = {}
    BY DEF Init, Live
  <2>2. numSessions_ - others = 0
    BY SessionsAssumption DEF Init
  <2> QED BY <2>1, <2>2, FS_EmptySet DEF Counts, CountIsLive, Init
<1> QED BY <1>1, <1>2, <1>3, <1>4 DEF IInv

LEMMA IInvStep == IInv /\ [Next]_vars => IInv'
<1> SUFFICES ASSUME IInv, [Next]_vars PROVE IInv'
  OBVIOUS
<1>1. CASE UNCHANGED vars
  BY <1>1 DEF vars, getting, sharing, IInv, TypeOK, Users, Used, User, Lines, Of, Counts, CountIsLive
<1>2. ASSUME NEW c \in Client, SharerStep(c) PROVE IInv'
  BY <1>2, ConnectedKeeps, NotConnectedKeeps, AnsweredLateKeeps, StoppedKeeps DEF SharerStep
<1>3. ASSUME NEW l \in Label, SharerReceives(l) PROVE IInv'
  <2>1. CASE ReceiveEndpoint(l)
    BY <2>1, SharerOf, ReceiveEndpointKeeps DEF ReceiveEndpoint
  <2>2. CASE SharerClosed(l)
    BY <2>2, SharerOf, SharerClosedKeeps DEF SharerClosed
  <2>3. CASE ReceiveData(l)
    <3>1. sUser[l] \in Client
      BY <2>3, SharerOf DEF ReceiveData
    <3>2. webGot' \in [Client -> Nat]
      <4>1. /\ webGot' = [webGot EXCEPT ![sUser[l]] = webGot[sUser[l]] + 1]
            /\ webGot \in [Client -> Nat]
        BY <2>3 DEF ReceiveData, IInv, TypeOK
      <4>2. webGot[sUser[l]] + 1 \in Nat
        BY <3>1, <4>1
      <4> QED BY <3>1, <4>1, <4>2
    <3> QED BY <2>3, <3>2, SharerTakes DEF ReceiveData
  <2>4. CASE SharerIgnores(l)
    <3>1. webGot' \in [Client -> Nat]
      BY <2>4 DEF SharerIgnores, sharing, IInv, TypeOK
    <3> QED BY <2>4, <3>1, SharerTakes DEF SharerIgnores, sharing
  <2> QED BY <1>3, <2>1, <2>2, <2>3, <2>4, onPeerOpenedChannelKeeps DEF SharerReceives
<1> QED BY <1>1, <1>2, <1>3, makeTcpToRtcSessionKeeps, GetterStepKeeps, ClientSendsKeeps,
           ClientGoneKeeps, WebKeeps, GetterReceivesKeeps, StopSocksToRtcKeeps, ServerShutKeeps,
           StopRtcToNetKeeps
    DEF Next

LEMMA InOrder == IInv => SessionsInOrder
<1> SUFFICES ASSUME IInv PROVE SessionsApart
  BY DEF IInv, Counts, SessionsInOrder
<1> SUFFICES ASSUME NEW l \in Label
             PROVE  /\ gEnd[l] = "OPEN" /\ toGetter[l] # <<>> => Head(toGetter[l]).from = gUser[l]
                    /\ sEnd[l] = "OPEN" /\ toSharer[l] # <<>> => Head(toSharer[l]).from = sUser[l]
  BY DEF SessionsApart
<1>1. Of(l) /\ toSharer[l] \in Seq(Message) /\ toGetter[l] \in Seq(Message)
  BY LineAt
<1>2. ASSUME gEnd[l] = "OPEN", toGetter[l] # <<>> PROVE Head(toGetter[l]).from = gUser[l]
  <2>1. Only(toGetter[l], gUser[l])
    BY <1>1, <1>2 DEF Of, Line, Answers
  <2>2. Len(toGetter[l]) \in Nat \ {0} /\ Head(toGetter[l]) = toGetter[l][1]
    BY <1>1, <1>2, TailAt
  <2> QED BY <2>1, <2>2 DEF Only
<1>3. ASSUME sEnd[l] = "OPEN", toSharer[l] # <<>> PROVE Head(toSharer[l]).from = sUser[l]
  <2>1. gUser[l] = sUser[l] /\ Only(toSharer[l], gUser[l])
    BY <1>1, <1>3 DEF Of, Line, Questions, Unheard, Heard
  <2>2. Len(toSharer[l]) \in Nat \ {0} /\ Head(toSharer[l]) = toSharer[l][1]
    BY <1>1, <1>3, TailAt
  <2> QED BY <2>1, <2>2 DEF Only
<1> QED BY <1>2, <1>3

(* The sessions of the two peers are counted, no more than SESSION_LIMIT of  *)
(* them, and what an open end of a channel is given is from its own session: *)
(* however the messages of the two peers cross, whatever they close and reopen. *)
THEOREM SessionsStayInOrder == Spec => []SessionsInOrder
<1>1. IInv /\ [Next]_vars => IInv'
  BY IInvStep
<1>2. IInv => SessionsInOrder
  BY InOrder
<1>3. Init => IInv
  BY IInvInit
<1> QED BY <1>1, <1>2, <1>3, PTL DEF Spec
-----------------------------------------------------------------------------
(* All that is sent is passed on: what of a session's data has been sent and   *)
(* not yet passed on is where the session's progress says, while neither peer  *)
(* connection has gone.                                                        *)

(* The CLOSE at the end of the box, which is no data. *)
Closing(box) == IF Closes(box) THEN 1 ELSE 0

(* A session as both peers see it.  x, k, fc, sent and got: the getter's       *)
(* session, its client, the packets queued, sent and received; y, w, fw, ws    *)
(* and wg: the same of the sharer and the web; Q and A: what each peer has not *)
(* handled.                                                                    *)

(* Before the peers talk: two packets are for the handshake. *)
Prepares(x, y, fc, sent, got, w, fw, ws, wg) ==
  /\ x \in {"none", "opening", "auth"} => sent = fc
  /\ x = "request" => sent = fc + 1
  /\ x = "response" => sent = fc + 2
  /\ x \notin {"linked", "stopped"} => got = 0
  /\ y \in {"none", "waiting", "connecting"} => ws = fw /\ wg = 0
  /\ w = "connecting" => y = "connecting"
  /\ w = "open" => y \in {"connecting", "linked"}

(* What the web sent is on its way to the client, and a CLOSE behind it only   *)
(* once the web is gone.                                                       *)
AnswersCounted(x, y, got, w, ws, A) ==
  /\ x \in {"auth", "request"} /\ A # <<>> => A[1].kind # "succeeded"
  /\ x = "response" /\ A # <<>> /\ A[1].kind = "succeeded" =>
       Len(A) = ws + 1 + Closing(A) /\ (Closes(A) => w = "gone")
  /\ x = "linked" => Len(A) + got = ws + Closing(A) /\ (Closes(A) => w = "gone")
  /\ y = "linked" /\ x = "response" => A # <<>> /\ A[1].kind = "succeeded"

(* What the client sent is on its way to the web, and a CLOSE behind it only   *)
(* once the client is gone.                                                    *)
QuestionsCounted(x, y, k, sent, wg, Q) ==
  y = "linked" =>
    /\ x \notin {"auth", "request"}
    /\ x = "response" => wg = 0 /\ Q = <<>>
    /\ x = "linked" => wg + Len(Q) + 2 = sent
    /\ Closes(Q) => k = "gone" /\ wg + Len(Q) + 1 = sent

Passed(c) ==
  /\ Prepares(getter[c], sharer[c], fromClient[c], clientSent[c], clientGot[c],
              web[c], fromWeb[c], webSent[c], webGot[c])
  /\ label[c] # None =>
       /\ AnswersCounted(getter[c], sharer[c], clientGot[c], web[c], webSent[c], toGetter[label[c]])
       /\ QuestionsCounted(getter[c], sharer[c], client[c], clientSent[c], webGot[c],
                           toSharer[label[c]])

AllPassed ==
  /\ server # "listening" => "getter" \in lost
  /\ lost = {} => \A c \in Client : Passed(c)

(* What a box counts when a message, or several, come to it, or one is taken. *)
LEMMA OneMore ==
  ASSUME NEW B \in Seq(Message), NEW m, NEW B2, B2 = Append(B, m)
  PROVE  /\ Len(B2) = Len(B) + 1 /\ Len(B) \in Nat /\ B2 # <<>>
         /\ (B = <<>> => B2[1] = m) /\ (B # <<>> => B2[1] = B[1])
         /\ Closes(B2) <=> m.kind = "CLOSE"
         /\ m.kind = "CLOSE" => Closing(B2) = 1
         /\ m.kind # "CLOSE" => Closing(B2) = 0
<1>1. /\ Len(B2) = Len(B) + 1 /\ Len(B) \in Nat /\ B2 # <<>> /\ B2[Len(B) + 1] = m
      /\ (B = <<>> => B2[1] = m) /\ (B # <<>> => B2[1] = B[1])
  <2>1. B = <<>> => Len(B) = 0
    OBVIOUS
  <2>2. B # <<>> => Len(B) \in Nat \ {0}
    OBVIOUS
  <2> QED BY <2>1, <2>2
<1>2. Closes(B2) <=> m.kind = "CLOSE"
  BY <1>1 DEF Closes
<1> QED BY <1>1, <1>2 DEF Closing

LEMMA SomeMore ==
  ASSUME NEW B \in Seq(Message), NEW T \in Seq(Message), NEW B2, B2 = B \o T,
         \A i \in 1..Len(T) : T[i].kind # "CLOSE", ~Closes(B)
  PROVE  /\ Len(B2) = Len(B) + Len(T) /\ Len(B) \in Nat /\ Len(T) \in Nat
         /\ ~Closes(B2) /\ Closing(B2) = 0
         /\ B = <<>> /\ T # <<>> => B2 # <<>> /\ B2[1] = T[1]
<1>1. /\ Len(B2) = Len(B) + Len(T) /\ Len(B) \in Nat /\ Len(T) \in Nat
      /\ \A i \in 1..Len(B) : B2[i] = B[i]
      /\ \A i \in 1..Len(B2) : i > Len(B) => B2[i] = T[i - Len(B)] /\ i - Len(B) \in 1..Len(T)
  OBVIOUS
<1>2. B = <<>> /\ T # <<>> => B2 # <<>> /\ B2[1] = T[1]
  OBVIOUS
<1>3. ~Closes(B2)
  <2> SUFFICES ASSUME B2 # <<>> PROVE B2[Len(B2)].kind # "CLOSE"
    BY DEF Closes
  <2>1. Len(B2) # 0 /\ Len(B2) \in 1..Len(B2)
    <3>1. B2 \in Seq(Message)
      OBVIOUS
    <3> QED BY <3>1
  <2>2. CASE Len(T) = 0
    <3>1. Len(B2) = Len(B) /\ Len(B) \in 1..Len(B) /\ B # <<>>
      BY <1>1, <2>1, <2>2
    <3> QED BY <1>1, <3>1 DEF Closes
  <2>3. CASE Len(T) # 0
    <3>1. Len(B2) > Len(B)
      BY <1>1, <2>3
    <3> QED BY <1>1, <2>1, <3>1
  <2> QED BY <2>2, <2>3
<1> QED BY <1>1, <1>2, <1>3 DEF Closing

LEMMA OneLess ==
  ASSUME NEW B \in Seq(Message), B # <<>>, Head(B).kind # "CLOSE", NEW B2, B2 = Tail(B)
  PROVE  /\ Len(B2) = Len(B) - 1 /\ Len(B) \in Nat /\ Head(B) = B[1]
         /\ Closes(B2) <=> Closes(B)
         /\ Closing(B2) = Closing(B)
<1>1. /\ B2 \in Seq(Message) /\ Len(B2) = Len(B) - 1 /\ Len(B) \in Nat \ {0} /\ Head(B) = B[1]
      /\ \A i \in 1..Len(B2) : B2[i] = B[i + 1]
      /\ Len(B) = 1 => B2 = <<>>
  BY TailAt
<1>2. Closes(B2) <=> Closes(B)
  <2>1. CASE Len(B) = 1
    BY <1>1, <2>1 DEF Closes
  <2>2. CASE Len(B) # 1
    <3>0. B2 = <<>> => Len(B2) = 0
      OBVIOUS
    <3>1. /\ Len(B2) \in 1..Len(B2) /\ B2 # <<>>
          /\ Len(B2) + 1 = Len(B)
      BY <1>1, <2>2, <3>0
    <3>2. B2[Len(B2)] = B[Len(B)]
      BY <1>1, <3>1
    <3> QED BY <3>1, <3>2 DEF Closes
  <2> QED BY <2>1, <2>2
<1> QED BY <1>1, <1>2 DEF Closing

LEMMA LastOfAll ==
  ASSUME NEW B \in Seq(Message), NEW u, Only(B, u), B # <<>>, Head(B).kind = "CLOSE"
  PROVE  Len(B) = 1 /\ Closes(B) /\ Closing(B) = 1
<1>1. Len(B) \in Nat \ {0} /\ Head(B) = B[1]
  BY TailAt
<1>2. Len(B) = 1
  <2>1. 1 \in 1..Len(B)
    BY <1>1
  <2> QED BY <1>1, <2>1 DEF Only
<1> QED BY <1>1, <1>2 DEF Closes, Closing

(* Who does not listen does not mind what comes. *)
LEMMA Deaf ==
  ASSUME NEW x, NEW y, NEW k, NEW got, NEW w, NEW ws, NEW sent, NEW wg, NEW A, NEW A2, NEW Q, NEW Q2
  PROVE  /\ x \notin {"auth", "request", "response", "linked"} /\ AnswersCounted(x, y, got, w, ws, A)
              => AnswersCounted(x, y, got, w, ws, A2)
         /\ y # "linked" => QuestionsCounted(x, y, k, sent, wg, Q2)
         /\ x \notin {"auth", "request", "response", "linked"} => AnswersCounted(x, y, got, w, ws, A)
BY DEF AnswersCounted, QuestionsCounted

(* The sessions but c, which a step leaves alone. *)
Still(d) ==
  /\ getter'[d] = getter[d] /\ client'[d] = client[d] /\ fromClient'[d] = fromClient[d]
  /\ clientSent'[d] = clientSent[d] /\ clientGot'[d] = clientGot[d] /\ label'[d] = label[d]
  /\ sharer'[d] = sharer[d] /\ web'[d] = web[d] /\ fromWeb'[d] = fromWeb[d]
  /\ webSent'[d] = webSent[d] /\ webGot'[d] = webGot[d]

(* No box changes that another session than c listens to. *)
Heeds(c) ==
  \A m \in Label :
    /\ toGetter'[m] = toGetter[m] \/ gUser[m] = c \/ gEnd[m] # "OPEN"
    /\ toSharer'[m] = toSharer[m] \/ sUser[m] = c \/ gUser[m] = c \/ sEnd[m] # "OPEN"
         \/ gEnd[m] \in {"none", "CLOSED"}

LEMMA Rest ==
  ASSUME IInv, lost = {}, NEW c, Heeds(c), NEW d \in Client, d # c, Still(d), Passed(d)
  PROVE  Passed(d)'
<1> DEFINE l == label[d]
<1>1. Prepares(getter[d], sharer[d], fromClient[d], clientSent[d], clientGot[d],
               web[d], fromWeb[d], webSent[d], webGot[d])'
  BY DEF Passed, Still
<1>2. ASSUME label[d] # None
      PROVE  /\ AnswersCounted(getter[d], sharer[d], clientGot[d], web[d], webSent[d], toGetter'[l])
             /\ QuestionsCounted(getter[d], sharer[d], client[d], clientSent[d], webGot[d], toSharer'[l])
  <2>1. /\ AnswersCounted(getter[d], sharer[d], clientGot[d], web[d], webSent[d], toGetter[l])
        /\ QuestionsCounted(getter[d], sharer[d], client[d], clientSent[d], webGot[d], toSharer[l])
    BY <1>2 DEF Passed
  <2>2. l \in Label
    BY <1>2 DEF IInv, TypeOK
  <2>3. getter[d] \in {"auth", "request", "response", "linked"} => toGetter'[l] = toGetter[l]
    BY <2>2, GetterAt DEF Heeds, Talking
  <2>4. ASSUME sharer[d] = "linked" PROVE toSharer'[l] = toSharer[l]
    <3>1. sUser[l] = d /\ sEnd[l] = "OPEN" /\ gUser[l] = d
      BY <2>4, SharerAt DEF Live
    <3>2. gEnd[l] \notin {"none", "CLOSED"}
      BY <2>2, <3>1, LineAt, SessionsAssumption DEF Of, Line, Answers, Client
    <3> QED BY <2>2, <3>1, <3>2 DEF Heeds
  <2> HIDE DEF l
  <2>5. AnswersCounted(getter[d], sharer[d], clientGot[d], web[d], webSent[d], toGetter'[l])
    BY <2>1, <2>3, Deaf
  <2>6. QuestionsCounted(getter[d], sharer[d], client[d], clientSent[d], webGot[d], toSharer'[l])
    BY <2>1, <2>4, Deaf
  <2> QED BY <2>5, <2>6
<1> QED BY <1>1, <1>2 DEF Passed, Still

LEMMA AllBut ==
  ASSUME IInv, AllPassed, lost = {}, NEW c, Heeds(c), \A d \in Client \ {c} : Still(d),
         server' = server, c \in Client => Passed(c)'
  PROVE  AllPassed'
<1>1. server = "listening"
  BY DEF AllPassed
<1>2. ASSUME NEW d \in Client PROVE Passed(d)'
  <2>1. CASE d # c
    BY <2>1, Rest DEF AllPassed
  <2>2. CASE d = c
    BY <2>2
  <2> QED BY <2>1, <2>2
<1> QED BY <1>1, <1>2 DEF AllPassed

(* What a session needs that changes neither its label nor a box. *)
LEMMA Alone ==
  ASSUME IInv, AllPassed, lost = {}, NEW c \in Client, \A d \in Client \ {c} : Still(d),
         UNCHANGED <<server, label, toSharer, toGetter>>,
         Prepares(getter[c], sharer[c], fromClient[c], clientSent[c], clientGot[c],
                  web[c], fromWeb[c], webSent[c], webGot[c])',
         label[c] # None =>
           /\ AnswersCounted(getter'[c], sharer'[c], clientGot'[c], web'[c], webSent'[c],
                             toGetter[label[c]])
           /\ QuestionsCounted(getter'[c], sharer'[c], client'[c], clientSent'[c], webGot'[c],
                               toSharer[label[c]])
  PROVE  AllPassed'
<1>1. Heeds(c)
  BY DEF Heeds
<1>2. Passed(c)'
  BY DEF Passed
<1> QED BY <1>1, <1>2, AllBut

(* The state of a session, for the provers. *)
LEMMA StateOf ==
  ASSUME IInv, NEW c \in Client
  PROVE  /\ fromClient[c] \in Nat /\ clientSent[c] \in Nat /\ clientGot[c] \in Nat
         /\ fromWeb[c] \in Nat /\ webSent[c] \in Nat /\ webGot[c] \in Nat
         /\ label[c] = None <=> getter[c] \in {"none", "opening", "failed"}
         /\ label[c] = None => sharer[c] = "none"
         /\ label[c] # None =>
              /\ label[c] \in Label
              /\ toGetter[label[c]] \in Seq(Message) /\ Len(toGetter[label[c]]) \in Nat
              /\ toSharer[label[c]] \in Seq(Message) /\ Len(toSharer[label[c]]) \in Nat
<1>1. /\ fromClient[c] \in Nat /\ clientSent[c] \in Nat /\ clientGot[c] \in Nat
      /\ fromWeb[c] \in Nat /\ webSent[c] \in Nat /\ webGot[c] \in Nat
  BY SessionsAssumption DEF IInv, TypeOK
<1>2. User(c) /\ label[c] \in Label \cup {None}
  BY DEF IInv, Users, TypeOK
<1>3. ASSUME label[c] # None
      PROVE  /\ label[c] \in Label
             /\ toGetter[label[c]] \in Seq(Message) /\ Len(toGetter[label[c]]) \in Nat
             /\ toSharer[label[c]] \in Seq(Message) /\ Len(toSharer[label[c]]) \in Nat
  <2>1. label[c] \in Label
    BY <1>2, <1>3
  <2>2. toGetter[label[c]] \in Seq(Message) /\ toSharer[label[c]] \in Seq(Message)
    BY <2>1, LineAt
  <2> QED BY <2>1, <2>2
<1> QED BY <1>1, <1>2, <1>3 DEF User

LEMMA QuietPasses ==
  ASSUME IInv, AllPassed, lost = {}, NEW c \in Client,
         \/ ChannelNotOpened(c)
         \/ doAuthHandshake_(c)
         \/ RequestFails(c) /\ WaitsForClient(c)
         \/ Stopped(c)
         \/ WebConnects(c)
         \/ WebGone(c) /\ sharer[c] # "linked"
         \/ ClientGone(c) /\ getter[c] # "linked"
         \/ ClientSends(c) /\ getter[c] # "linked"
         \/ WebSends(c) /\ sharer[c] # "linked"
  PROVE  AllPassed'
<1>0. Passed(c)
  BY DEF AllPassed
<1>1. CASE ChannelNotOpened(c)
  <2>1. /\ getter[c] = "opening" /\ getter' = [getter EXCEPT ![c] = "failed"]
        /\ UNCHANGED <<server, client, fromClient, clientSent, clientGot, label, gEnd, gUser, sharing,
                 toSharer, toGetter, others, lost>>
    BY <1>1 DEF ChannelNotOpened
  <2>2. getter'[c] = "failed" /\ \A d \in Client \ {c} : Still(d)
    BY <2>1 DEF Still, sharing, IInv, TypeOK
  <2> QED BY <1>0, <2>1, <2>2, StateOf, Alone DEF Passed, Prepares, AnswersCounted, QuestionsCounted, sharing
<1>2. CASE doAuthHandshake_(c)
  <2>1. /\ getter[c] = "auth" /\ fromClient[c] > 0
        /\ getter' = [getter EXCEPT ![c] = "request"]
        /\ fromClient' = [fromClient EXCEPT ![c] = fromClient[c] - 1]
        /\ UNCHANGED <<server, client, clientSent, clientGot, label, gEnd, gUser, sharing, toSharer,
                 toGetter, others, lost>>
    BY <1>2 DEF doAuthHandshake_, Packet
  <2>2. /\ getter'[c] = "request" /\ fromClient'[c] = fromClient[c] - 1
        /\ \A d \in Client \ {c} : Still(d)
    BY <2>1 DEF Still, sharing, IInv, TypeOK
  <2> QED BY <1>0, <2>1, <2>2, StateOf, Alone DEF Passed, Prepares, AnswersCounted, QuestionsCounted, sharing
<1>3. CASE RequestFails(c) /\ WaitsForClient(c)
  <2>1. /\ getter[c] = "request"
        /\ getter' = [getter EXCEPT ![c] = "replying"]
        /\ UNCHANGED <<server, client, fromClient, clientSent, clientGot, label, gUser, sharing, toSharer,
                 toGetter, others, lost>>
    BY <1>3 DEF RequestFails, WaitsForClient
  <2>2. /\ getter'[c] = "replying" /\ \A d \in Client \ {c} : Still(d)
    BY <2>1 DEF Still, sharing, IInv, TypeOK
  <2> QED BY <1>0, <2>1, <2>2, StateOf, Alone DEF Passed, Prepares, AnswersCounted, QuestionsCounted, sharing
<1>4. CASE Stopped(c)
  <2>1. /\ sharer[c] = "stopping" /\ web[c] = "closing"
        /\ sharer' = [sharer EXCEPT ![c] = "stopped"] /\ web' = [web EXCEPT ![c] = "closed"]
        /\ UNCHANGED <<getting, fromWeb, webSent, webGot, sEnd, sUser, toSharer, toGetter, others, lost>>
    BY <1>4 DEF Stopped
  <2>2. /\ sharer'[c] = "stopped" /\ web'[c] = "closed" /\ \A d \in Client \ {c} : Still(d)
    BY <2>1 DEF Still, getting, IInv, TypeOK
  <2> QED BY <1>0, <2>1, <2>2, StateOf, Alone DEF Passed, Prepares, AnswersCounted, QuestionsCounted, Closing, getting
<1>5. CASE WebConnects(c)
  <2>1. /\ web[c] = "connecting" /\ web' = [web EXCEPT ![c] = "open"]
        /\ UNCHANGED <<getting, sharer, fromWeb, webSent, webGot, sessions_, numSessions_, sEnd, sUser,
                 toSharer, toGetter, others, lost>>
    BY <1>5 DEF WebConnects
  <2>2. /\ web'[c] = "open" /\ \A d \in Client \ {c} : Still(d)
    BY <2>1 DEF Still, getting, IInv, TypeOK
  <2> QED BY <1>0, <2>1, <2>2, StateOf, Alone DEF Passed, Prepares, AnswersCounted, QuestionsCounted, getting
<1>6. CASE WebGone(c) /\ sharer[c] # "linked"
  <2>1. /\ web[c] = "open" /\ web' = [web EXCEPT ![c] = "gone"]
        /\ UNCHANGED <<getting, sharer, fromWeb, webSent, webGot, sUser, toSharer, toGetter, others, lost>>
    BY <1>6 DEF WebGone
  <2>2. /\ web'[c] = "gone" /\ \A d \in Client \ {c} : Still(d)
    BY <2>1 DEF Still, getting, IInv, TypeOK
  <2> QED BY <1>0, <1>6, <2>1, <2>2, StateOf, Alone DEF Passed, Prepares, AnswersCounted, QuestionsCounted, getting
<1>7. CASE ClientGone(c) /\ getter[c] # "linked"
  <2>1. /\ client[c] = "open" /\ client' = [client EXCEPT ![c] = "gone"]
        /\ UNCHANGED <<server, getter, fromClient, clientSent, clientGot, label, gUser, sharing, toSharer, toGetter,
                 others, lost>>
    BY <1>7 DEF ClientGone
  <2>2. /\ client'[c] = "gone" /\ \A d \in Client \ {c} : Still(d)
    BY <2>1 DEF Still, sharing, IInv, TypeOK
  <2> QED BY <1>0, <1>7, <2>1, <2>2, StateOf, Alone DEF Passed, Prepares, AnswersCounted, QuestionsCounted, sharing
<1>8. CASE ClientSends(c) /\ getter[c] # "linked"
  <2>1. /\ client[c] = "open" /\ clientSent' = [clientSent EXCEPT ![c] = clientSent[c] + 1]
        /\ fromClient' = [fromClient EXCEPT ![c] = fromClient[c] + 1]
        /\ UNCHANGED <<server, client, clientGot, getter, label, gEnd, gUser, sharing, toSharer, toGetter,
                 others, lost>>
    BY <1>8 DEF ClientSends
  <2>2. /\ clientSent'[c] = clientSent[c] + 1 /\ fromClient'[c] = fromClient[c] + 1
        /\ \A d \in Client \ {c} : Still(d)
    BY <2>1 DEF Still, sharing, IInv, TypeOK
  <2>3. Prepares(getter[c], sharer[c], fromClient[c], clientSent[c], clientGot[c],
                 web[c], fromWeb[c], webSent[c], webGot[c])'
    BY <1>0, <2>1, <2>2, StateOf DEF Passed, Prepares, sharing
  <2>4. ASSUME label[c] # None
        PROVE  QuestionsCounted(getter'[c], sharer'[c], client'[c], clientSent'[c], webGot'[c],
                                toSharer[label[c]])
    <3>1. QuestionsCounted(getter[c], sharer[c], client[c], clientSent[c], webGot[c], toSharer[label[c]])
      BY <1>0, <2>4 DEF Passed
    <3> QED BY <1>8, <2>1, <3>1 DEF QuestionsCounted, sharing
  <2> QED BY <1>0, <2>1, <2>2, <2>3, <2>4, Alone DEF Passed, sharing
<1>9. CASE WebSends(c) /\ sharer[c] # "linked"
  <2>1. /\ web[c] = "open" /\ webSent' = [webSent EXCEPT ![c] = webSent[c] + 1]
        /\ fromWeb' = [fromWeb EXCEPT ![c] = fromWeb[c] + 1]
        /\ UNCHANGED <<getting, sharer, web, webGot, sessions_, numSessions_, sEnd, sUser, toSharer, toGetter,
                 others, lost>>
    BY <1>9 DEF WebSends
  <2>2. /\ webSent'[c] = webSent[c] + 1 /\ fromWeb'[c] = fromWeb[c] + 1
        /\ \A d \in Client \ {c} : Still(d)
    BY <2>1 DEF Still, getting, IInv, TypeOK
  <2>3. sharer[c] = "connecting"
    BY <1>0, <1>9, <2>1 DEF Passed, Prepares
  <2>4. getter[c] # "linked" /\ (label[c] # None /\ getter[c] = "response" => toGetter[label[c]] = <<>>)
    <3>1. label[c] \in Label /\ gUser[label[c]] = c
      BY <2>3, SharerAt DEF Live
    <3>2. getter[c] = "response" => gEnd[label[c]] = "OPEN" /\ "getter" \notin lost
      BY GetterAt DEF Talking
    <3> QED BY <2>3, <3>1, <3>2, LinkedAt, LineAt DEF Of, Line, Answers, Early
  <2> QED BY <1>0, <1>9, <2>1, <2>2, <2>3, <2>4, StateOf, Alone DEF Passed, Prepares, AnswersCounted, QuestionsCounted, getting
<1> QED BY <1>1, <1>2, <1>3, <1>4, <1>5, <1>6, <1>7, <1>8, <1>9

(* ... that changes the boxes of its channel. *)
LEMMA Told ==
  ASSUME IInv, AllPassed, lost = {}, NEW c \in Client, \A d \in Client \ {c} : Still(d),
         UNCHANGED <<server, label>>, label[c] \in Label, gUser[label[c]] = c, NEW Q, NEW A,
         toSharer' = [toSharer EXCEPT ![label[c]] = Q],
         toGetter' = [toGetter EXCEPT ![label[c]] = A],
         Prepares(getter[c], sharer[c], fromClient[c], clientSent[c], clientGot[c],
                  web[c], fromWeb[c], webSent[c], webGot[c])',
         AnswersCounted(getter'[c], sharer'[c], clientGot'[c], web'[c], webSent'[c], A),
         QuestionsCounted(getter'[c], sharer'[c], client'[c], clientSent'[c], webGot'[c], Q)
  PROVE  AllPassed'
<1>1. Heeds(c)
  BY DEF Heeds, IInv, TypeOK
<1>2. toSharer'[label[c]] = Q /\ toGetter'[label[c]] = A
  BY DEF IInv, TypeOK
<1>3. Passed(c)'
  BY <1>2 DEF Passed
<1> QED BY <1>1, <1>3, AllBut

(* The getter opens a channel for session c. *)
LEMMA UsesPasses ==
  ASSUME IInv, AllPassed, lost = {}, NEW c \in Client, NEW l \in Label, gEnd[l] \in {"none", "CLOSED"},
         Uses(c, l), getter[c] \in {"none", "opening"},
         client' = [client EXCEPT ![c] = client'[c]],
         UNCHANGED <<server, fromClient, clientSent, clientGot, sharing, toGetter, others, lost>>
  PROVE  AllPassed'
<1>0. Passed(c) /\ sharer[c] = "none"
  BY StateOf DEF AllPassed
<1>1. getter'[c] = "auth" /\ \A d \in Client \ {c} : Still(d)
  BY DEF Uses, Still, sharing, IInv, TypeOK
<1>2. \A m \in Label : toGetter'[m] = toGetter[m] /\ (toSharer'[m] = toSharer[m] \/ m = l)
  BY DEF Uses, IInv, TypeOK
<1>3. Heeds(c)
  BY <1>2 DEF Heeds
<1>4. label'[c] = l /\ toGetter'[l] = <<>>
  <2>1. toGetter[l] = <<>>
    BY LineAt DEF Of, Line, Answers
  <2> QED BY <2>1 DEF Uses, IInv, TypeOK
<1>5. Passed(c)'
  BY <1>0, <1>1, <1>4 DEF Passed, Prepares, AnswersCounted, QuestionsCounted, sharing
<1> QED BY <1>1, <1>3, <1>5, AllBut

LEMMA makeTcpPasses ==
  ASSUME IInv, AllPassed, lost = {}, NEW c \in Client, makeTcpToRtcSession_(c)
  PROVE  AllPassed'
<1>1. /\ client[c] = "none" /\ client' = [client EXCEPT ![c] = "open"]
      /\ UNCHANGED <<server, fromClient, clientSent, clientGot, sharing, toGetter, others, lost>>
  BY DEF makeTcpToRtcSession_
<1>2. /\ getter[c] = "none" /\ client' = [client EXCEPT ![c] = client'[c]]
      /\ label[c] = None
  BY <1>1 DEF IInv, Users, User, TypeOK
<1>3. CASE "getter" \notin lost /\ \E l \in Label : gEnd[l] = "CLOSED" /\ Uses(c, l)
  BY <1>1, <1>2, <1>3, UsesPasses
<1>4. CASE getter' = [getter EXCEPT ![c] = "opening"] /\ UNCHANGED <<label, gEnd, gUser, toSharer>>
  <2>1. getter'[c] = "opening" /\ \A d \in Client \ {c} : Still(d)
    BY <1>1, <1>4 DEF Still, sharing, IInv, TypeOK
  <2>2. Passed(c)
    BY DEF AllPassed
  <2> QED BY <1>1, <1>2, <1>4, <2>1, <2>2, Alone DEF Passed, Prepares, sharing
<1> QED BY <1>3, <1>4 DEF makeTcpToRtcSession_

(* What SaysAndCloses and Says do to an open end of c. *)
LEMMA GetterTold ==
  ASSUME IInv, NEW c \in Client, getter[c] \in Talking, NEW T
  PROVE  /\ label[c] \in Label /\ gUser[label[c]] = c
         /\ toSharer[label[c]] \in Seq(Message) /\ toGetter[label[c]] \in Seq(Message)
         /\ toGetter = [toGetter EXCEPT ![label[c]] = toGetter[label[c]]]
         /\ ~Closes(toSharer[label[c]]) \/ sharer[c] # "linked"
         /\ Says(toSharer, gEnd, label[c], T) =>
              toSharer' = [toSharer EXCEPT ![label[c]] = toSharer[label[c]] \o T]
         /\ SaysAndCloses(toSharer, gEnd, label[c], c, <<>>) =>
              toSharer' = [toSharer EXCEPT ![label[c]] = Append(toSharer[label[c]], Msg("CLOSE", c))]
<1> DEFINE l == label[c]
<1>1. l \in Label /\ gUser[l] = c /\ gEnd[l] = "OPEN"
  BY GetterAt
<1>2. toSharer[l] \in Seq(Message) /\ toGetter[l] \in Seq(Message) /\ Of(l)
  BY <1>1, LineAt
<1>3. toGetter = [toGetter EXCEPT ![l] = toGetter[l]]
  BY <1>1 DEF IInv, TypeOK
<1>4. Says(toSharer, gEnd, l, T) => toSharer' = [toSharer EXCEPT ![l] = toSharer[l] \o T]
  BY <1>1 DEF Says
<1>5. SaysAndCloses(toSharer, gEnd, l, c, <<>>) =>
        toSharer' = [toSharer EXCEPT ![l] = Append(toSharer[l], Msg("CLOSE", c))]
  <2>1. /\ toSharer[l] \o <<Msg("CLOSE", c)>> = Append(toSharer[l], Msg("CLOSE", c))
        /\ <<>> \o <<Msg("CLOSE", c)>> = <<Msg("CLOSE", c)>>
    BY <1>2, Saying
  <2> QED BY <1>1, <2>1 DEF SaysAndCloses, Says
<1>6. ~Closes(toSharer[l]) \/ sharer[c] # "linked"
  <2> SUFFICES ASSUME sharer[c] = "linked" PROVE ~Closes(toSharer[l])
    OBVIOUS
  <2>1. sUser[l] = c /\ "sharer" \notin lost
    BY SharerAt DEF Live
  <2>2. NoClose(toSharer[l])
    BY <1>1, <1>2, <2>1, SessionsAssumption DEF Of, Line, Questions, Heard
  <2>3. toSharer[l] # <<>> => Len(toSharer[l]) \in 1..Len(toSharer[l])
    BY <1>2
  <2> QED BY <2>2, <2>3 DEF NoClose, Closes
<1> QED BY <1>1, <1>2, <1>3, <1>4, <1>5, <1>6

(* A session of the getter ends while it has nothing from the web. *)
LEMMA EndGetterPasses ==
  ASSUME IInv, AllPassed, lost = {}, NEW c \in Client, getter[c] \in {"auth", "request", "response"},
         EndGetter(c), sharer[c] # "linked", NEW A, toGetter' = [toGetter EXCEPT ![label[c]] = A],
         UNCHANGED <<server, fromClient, clientSent, clientGot, label, gUser, sharing, others, lost>>
  PROVE  AllPassed'
<1> DEFINE Q == Append(toSharer[label[c]], Msg("CLOSE", c))
<1>1. /\ label[c] \in Label /\ gUser[label[c]] = c
      /\ toSharer' = [toSharer EXCEPT ![label[c]] = Q]
  BY GetterTold DEF EndGetter, Talking
<1>2. getter'[c] = "stopped" /\ \A d \in Client \ {c} : Still(d)
  BY DEF EndGetter, StopGetter, Still, sharing, IInv, TypeOK
<1>3. Passed(c)
  BY DEF AllPassed
<1>4. Prepares(getter[c], sharer[c], fromClient[c], clientSent[c], clientGot[c],
               web[c], fromWeb[c], webSent[c], webGot[c])'
  BY <1>2, <1>3 DEF Passed, Prepares, sharing
<1>5. /\ AnswersCounted(getter'[c], sharer'[c], clientGot'[c], web'[c], webSent'[c], A)
      /\ QuestionsCounted(getter'[c], sharer'[c], client'[c], clientSent'[c], webGot'[c], Q)
  BY <1>2 DEF AnswersCounted, QuestionsCounted, sharing
<1> HIDE DEF Q
<1> QED BY <1>1, <1>2, <1>4, <1>5, Told

LEMMA HandshakePasses ==
  ASSUME IInv, AllPassed, lost = {}, NEW c \in Client, AuthFails(c) \/ (RequestFails(c) /\ EndGetter(c))
  PROVE  AllPassed'
<1>1. /\ getter[c] \in {"auth", "request"} /\ EndGetter(c)
      /\ UNCHANGED <<server, fromClient, clientSent, clientGot, label, gUser, sharing, toGetter, others, lost>>
  BY DEF AuthFails, RequestFails
<1>2. label[c] # None
  BY <1>1, StateOf
<1>3. sharer[c] # "linked"
  BY <1>1, <1>2 DEF AllPassed, Passed, QuestionsCounted
<1>4. toGetter' = [toGetter EXCEPT ![label[c]] = toGetter[label[c]]]
  BY <1>1, GetterTold DEF Talking
<1> QED BY <1>1, <1>3, <1>4, EndGetterPasses

LEMMA doRequestPasses ==
  ASSUME IInv, AllPassed, lost = {}, NEW c \in Client, doRequestHandshake_(c)
  PROVE  AllPassed'
<1> DEFINE T == <<Msg("request", c)>>
           Q == toSharer[label[c]] \o T
           A == toGetter[label[c]]
<1>1. /\ getter[c] = "request" /\ fromClient[c] > 0
      /\ getter' = [getter EXCEPT ![c] = "response"]
      /\ fromClient' = [fromClient EXCEPT ![c] = fromClient[c] - 1]
      /\ Says(toSharer, gEnd, label[c], T)
      /\ UNCHANGED <<server, client, clientSent, clientGot, label, gEnd, gUser, sharing, toGetter,
                 others, lost>>
  BY DEF doRequestHandshake_, Packet
<1>2. /\ getter'[c] = "response" /\ fromClient'[c] = fromClient[c] - 1
      /\ \A d \in Client \ {c} : Still(d)
  BY <1>1 DEF Still, sharing, IInv, TypeOK
<1>3. /\ label[c] \in Label /\ gUser[label[c]] = c /\ A \in Seq(Message)
      /\ toSharer' = [toSharer EXCEPT ![label[c]] = Q]
      /\ toGetter' = [toGetter EXCEPT ![label[c]] = A]
  BY <1>1, GetterTold DEF Talking
<1>4. Passed(c) /\ label[c] # None
  BY <1>1, StateOf DEF AllPassed
<1>5. Prepares(getter[c], sharer[c], fromClient[c], clientSent[c], clientGot[c],
               web[c], fromWeb[c], webSent[c], webGot[c])'
  BY <1>1, <1>2, <1>4, StateOf DEF Passed, Prepares, sharing
<1>6. sharer[c] # "linked"
  BY <1>1, <1>4 DEF Passed, QuestionsCounted
<1> HIDE DEF Q, A, T
<1>7. QuestionsCounted(getter'[c], sharer'[c], client'[c], clientSent'[c], webGot'[c], Q)
  BY <1>1, <1>6 DEF QuestionsCounted, sharing
<1>8. A # <<>> => A[1].kind # "succeeded"
  BY <1>1, <1>4 DEF Passed, AnswersCounted, A
<1>9. AnswersCounted(getter'[c], sharer'[c], clientGot'[c], web'[c], webSent'[c], A)
  BY <1>1, <1>2, <1>6, <1>8 DEF AnswersCounted, sharing
<1> QED BY <1>1, <1>2, <1>3, <1>5, <1>7, <1>9, Told

LEMMA Repeated ==
  ASSUME NEW n \in Nat, NEW c \in Client
  PROVE  /\ Times(n, Msg("data", c)) \in Seq(Message) /\ Len(Times(n, Msg("data", c))) = n
         /\ \A i \in 1..Len(Times(n, Msg("data", c))) :
              /\ Times(n, Msg("data", c))[i].kind = "data"
              /\ Times(n, Msg("data", c))[i].kind # "CLOSE"
<1>1. Msg("data", c) \in Message /\ Msg("data", c).kind = "data"
  BY DEF Msg, Message
<1> QED BY <1>1 DEF Times

(* The first message to the getter is taken. *)
LEMMA GetterHears ==
  ASSUME IInv, lost = {}, NEW l \in Label, gEnd[l] \in {"OPEN", "CLOSING"}, toGetter[l] # <<>>
  PROVE  /\ gUser[l] \in Client /\ label[gUser[l]] = l
         /\ toGetter[l] \in Seq(Message) /\ toSharer[l] \in Seq(Message)
         /\ Only(toGetter[l], gUser[l])
         /\ Head(toGetter[l]).kind = "CLOSE" => sharer[gUser[l]] # "linked"
<1> DEFINE c == gUser[l]
<1>1. /\ c \in Client /\ label[c] = l
      /\ toGetter[l] \in Seq(Message) /\ toSharer[l] \in Seq(Message) /\ Of(l)
  BY LineAt DEF Of, Line, IInv, Users, Used
<1>2. Only(toGetter[l], c)
  BY <1>1 DEF Of, Line, Answers
<1>3. ASSUME Head(toGetter[l]).kind = "CLOSE", sharer[c] = "linked" PROVE FALSE
  <2>1. sEnd[l] = "OPEN"
    BY <1>1, <1>3, SharerAt DEF Live
  <2>2. NoClose(toGetter[l])
    BY <1>1, <2>1 DEF Of, Line, Answers
  <2>3. Head(toGetter[l]) = toGetter[l][1] /\ 1 \in 1..Len(toGetter[l])
    BY <1>1, TailAt
  <2> QED BY <1>3, <2>2, <2>3 DEF NoClose
<1> QED BY <1>1, <1>2, <1>3

LEMMA ReceiveResponsePasses ==
  ASSUME IInv, AllPassed, lost = {}, NEW l \in Label, ReceiveResponse(l)
  PROVE  AllPassed'
<1> DEFINE c == gUser[l]
           A == Tail(toGetter[l])
           T == Times(fromClient[c], Msg("data", c))
           Q == toSharer[l] \o T
<1>1. /\ c \in Client /\ label[c] = l
      /\ toGetter[l] \in Seq(Message) /\ toSharer[l] \in Seq(Message)
  BY GetterHears DEF ReceiveResponse
<1>2. /\ getter[c] = "response" /\ toGetter[l] # <<>> /\ Head(toGetter[l]).kind # "CLOSE"
      /\ toGetter' = [toGetter EXCEPT ![l] = A]
      /\ UNCHANGED <<server, clientSent, clientGot, label, gUser, sharing, others, lost>>
  BY DEF ReceiveResponse, Takes
<1>3. Passed(c) /\ label[c] # None
  BY <1>1, <1>2, StateOf DEF AllPassed
<1>4. /\ Len(A) = Len(toGetter[l]) - 1 /\ Len(toGetter[l]) \in Nat /\ Head(toGetter[l]) = toGetter[l][1]
      /\ (Closes(A) <=> Closes(toGetter[l])) /\ Closing(A) = Closing(toGetter[l])
  BY <1>1, <1>2, OneLess
<1>5. CASE WaitsForClient(c) /\ UNCHANGED fromClient
  <2>1. /\ getter' = [getter EXCEPT ![c] = "replying"] /\ UNCHANGED <<client, toSharer>>
    BY <1>5 DEF WaitsForClient
  <2>2. getter'[c] = "replying" /\ \A d \in Client \ {c} : Still(d)
    BY <1>1, <1>2, <1>5, <2>1 DEF Still, sharing, IInv, TypeOK
  <2>3. toSharer' = [toSharer EXCEPT ![l] = toSharer[l]]
    BY <2>1 DEF IInv, TypeOK
  <2>4. Prepares(getter[c], sharer[c], fromClient[c], clientSent[c], clientGot[c],
                 web[c], fromWeb[c], webSent[c], webGot[c])'
    BY <1>2, <1>3, <1>5, <2>2 DEF Passed, Prepares, sharing
  <2>5. AnswersCounted(getter'[c], sharer'[c], clientGot'[c], web'[c], webSent'[c], A)
    BY <2>2 DEF AnswersCounted
  <2>6. QuestionsCounted(getter'[c], sharer'[c], client'[c], clientSent'[c], webGot'[c], toSharer[l])
    BY <1>1, <1>2, <1>3, <2>1, <2>2 DEF Passed, QuestionsCounted, sharing
  <2> HIDE DEF c, A
  <2> QED BY <1>1, <1>2, <2>2, <2>3, <2>4, <2>5, <2>6, Told DEF c
<1>6. CASE Head(toGetter[l]).kind = "succeeded" /\ LinkGetter(c)
  <2>1. /\ getter' = [getter EXCEPT ![c] = "linked"] /\ fromClient' = [fromClient EXCEPT ![c] = 0]
        /\ Says(toSharer, gEnd, l, T) /\ UNCHANGED client
    BY <1>1, <1>6 DEF LinkGetter
  <2>2. getter'[c] = "linked" /\ \A d \in Client \ {c} : Still(d)
    BY <1>1, <1>2, <2>1 DEF Still, sharing, IInv, TypeOK
  <2>3. toSharer' = [toSharer EXCEPT ![l] = Q]
    BY <2>1 DEF ReceiveResponse, Says
  <2>4. Prepares(getter[c], sharer[c], fromClient[c], clientSent[c], clientGot[c],
                 web[c], fromWeb[c], webSent[c], webGot[c])'
    BY <1>2, <1>3, <2>2 DEF Passed, Prepares, sharing
  <2>5. AnswersCounted(getter'[c], sharer'[c], clientGot'[c], web'[c], webSent'[c], A)
    <3>1. /\ AnswersCounted(getter[c], sharer[c], clientGot[c], web[c], webSent[c], toGetter[l])
          /\ clientGot[c] = 0 /\ webSent[c] \in Nat
      BY <1>1, <1>2, <1>3, StateOf DEF Passed, Prepares
    <3>2. Len(A) + clientGot[c] = webSent[c] + Closing(A) /\ (Closes(A) => web[c] = "gone")
      <4>1. Closing(A) \in {0, 1}
        BY DEF Closing
      <4> HIDE DEF c, A
      <4> QED BY <1>2, <1>4, <1>6, <3>1, <4>1 DEF AnswersCounted
    <3> HIDE DEF A
    <3> QED BY <1>2, <2>2, <3>2 DEF AnswersCounted, sharing
  <2>6. QuestionsCounted(getter'[c], sharer'[c], client'[c], clientSent'[c], webGot'[c], Q)
    <3>1. CASE sharer[c] # "linked"
      BY <1>2, <3>1 DEF QuestionsCounted, sharing
    <3>2. CASE sharer[c] = "linked"
      <4>1. /\ webGot[c] = 0 /\ toSharer[l] = <<>> /\ clientSent[c] = fromClient[c] + 2
            /\ fromClient[c] \in Nat
        BY <1>1, <1>2, <1>3, <3>2, StateOf DEF Passed, QuestionsCounted, Prepares
      <4>2. /\ T \in Seq(Message) /\ Len(T) = fromClient[c]
            /\ \A i \in 1..Len(T) : T[i].kind # "CLOSE"
        BY <1>1, <4>1, Repeated
      <4>3. ~Closes(toSharer[l]) /\ Len(toSharer[l]) = 0
        BY <4>1 DEF Closes
      <4> HIDE DEF T
      <4>4. Len(Q) = Len(toSharer[l]) + Len(T) /\ ~Closes(Q)
        <5>1. Q = T
          BY <4>1, <4>2
        <5>2. T # <<>> => Len(T) \in 1..Len(T)
          BY <4>2
        <5> HIDE DEF Q
        <5> QED BY <4>2, <4>3, <5>1, <5>2 DEF Closes
      <4> HIDE DEF Q, c
      <4> QED BY <1>2, <2>2, <4>1, <4>2, <4>3, <4>4 DEF QuestionsCounted, sharing
    <3> QED BY <3>1, <3>2
  <2> HIDE DEF c, A, T, Q
  <2> QED BY <1>1, <1>2, <2>2, <2>3, <2>4, <2>5, <2>6, Told DEF c
<1>7. CASE Head(toGetter[l]).kind # "succeeded" /\ EndGetter(c) /\ UNCHANGED fromClient
  <2>1. sharer[c] # "linked"
    BY <1>1, <1>2, <1>3, <1>4, <1>7 DEF Passed, AnswersCounted
  <2>2. toGetter' = [toGetter EXCEPT ![label[c]] = A]
    BY <1>1, <1>2
  <2>3. PICK u \in Client : u = c
    BY <1>1
  <2>4. /\ EndGetter(u) /\ getter[u] = "response" /\ sharer[u] # "linked"
        /\ toGetter' = [toGetter EXCEPT ![label[u]] = A]
    BY <1>2, <1>7, <2>1, <2>2, <2>3 DEF EndGetter, StopGetter, SaysAndCloses, Says
  <2> HIDE DEF c, A, T, Q
  <2> QED BY <1>2, <1>7, <2>4, EndGetterPasses
<1> QED BY <1>5, <1>6, <1>7 DEF ReceiveResponse

LEMMA ReceiveAnswerPasses ==
  ASSUME IInv, AllPassed, lost = {}, NEW l \in Label, ReceiveAnswer(l)
  PROVE  AllPassed'
<1> DEFINE c == gUser[l]
           A == Tail(toGetter[l])
<1>1. /\ c \in Client /\ label[c] = l
      /\ toGetter[l] \in Seq(Message) /\ toSharer[l] \in Seq(Message)
  BY GetterHears DEF ReceiveAnswer
<1>2. /\ getter[c] = "linked" /\ toGetter[l] # <<>> /\ Head(toGetter[l]).kind # "CLOSE"
      /\ toGetter' = [toGetter EXCEPT ![l] = A]
      /\ clientGot' = [clientGot EXCEPT ![c] = clientGot[c] + 1]
      /\ UNCHANGED <<server, client, fromClient, clientSent, getter, label, gEnd, gUser, sharing,
                     toSharer, others, lost>>
  BY DEF ReceiveAnswer, Takes
<1>3. Passed(c) /\ label[c] # None
  BY <1>1, <1>2, StateOf DEF AllPassed
<1>4. /\ Len(A) = Len(toGetter[l]) - 1 /\ Len(toGetter[l]) \in Nat
      /\ (Closes(A) <=> Closes(toGetter[l])) /\ Closing(A) = Closing(toGetter[l])
  BY <1>1, <1>2, OneLess
<1>5. /\ clientGot'[c] = clientGot[c] + 1 /\ toSharer' = [toSharer EXCEPT ![l] = toSharer[l]]
      /\ \A d \in Client \ {c} : Still(d)
  BY <1>1, <1>2 DEF Still, sharing, IInv, TypeOK
<1>6. Prepares(getter[c], sharer[c], fromClient[c], clientSent[c], clientGot[c],
               web[c], fromWeb[c], webSent[c], webGot[c])'
  BY <1>2, <1>3 DEF Passed, Prepares, sharing
<1>7. AnswersCounted(getter'[c], sharer'[c], clientGot'[c], web'[c], webSent'[c], A)
  <2>1. /\ AnswersCounted(getter[c], sharer[c], clientGot[c], web[c], webSent[c], toGetter[l])
        /\ clientGot[c] \in Nat
    BY <1>1, <1>3, StateOf DEF Passed
  <2>2. Closing(A) \in {0, 1}
    BY DEF Closing
  <2> HIDE DEF c, A
  <2> QED BY <1>2, <1>4, <1>5, <2>1, <2>2 DEF AnswersCounted, sharing
<1>8. QuestionsCounted(getter'[c], sharer'[c], client'[c], clientSent'[c], webGot'[c], toSharer[l])
  BY <1>1, <1>2, <1>3 DEF Passed, sharing
<1> HIDE DEF c, A
<1> QED BY <1>1, <1>2, <1>5, <1>6, <1>7, <1>8, Told DEF c

LEMMA GetterIgnoresPasses ==
  ASSUME IInv, AllPassed, lost = {}, NEW l \in Label, GetterIgnores(l)
  PROVE  AllPassed'
<1>1. /\ gEnd[l] = "CLOSING" /\ toGetter' = [toGetter EXCEPT ![l] = Tail(toGetter[l])]
      /\ UNCHANGED <<getting, sharing, toSharer, others, lost>>
  BY DEF GetterIgnores, Takes
<1>2. Heeds(None) /\ \A d \in Client \ {None} : Still(d)
  BY <1>1 DEF Heeds, Still, getting, sharing, IInv, TypeOK
<1>3. None \notin Client
  BY SessionsAssumption DEF Client
<1> QED BY <1>1, <1>2, <1>3, AllBut DEF getting

LEMMA GetterClosedPasses ==
  ASSUME IInv, AllPassed, lost = {}, NEW l \in Label, GetterClosed(l)
  PROVE  AllPassed'
<1> DEFINE c == gUser[l]
           A == Tail(toGetter[l])
           Q == IF gEnd[l] = "OPEN" THEN toSharer[l] \o <<Msg("CLOSE", c)>> ELSE toSharer[l]
<1>1. /\ c \in Client /\ label[c] = l /\ sharer[c] # "linked"
  BY GetterHears DEF GetterClosed
<1>2. /\ toGetter' = [toGetter EXCEPT ![l] = A] /\ StopGetter({c})
      /\ toSharer' = [toSharer EXCEPT ![l] = Q]
      /\ UNCHANGED <<server, fromClient, clientSent, clientGot, label, gUser, sharing, others, lost>>
  BY DEF GetterClosed, Takes, Says
<1>3. Passed(c)
  BY <1>1 DEF AllPassed
<1>4. getter'[c] = "stopped" /\ \A d \in Client \ {c} : Still(d)
  BY <1>1, <1>2 DEF StopGetter, Still, sharing, IInv, TypeOK
<1>5. Prepares(getter[c], sharer[c], fromClient[c], clientSent[c], clientGot[c],
               web[c], fromWeb[c], webSent[c], webGot[c])'
  BY <1>2, <1>3, <1>4 DEF Passed, Prepares, sharing
<1>6. /\ AnswersCounted(getter'[c], sharer'[c], clientGot'[c], web'[c], webSent'[c], A)
      /\ QuestionsCounted(getter'[c], sharer'[c], client'[c], clientSent'[c], webGot'[c], Q)
  BY <1>1, <1>2, <1>4 DEF AnswersCounted, QuestionsCounted, sharing
<1> HIDE DEF c, A, Q
<1> QED BY <1>1, <1>2, <1>4, <1>5, <1>6, Told DEF c

(* The client of a linked session. *)
LEMMA ClientPasses ==
  ASSUME IInv, AllPassed, lost = {}, NEW c \in Client, getter[c] = "linked",
         ClientSends(c) \/ ClientGone(c)
  PROVE  AllPassed'
<1> DEFINE l == label[c]
           m == Msg("data", c)
           Q1 == toSharer[l] \o <<m>>
           Q2 == Append(toSharer[l], Msg("CLOSE", c))
<1>1. /\ l \in Label /\ gUser[l] = c /\ toSharer[l] \in Seq(Message) /\ toGetter[l] \in Seq(Message)
      /\ toGetter = [toGetter EXCEPT ![l] = toGetter[l]]
      /\ ~Closes(toSharer[l]) \/ sharer[c] # "linked"
  BY GetterTold DEF Talking
<1>2. Passed(c) /\ l # None
  BY StateOf DEF AllPassed
<1>3. /\ AnswersCounted(getter[c], sharer[c], clientGot[c], web[c], webSent[c], toGetter[l])
      /\ QuestionsCounted(getter[c], sharer[c], client[c], clientSent[c], webGot[c], toSharer[l])
      /\ Len(toSharer[l]) \in Nat /\ clientSent[c] \in Nat /\ webGot[c] \in Nat
  BY <1>2, StateOf DEF Passed
<1>4. CASE ClientSends(c)
  <2>1. /\ clientSent' = [clientSent EXCEPT ![c] = clientSent[c] + 1]
        /\ toSharer' = [toSharer EXCEPT ![l] = Q1]
        /\ UNCHANGED <<server, client, clientGot, getter, fromClient, label, gEnd, gUser, sharing, toGetter,
                 others, lost>>
    BY <1>4, GetterTold DEF ClientSends, Talking
  <2>2. clientSent'[c] = clientSent[c] + 1 /\ \A d \in Client \ {c} : Still(d)
    BY <2>1 DEF Still, sharing, IInv, TypeOK
  <2>3. Q1 = Append(toSharer[l], m) /\ m.kind = "data"
    <3>1. m \in Message
      BY DEF Msg, Message
    <3> QED BY <1>1, <3>1, AppendIsConcat DEF Msg
  <2> HIDE DEF l, m, Q1
  <2>4. Len(Q1) = Len(toSharer[l]) + 1 /\ ~Closes(Q1)
    BY <1>1, <2>3, OneMore
  <2>5. QuestionsCounted(getter'[c], sharer'[c], client'[c], clientSent'[c], webGot'[c], Q1)
    BY <1>3, <2>1, <2>2, <2>4 DEF QuestionsCounted, sharing
  <2>6. AnswersCounted(getter'[c], sharer'[c], clientGot'[c], web'[c], webSent'[c], toGetter[l])
    BY <1>3, <2>1 DEF sharing
  <2>7. Prepares(getter[c], sharer[c], fromClient[c], clientSent[c], clientGot[c],
                 web[c], fromWeb[c], webSent[c], webGot[c])'
    BY <1>2, <2>1, <2>2 DEF Passed, Prepares, sharing
  <2> QED BY <1>1, <2>1, <2>2, <2>5, <2>6, <2>7, Told DEF l
<1>5. CASE ClientGone(c)
  <2>1. /\ client' = [client EXCEPT ![c] = "gone"] /\ getter' = [getter EXCEPT ![c] = "stopped"]
        /\ toSharer' = [toSharer EXCEPT ![l] = Q2]
        /\ UNCHANGED <<server, fromClient, clientSent, clientGot, label, gUser, sharing, toGetter, others, lost>>
    BY <1>5, GetterTold DEF ClientGone, Talking
  <2>2. client'[c] = "gone" /\ getter'[c] = "stopped" /\ \A d \in Client \ {c} : Still(d)
    BY <2>1 DEF Still, sharing, IInv, TypeOK
  <2>3. Len(Q2) = Len(toSharer[l]) + 1
    <3> HIDE DEF l
    <3> QED BY <1>1, OneMore
  <2> HIDE DEF l, Q2
  <2>5. QuestionsCounted(getter'[c], sharer'[c], client'[c], clientSent'[c], webGot'[c], Q2)
    BY <1>3, <2>1, <2>2, <2>3 DEF QuestionsCounted, sharing
  <2>6. AnswersCounted(getter'[c], sharer'[c], clientGot'[c], web'[c], webSent'[c], toGetter[l])
    BY <2>2 DEF AnswersCounted
  <2>7. Prepares(getter[c], sharer[c], fromClient[c], clientSent[c], clientGot[c],
                 web[c], fromWeb[c], webSent[c], webGot[c])'
    BY <1>2, <2>1, <2>2 DEF Passed, Prepares, sharing
  <2> QED BY <1>1, <2>1, <2>2, <2>5, <2>6, <2>7, Told DEF l
<1> QED BY <1>4, <1>5

(* The sharer's session c, while it lives. *)
LEMMA SharerTold ==
  ASSUME IInv, AllPassed, lost = {}, NEW c \in Client, sharer[c] \in Live, NEW T
  PROVE  /\ label[c] \in Label /\ gUser[label[c]] = c /\ sEnd[label[c]] = "OPEN"
         /\ toSharer[label[c]] \in Seq(Message) /\ toGetter[label[c]] \in Seq(Message)
         /\ toSharer = [toSharer EXCEPT ![label[c]] = toSharer[label[c]]]
         /\ Passed(c) /\ label[c] # None
         /\ getter[c] \in {"response", "linked"} => ~Closes(toGetter[label[c]])
         /\ sharer[c] \in Early => getter[c] # "linked"
         /\ sharer[c] \in Early /\ getter[c] \in {"auth", "request", "response"} => toGetter[label[c]] = <<>>
         /\ sharer[c] = "connecting" => toSharer[label[c]] = <<>> /\ getter[c] \notin {"auth", "request"}
         /\ Says(toGetter, sEnd, label[c], T) =>
              toGetter' = [toGetter EXCEPT ![label[c]] = toGetter[label[c]] \o T]
<1> DEFINE l == label[c]
<1>1. l \in Label /\ gUser[l] = c /\ sUser[l] = c /\ sEnd[l] = "OPEN" /\ c # None /\ l # None
  BY SharerAt, SessionsAssumption DEF Client
<1>2. toSharer[l] \in Seq(Message) /\ toGetter[l] \in Seq(Message) /\ Of(l)
  BY <1>1, LineAt
<1>3. toSharer = [toSharer EXCEPT ![l] = toSharer[l]]
  BY <1>1 DEF IInv, TypeOK
<1>4. Says(toGetter, sEnd, l, T) => toGetter' = [toGetter EXCEPT ![l] = toGetter[l] \o T]
  BY <1>1 DEF Says
<1>5. Heard(c, gEnd[l], sEnd[l], toSharer[l], getter[c], sharer[c])
  BY <1>1, <1>2 DEF Of, Line, Questions
<1>6. Answers(c, c, gEnd[l], sEnd[l], toGetter[l], sharer[c])
  BY <1>1, <1>2 DEF Of, Line
<1>7. ~Closes(toGetter[l])
  <2>1. toGetter[l] # <<>> => Len(toGetter[l]) \in 1..Len(toGetter[l])
    BY <1>2
  <2> QED BY <1>1, <1>6, <2>1 DEF Answers, NoClose, Closes
<1> QED BY <1>1, <1>2, <1>3, <1>4, <1>5, <1>6, <1>7 DEF Heard, Answers, Early, AllPassed

(* A session of the sharer ends before it is linked. *)
LEMMA FailurePasses ==
  ASSUME IInv, AllPassed, lost = {}, NEW c \in Client, sharer[c] \in Early,
         \A d \in Client \ {c} : Still(d), UNCHANGED <<getting, others, webGot, webSent>>,
         sharer'[c] \in {"stopping", "stopped"}, web'[c] \notin {"connecting", "open"},
         NEW Q, toSharer' = [toSharer EXCEPT ![label[c]] = Q],
         SaysAndCloses(toGetter, sEnd, label[c], c, <<Msg("failure", c)>>)
  PROVE  AllPassed'
<1> DEFINE T == <<Msg("failure", c)>> \o <<Msg("CLOSE", c)>>
           A == toGetter[label[c]] \o T
<1>1. /\ label[c] \in Label /\ gUser[label[c]] = c /\ toGetter[label[c]] \in Seq(Message)
      /\ Passed(c) /\ label[c] # None /\ getter[c] # "linked"
      /\ getter[c] \in {"auth", "request", "response"} => toGetter[label[c]] = <<>>
  BY SharerTold DEF Live, Early
<1>2. toGetter' = [toGetter EXCEPT ![label[c]] = A]
  <2>1. Says(toGetter, sEnd, label[c], T)
    BY DEF SaysAndCloses
  <2>2. sharer[c] \in Live
    BY DEF Live, Early
  <2> HIDE DEF T
  <2> QED BY <2>1, <2>2, SharerTold
<1>3. getter[c] \in {"auth", "request", "response"} => A # <<>> /\ A[1].kind = "failure"
  <2>1. T \in Seq(Message) /\ T # <<>> /\ T[1] = Msg("failure", c) /\ Msg("failure", c).kind = "failure"
    BY DEF Msg, Message
  <2> HIDE DEF T
  <2>2. toGetter[label[c]] = <<>> => A = T
    BY <2>1
  <2> QED BY <1>1, <2>1, <2>2
<1> HIDE DEF A
<1>4. Prepares(getter[c], sharer[c], fromClient[c], clientSent[c], clientGot[c],
               web[c], fromWeb[c], webSent[c], webGot[c])'
  BY <1>1 DEF Passed, Prepares, getting
<1>5. /\ AnswersCounted(getter'[c], sharer'[c], clientGot'[c], web'[c], webSent'[c], A)
      /\ QuestionsCounted(getter'[c], sharer'[c], client'[c], clientSent'[c], webGot'[c], Q)
  BY <1>1, <1>3 DEF AnswersCounted, QuestionsCounted, getting
<1> QED BY <1>1, <1>2, <1>4, <1>5, Told DEF getting

(* What EndSharer does. *)
LEMMA EndOf ==
  ASSUME IInv, NEW c \in Client, NEW reply, EndSharer(c, reply)
  PROVE  /\ sharer'[c] \in {"stopping", "stopped"}
         /\ web'[c] = IF web[c] = "open" THEN "closing" ELSE web[c]
         /\ \A d \in Client \ {c} : sharer'[d] = sharer[d] /\ web'[d] = web[d]
         /\ SaysAndCloses(toGetter, sEnd, label[c], c, reply)
<1>1. /\ SaysAndCloses(toGetter, sEnd, label[c], c, reply) /\ StopResources({c}, {})
  BY DEF EndSharer
<1>2. PICK slow \in SUBSET {c} :
        /\ c \in slow <=> web[c] = "open"
        /\ sharer' = [d \in Client |-> IF d \in slow THEN "stopping"
                                       ELSE IF d \in {c} THEN "stopped" ELSE sharer[d]]
        /\ web' = [d \in Client |-> IF d \in {} THEN "abandoned"
                                    ELSE IF d \in slow THEN "closing" ELSE web[d]]
  <2> DEFINE slow == {} \cup {d \in {c} : web[d] = "open"}
  <2>1. slow \in SUBSET {c} /\ (c \in slow <=> web[c] = "open")
    OBVIOUS
  <2>2. /\ sharer' = [d \in Client |-> IF d \in slow THEN "stopping"
                                       ELSE IF d \in {c} THEN "stopped" ELSE sharer[d]]
        /\ web' = [d \in Client |-> IF d \in {} THEN "abandoned"
                                    ELSE IF d \in slow THEN "closing" ELSE web[d]]
    BY <1>1 DEF StopResources
  <2> HIDE DEF slow
  <2> QED BY <2>1, <2>2
<1> QED BY <1>1, <1>2

LEMMA ReceiveEndpointPasses ==
  ASSUME IInv, AllPassed, lost = {}, NEW l \in Label, NEW c, c = sUser[l], ReceiveEndpoint(l)
  PROVE  AllPassed'
<1> DEFINE Q == Tail(toSharer[l])
<1>1. /\ sharer[c] = "waiting" /\ sEnd[l] = "OPEN" /\ toSharer' = [toSharer EXCEPT ![l] = Q]
      /\ UNCHANGED <<getting, sUser, fromWeb, webSent, webGot, others, lost>>
  BY DEF ReceiveEndpoint, Takes
<1>2. c \in Client /\ label[c] = l
  BY <1>1, SharerOf
<1>3. /\ gUser[l] = c /\ Passed(c) /\ label[c] # None /\ getter[c] # "linked"
      /\ getter[c] \in {"auth", "request", "response"} => toGetter[l] = <<>>
  BY <1>1, <1>2, SharerTold DEF Live, Early
<1>4. web[c] \notin {"connecting", "open"}
  BY <1>1, <1>3 DEF Passed, Prepares
<1> HIDE DEF Q
<1>5. CASE sharer' = [sharer EXCEPT ![c] = "connecting"] /\ web' = [web EXCEPT ![c] = "connecting"]
           /\ UNCHANGED toGetter
  <2>1. /\ sharer'[c] = "connecting" /\ web'[c] = "connecting" /\ \A d \in Client \ {c} : Still(d)
        /\ toGetter' = [toGetter EXCEPT ![l] = toGetter[l]]
    BY <1>1, <1>2, <1>5 DEF Still, getting, IInv, TypeOK
  <2>2. Prepares(getter[c], sharer[c], fromClient[c], clientSent[c], clientGot[c],
                 web[c], fromWeb[c], webSent[c], webGot[c])'
    BY <1>1, <1>3, <2>1 DEF Passed, Prepares, getting
  <2>3. /\ AnswersCounted(getter'[c], sharer'[c], clientGot'[c], web'[c], webSent'[c], toGetter[l])
        /\ QuestionsCounted(getter'[c], sharer'[c], client'[c], clientSent'[c], webGot'[c], Q)
    BY <1>1, <1>3, <2>1 DEF AnswersCounted, QuestionsCounted, getting
  <2> QED BY <1>1, <1>2, <1>3, <2>1, <2>2, <2>3, Told DEF getting
<1>6. CASE EndSharer(c, <<Msg("failure", c)>>)
  <2>1. /\ sharer'[c] \in {"stopping", "stopped"} /\ web'[c] = web[c]
        /\ \A d \in Client \ {c} : sharer'[d] = sharer[d] /\ web'[d] = web[d]
        /\ SaysAndCloses(toGetter, sEnd, label[c], c, <<Msg("failure", c)>>)
    BY <1>2, <1>4, <1>6, EndOf
  <2>2. \A d \in Client \ {c} : Still(d)
    BY <1>1, <2>1 DEF Still, getting
  <2>3. toSharer' = [toSharer EXCEPT ![label[c]] = Q] /\ web'[c] \notin {"connecting", "open"}
    BY <1>1, <1>2, <1>4, <2>1
  <2>4. UNCHANGED <<getting, others, webGot, webSent>> /\ sharer[c] \in Early
    BY <1>1 DEF Early
  <2> QED BY <1>2, <2>1, <2>2, <2>3, <2>4, FailurePasses
<1>7. CASE EndSharer(sUser[l], <<Msg("failure", sUser[l])>>)
  <2>1. EndSharer(c, <<Msg("failure", c)>>)
    BY <1>7 DEF EndSharer, StopResources, SaysAndCloses, Says, Discard, Msg
  <2> QED BY <1>6, <2>1
<1> QED BY <1>5, <1>7 DEF ReceiveEndpoint

LEMMA NotConnectedPasses ==
  ASSUME IInv, AllPassed, lost = {}, NEW c \in Client, NotConnected(c)
  PROVE  AllPassed'
<1>1. /\ sharer[c] = "connecting" /\ sharer' = [sharer EXCEPT ![c] = "stopped"]
      /\ web' = [web EXCEPT ![c] = "closed"]
      /\ SaysAndCloses(toGetter, sEnd, label[c], c, <<Msg("failure", c)>>)
      /\ UNCHANGED <<getting, sUser, fromWeb, webSent, webGot, toSharer, others, lost>>
  BY DEF NotConnected
<1>2. sharer'[c] = "stopped" /\ web'[c] = "closed" /\ \A d \in Client \ {c} : Still(d)
  BY <1>1 DEF Still, getting, IInv, TypeOK
<1>3. toSharer' = [toSharer EXCEPT ![label[c]] = toSharer[label[c]]]
  BY <1>1, SharerTold DEF Live
<1> QED BY <1>1, <1>2, <1>3, FailurePasses DEF Early

LEMMA AnsweredLatePasses ==
  ASSUME IInv, lost = {}, NEW c \in Client, AnsweredLate(c)
  PROVE  FALSE
BY DEF AnsweredLate, IInv, Users, User

(* A sequence behind another. *)
LEMMA Behind ==
  ASSUME NEW H \in Seq(Message), NEW D \in Seq(Message)
  PROVE  /\ H \o D \in Seq(Message) /\ Len(H \o D) = Len(H) + Len(D)
         /\ Len(H) \in Nat /\ Len(D) \in Nat
         /\ \A i \in 1..Len(H) : (H \o D)[i] = H[i]
         /\ \A i \in 1..Len(D) : (H \o D)[i + Len(H)] = D[i]
OBVIOUS

(* R: the sharer's reply that it is connected, and n packets of the web; Z:   *)
(* that and a CLOSE.                                                          *)
ConnectedReply(n, c, R, Z) ==
  /\ R = <<Msg("succeeded", c)>> \o Times(n, Msg("data", c))
  /\ Z = R \o <<Msg("CLOSE", c)>>

LEMMA LinkReply ==
  ASSUME NEW n \in Nat, NEW c \in Client, NEW R, NEW Z, ConnectedReply(n, c, R, Z)
  PROVE  /\ R[1].kind = "succeeded" /\ R # <<>> /\ R \in Seq(Message)
         /\ Len(R) = n + 1 /\ ~Closes(R) /\ Closing(R) = 0
         /\ Z[1].kind = "succeeded" /\ Z # <<>> /\ Z \in Seq(Message)
         /\ Len(Z) = n + 2 /\ Closes(Z) /\ Closing(Z) = 1
<1>0. PICK s, z, D, H : /\ s = Msg("succeeded", c) /\ z = Msg("CLOSE", c)
                        /\ D = Times(n, Msg("data", c)) /\ H = <<s>>
                        /\ R = H \o D /\ Z = R \o <<z>>
  BY DEF ConnectedReply
<1>1. s \in Message /\ s.kind = "succeeded" /\ z \in Message /\ z.kind = "CLOSE"
  BY <1>0 DEF Msg, Message
<1>2. D \in Seq(Message) /\ Len(D) = n /\ \A i \in 1..Len(D) : D[i].kind # "CLOSE"
  BY <1>0, Repeated
<1>3. R = H \o D
  BY <1>0
<1>3a. Z = R \o <<z>>
  BY <1>0
<1>3b. H = <<s>>
  BY <1>0
<1>3c. H \in Seq(Message) /\ Len(H) = 1 /\ H[1] = s
  BY <1>1, <1>3b
<1>4. /\ R \in Seq(Message) /\ Len(R) = n + 1 /\ R[1] = s
      /\ \A i \in 1..Len(D) : R[i + 1] = D[i]
  <2>1. s \in Message /\ D \in Seq(Message) /\ Len(D) = n
    BY <1>1, <1>2
  <2>2. /\ R \in Seq(Message) /\ Len(R) = Len(H) + Len(D)
        /\ \A i \in 1..Len(H) : R[i] = H[i]
        /\ \A i \in 1..Len(D) : R[i + Len(H)] = D[i]
    <3>1. H \in Seq(Message)
      BY <1>3c
    <3> QED BY <1>3, <2>1, <3>1, Behind
  <2> QED BY <1>3c, <2>1, <2>2
<1>4a. R # <<>>
  BY <1>4
<1>5. R[n + 1].kind # "CLOSE"
  <2>1. CASE n = 0
    BY <1>1, <1>4, <2>1
  <2>2. CASE n > 0
    <3>1. n \in 1..Len(D)
      BY <1>2, <2>2
    <3> QED BY <1>2, <1>4, <3>1
  <2>3. n = 0 \/ n > 0
    OBVIOUS
  <2> QED BY <2>1, <2>2, <2>3
<1>6. Z = Append(R, z)
  BY <1>1, <1>3a, <1>4, AppendIsConcat
<1>7. Len(Z) = n + 2 /\ Z \in Seq(Message) /\ Z # <<>> /\ Z[1] = R[1] /\ Closes(Z) /\ Closing(Z) = 1
  <2>1. Z \in Seq(Message)
    BY <1>1, <1>4, <1>6
  <2>2. Len(Z) = Len(R) + 1 /\ Z # <<>> /\ Z[1] = R[1] /\ Closes(Z) /\ Closing(Z) = 1
    <3>1. R \in Seq(Message) /\ z.kind = "CLOSE" /\ R # <<>>
      BY <1>1, <1>4, <1>4a
    <3>2. Len(Z) = Len(R) + 1 /\ Z # <<>> /\ Z[1] = R[1]
      BY <1>6, <3>1, OneMore
    <3>3. Closes(Z) <=> z.kind = "CLOSE"
      BY <1>6, <3>1, OneMore
    <3> QED BY <3>1, <3>2, <3>3 DEF Closing
  <2>3. Len(R) = n + 1
    BY <1>4
  <2>4. Len(Z) = n + 2
    BY <2>2, <2>3
  <2> QED BY <2>1, <2>2, <2>4
<1>8. ~Closes(R)
  BY <1>4, <1>5 DEF Closes
<1>9. R[1].kind = "succeeded" /\ Z[1].kind = "succeeded"
  BY <1>1, <1>4, <1>7
<1> QED BY <1>4, <1>4a, <1>7, <1>8, <1>9 DEF Closing

(* The sharer replies that it is connected, and sends on what the web has sent. *)
LEMMA LinkPasses ==
  ASSUME IInv, AllPassed, lost = {}, NEW c \in Client, sharer[c] = "connecting", LinkSharer(c),
         web[c] \in {"open", "gone"},
         UNCHANGED <<getting, sUser, webSent, webGot, toSharer, others, lost>>
  PROVE  AllPassed'
<1> DEFINE l == label[c]
           D == Times(fromWeb[c], Msg("data", c))
           R == <<Msg("succeeded", c)>> \o D
           Z == R \o <<Msg("CLOSE", c)>>
<1>1. /\ l \in Label /\ gUser[l] = c /\ sEnd[l] = "OPEN"
      /\ toSharer[l] = <<>> /\ toGetter[l] \in Seq(Message)
      /\ toSharer = [toSharer EXCEPT ![l] = toSharer[l]]
      /\ Passed(c) /\ l # None /\ getter[c] \notin {"auth", "request", "linked"}
      /\ getter[c] = "response" => toGetter[l] = <<>>
  BY SharerTold DEF Live, Early
<1>2. /\ fromWeb[c] \in Nat /\ webSent[c] = fromWeb[c] /\ webGot[c] = 0
  BY <1>1, StateOf DEF Passed, Prepares
<1>5. /\ R[1].kind = "succeeded" /\ R # <<>> /\ R \in Seq(Message)
      /\ Len(R) = fromWeb[c] + 1 /\ ~Closes(R) /\ Closing(R) = 0
      /\ Z[1].kind = "succeeded" /\ Z # <<>> /\ Z \in Seq(Message)
      /\ Len(Z) = fromWeb[c] + 2 /\ Closes(Z) /\ Closing(Z) = 1
  <2> DEFINE n == fromWeb[c]
  <2>1. n \in Nat /\ ConnectedReply(n, c, R, Z)
    BY <1>2 DEF ConnectedReply
  <2> HIDE DEF n, R, Z
  <2>2. Len(R) = n + 1 /\ Len(Z) = n + 2 /\ n = fromWeb[c]
    BY <2>1, LinkReply DEF n
  <2> QED BY <2>1, <2>2, LinkReply
<1> HIDE DEF R, Z
<1>7. CASE web[c] = "gone" /\ EndSharer(c, R)
  <2>1. /\ sharer'[c] \in {"stopping", "stopped"} /\ web'[c] = "gone"
        /\ \A d \in Client \ {c} : sharer'[d] = sharer[d] /\ web'[d] = web[d]
        /\ SaysAndCloses(toGetter, sEnd, label[c], c, R)
    <3>1. PICK r : r = R
      OBVIOUS
    <3>2. EndSharer(c, r)
      BY <1>7, <3>1 DEF EndSharer, SaysAndCloses, Says
    <3>3. /\ sharer'[c] \in {"stopping", "stopped"} /\ web'[c] = "gone"
          /\ \A d \in Client \ {c} : sharer'[d] = sharer[d] /\ web'[d] = web[d]
          /\ SaysAndCloses(toGetter, sEnd, label[c], c, r)
      BY <1>7, <3>2, EndOf
    <3> QED BY <3>1, <3>3 DEF SaysAndCloses, Says
  <2>2. \A d \in Client \ {c} : Still(d)
    BY <2>1 DEF LinkSharer, Still, getting, IInv, TypeOK
  <2>3. toGetter' = [toGetter EXCEPT ![l] = toGetter[l] \o Z]
    BY <1>1, <2>1 DEF SaysAndCloses, Says, Z
  <2>4. getter[c] = "response" => toGetter[l] \o Z = Z
    <3>1. Z \in Seq(Message) /\ (getter[c] = "response" => toGetter[l] = <<>>)
      BY <1>1, <1>5
    <3> HIDE DEF l
    <3> QED BY <3>1
  <2> DEFINE A == toGetter[l] \o Z
  <2> HIDE DEF A
  <2>5. Prepares(getter[c], sharer[c], fromClient[c], clientSent[c], clientGot[c],
                 web[c], fromWeb[c], webSent[c], webGot[c])'
    BY <1>1, <2>1 DEF Passed, Prepares, getting
  <2>6. AnswersCounted(getter'[c], sharer'[c], clientGot'[c], web'[c], webSent'[c], A)
    <3>1. getter[c] = "response" => A = Z
      BY <2>4 DEF A
    <3> QED BY <1>1, <1>2, <1>5, <2>1, <3>1 DEF AnswersCounted, getting
  <2>7. QuestionsCounted(getter'[c], sharer'[c], client'[c], clientSent'[c], webGot'[c], toSharer[l])
    BY <2>1 DEF QuestionsCounted
  <2>8. toGetter' = [toGetter EXCEPT ![l] = A] /\ toSharer' = [toSharer EXCEPT ![l] = toSharer[l]]
    BY <1>1, <2>3 DEF A
  <2> HIDE DEF l
  <2> QED BY <1>1, <2>2, <2>5, <2>6, <2>7, <2>8, Told DEF l, getting
<1>8. CASE /\ sharer' = [sharer EXCEPT ![c] = "linked"] /\ Says(toGetter, sEnd, l, R)
           /\ UNCHANGED <<web, sEnd, sessions_, numSessions_>>
           /\ web[c] # "gone"
  <2>1. sharer'[c] = "linked" /\ web'[c] = web[c] /\ \A d \in Client \ {c} : Still(d)
    BY <1>8 DEF LinkSharer, Still, getting, IInv, TypeOK
  <2>2. toGetter' = [toGetter EXCEPT ![l] = toGetter[l] \o R]
    BY <1>1, <1>8 DEF Says
  <2>3. getter[c] = "response" => toGetter[l] \o R = R
    <3>1. R \in Seq(Message) /\ (getter[c] = "response" => toGetter[l] = <<>>)
      BY <1>1, <1>5
    <3> HIDE DEF l
    <3> QED BY <3>1
  <2> DEFINE A == toGetter[l] \o R
  <2> HIDE DEF A
  <2>4. Prepares(getter[c], sharer[c], fromClient[c], clientSent[c], clientGot[c],
                 web[c], fromWeb[c], webSent[c], webGot[c])'
    BY <1>1, <1>8, <2>1 DEF Passed, Prepares, getting
  <2>5. AnswersCounted(getter'[c], sharer'[c], clientGot'[c], web'[c], webSent'[c], A)
    <3>1. getter[c] = "response" => A = R
      BY <2>3 DEF A
    <3> QED BY <1>1, <1>2, <1>5, <2>1, <3>1 DEF AnswersCounted, getting
  <2>6. QuestionsCounted(getter'[c], sharer'[c], client'[c], clientSent'[c], webGot'[c], toSharer[l])
    BY <1>1, <1>2, <2>1 DEF QuestionsCounted, Closes, getting
  <2>7. toGetter' = [toGetter EXCEPT ![l] = A] /\ toSharer' = [toSharer EXCEPT ![l] = toSharer[l]]
    BY <1>1, <2>2 DEF A
  <2> HIDE DEF l
  <2> QED BY <1>1, <2>1, <2>4, <2>5, <2>6, <2>7, Told DEF l, getting
<1> QED BY <1>7, <1>8 DEF LinkSharer, R, D, l

LEMMA ConnectedPasses ==
  ASSUME IInv, AllPassed, lost = {}, NEW c \in Client, Connected(c)
  PROVE  AllPassed'
<1>1. /\ sharer[c] = "connecting" /\ web[c] \in {"open", "gone"}
      /\ UNCHANGED <<getting, sUser, webSent, webGot, toSharer, others, lost>>
  BY DEF Connected
<1>2. CASE LinkSharer(c)
  BY <1>1, <1>2, LinkPasses
<1>3. CASE EndSharer(c, <<Msg("failure", c)>>) /\ UNCHANGED fromWeb
  <2>1. /\ sharer'[c] \in {"stopping", "stopped"} /\ web'[c] \notin {"connecting", "open"}
        /\ \A d \in Client \ {c} : sharer'[d] = sharer[d] /\ web'[d] = web[d]
        /\ SaysAndCloses(toGetter, sEnd, label[c], c, <<Msg("failure", c)>>)
    BY <1>1, <1>3, EndOf
  <2>2. \A d \in Client \ {c} : Still(d)
    BY <1>1, <1>3, <2>1 DEF Still, getting
  <2>3. toSharer' = [toSharer EXCEPT ![label[c]] = toSharer[label[c]]]
    BY <1>1, SharerTold DEF Live
  <2>4. UNCHANGED <<getting, others, webGot, webSent>> /\ sharer[c] \in Early
    BY <1>1 DEF Early
  <2> QED BY <2>1, <2>2, <2>3, <2>4, FailurePasses
<1> QED BY <1>2, <1>3 DEF Connected

(* The web at the end of a linked session. *)
LEMMA WebPasses ==
  ASSUME IInv, AllPassed, lost = {}, NEW c \in Client, sharer[c] = "linked", WebSends(c) \/ WebGone(c)
  PROVE  AllPassed'
<1> DEFINE l == label[c]
           m == Msg("data", c)
           z == Msg("CLOSE", c)
           A1 == Append(toGetter[l], m)
           A2 == Append(toGetter[l], z)
<1>1. /\ l \in Label /\ gUser[l] = c /\ sEnd[l] = "OPEN" /\ toGetter[l] \in Seq(Message)
      /\ toSharer' = toSharer => toSharer' = [toSharer EXCEPT ![l] = toSharer[l]]
      /\ Passed(c) /\ l # None
      /\ getter[c] \in {"response", "linked"} => ~Closes(toGetter[l])
  BY SharerTold DEF Live
<1>2. /\ web[c] = "open" /\ Len(toGetter[l]) \in Nat /\ clientGot[c] \in Nat /\ webSent[c] \in Nat
      /\ UNCHANGED <<getting, toSharer, webGot, others, lost>>
  BY <1>1, StateOf DEF WebSends, WebGone
<1>3. /\ AnswersCounted(getter[c], sharer[c], clientGot[c], web[c], webSent[c], toGetter[l])
      /\ QuestionsCounted(getter[c], sharer[c], client[c], clientSent[c], webGot[c], toSharer[l])
      /\ getter[c] \notin {"auth", "request"}
  BY <1>1 DEF Passed, QuestionsCounted
<1>4. /\ toGetter[l] \o <<m>> = A1 /\ m.kind = "data"
      /\ <<>> \o <<z>> = <<z>> /\ toGetter[l] \o <<z>> = A2 /\ z.kind = "CLOSE"
  <2>1. m \in Message /\ m.kind = "data" /\ z \in Message /\ z.kind = "CLOSE"
    BY DEF Msg, Message
  <2> HIDE DEF m, z
  <2> QED BY <1>1, <2>1, AppendIsConcat
<1>5. getter[c] \in {"response", "linked"} => Closing(toGetter[l]) = 0
  BY <1>1 DEF Closing
<1>6. CASE WebSends(c)
  <2>1. /\ webSent' = [webSent EXCEPT ![c] = webSent[c] + 1]
        /\ toGetter' = [toGetter EXCEPT ![l] = A1]
        /\ UNCHANGED <<sharer, web, fromWeb>>
    BY <1>1, <1>4, <1>6 DEF WebSends, Says
  <2>2. webSent'[c] = webSent[c] + 1 /\ \A d \in Client \ {c} : Still(d)
    BY <1>2, <2>1 DEF Still, getting, IInv, TypeOK
  <2>3. Prepares(getter[c], sharer[c], fromClient[c], clientSent[c], clientGot[c],
                 web[c], fromWeb[c], webSent[c], webGot[c])'
    BY <1>1, <1>2, <2>1 DEF Passed, Prepares, getting
  <2>a. A1 = Append(toGetter[l], m)
    OBVIOUS
  <2> HIDE DEF l, m, z, A1
  <2>b. toGetter[l] \in Seq(Message) /\ m.kind = "data"
    BY <1>1, <1>4
  <2>4. /\ Len(A1) = Len(toGetter[l]) + 1 /\ A1 # <<>> /\ (toGetter[l] # <<>> => A1[1] = toGetter[l][1])
        /\ ~Closes(A1) /\ Closing(A1) = 0
    BY <2>a, <2>b, OneMore
  <2>5. AnswersCounted(getter'[c], sharer'[c], clientGot'[c], web'[c], webSent'[c], A1)
    BY <1>2, <1>3, <1>5, <2>1, <2>2, <2>4 DEF AnswersCounted, getting
  <2>6. QuestionsCounted(getter'[c], sharer'[c], client'[c], clientSent'[c], webGot'[c], toSharer[l])
    BY <1>2, <1>3, <2>1 DEF getting
  <2> QED BY <1>1, <1>2, <2>1, <2>2, <2>3, <2>5, <2>6, Told DEF l, getting
<1>7. CASE WebGone(c)
  <2>1. /\ web' = [web EXCEPT ![c] = "gone"] /\ sharer' = [sharer EXCEPT ![c] = "stopped"]
        /\ toGetter' = [toGetter EXCEPT ![l] = A2]
        /\ UNCHANGED <<webSent, fromWeb>>
    BY <1>1, <1>4, <1>7 DEF WebGone, SaysAndCloses, Says
  <2>2. web'[c] = "gone" /\ sharer'[c] = "stopped" /\ \A d \in Client \ {c} : Still(d)
    BY <1>2, <2>1 DEF Still, getting, IInv, TypeOK
  <2>3. Prepares(getter[c], sharer[c], fromClient[c], clientSent[c], clientGot[c],
                 web[c], fromWeb[c], webSent[c], webGot[c])'
    BY <1>1, <1>2, <2>1, <2>2 DEF Passed, Prepares, getting
  <2>a. A2 = Append(toGetter[l], z)
    OBVIOUS
  <2> HIDE DEF l, m, z, A2
  <2>b. toGetter[l] \in Seq(Message) /\ z.kind = "CLOSE"
    BY <1>1, <1>4
  <2>4. /\ Len(A2) = Len(toGetter[l]) + 1 /\ A2 # <<>> /\ (toGetter[l] # <<>> => A2[1] = toGetter[l][1])
        /\ Closes(A2) /\ Closing(A2) = 1
    <3>1. /\ Len(A2) = Len(toGetter[l]) + 1 /\ A2 # <<>>
          /\ (toGetter[l] # <<>> => A2[1] = toGetter[l][1])
      BY <2>a, <2>b, OneMore
    <3>2. Closes(A2) <=> z.kind = "CLOSE"
      BY <2>a, <2>b, OneMore
    <3> QED BY <2>b, <3>1, <3>2 DEF Closing
  <2>5. AnswersCounted(getter'[c], sharer'[c], clientGot'[c], web'[c], webSent'[c], A2)
    BY <1>2, <1>3, <1>5, <2>1, <2>2, <2>4 DEF AnswersCounted, getting
  <2>6. QuestionsCounted(getter'[c], sharer'[c], client'[c], clientSent'[c], webGot'[c], toSharer[l])
    BY <2>2 DEF QuestionsCounted
  <2> QED BY <1>1, <1>2, <2>1, <2>2, <2>3, <2>5, <2>6, Told DEF l, getting
<1> QED BY <1>6, <1>7

(* The first message to the sharer's session is taken. *)
LEMMA ReceiveDataPasses ==
  ASSUME IInv, AllPassed, lost = {}, NEW l \in Label, NEW c, c = sUser[l], ReceiveData(l)
  PROVE  AllPassed'
<1> DEFINE Q == Tail(toSharer[l])
<1>1. /\ sharer[c] = "linked" /\ sEnd[l] = "OPEN" /\ toSharer' = [toSharer EXCEPT ![l] = Q]
      /\ toSharer[l] # <<>> /\ Head(toSharer[l]).kind # "CLOSE"
      /\ webGot' = [webGot EXCEPT ![c] = webGot[c] + 1]
      /\ UNCHANGED <<getting, sharer, web, fromWeb, webSent, toGetter, others, lost>>
  BY DEF ReceiveData, Takes
<1>2. c \in Client /\ label[c] = l
  BY <1>1, SharerOf
<1>3. /\ gUser[l] = c /\ Passed(c) /\ label[c] # None /\ toSharer[l] \in Seq(Message)
  BY <1>1, <1>2, SharerTold DEF Live
<1>4. /\ Len(Q) = Len(toSharer[l]) - 1 /\ Len(toSharer[l]) \in Nat /\ (Closes(Q) <=> Closes(toSharer[l]))
  BY <1>1, <1>3, OneLess
<1> HIDE DEF Q
<1>5. /\ webGot'[c] = webGot[c] + 1 /\ \A d \in Client \ {c} : Still(d)
      /\ toGetter' = [toGetter EXCEPT ![l] = toGetter[l]]
  BY <1>1, <1>2 DEF Still, getting, IInv, TypeOK
<1>6. Prepares(getter[c], sharer[c], fromClient[c], clientSent[c], clientGot[c],
               web[c], fromWeb[c], webSent[c], webGot[c])'
  BY <1>1, <1>3, <1>5 DEF Passed, Prepares, getting
<1>7. AnswersCounted(getter'[c], sharer'[c], clientGot'[c], web'[c], webSent'[c], toGetter[l])
  BY <1>1, <1>2, <1>3 DEF Passed, getting
<1>8. QuestionsCounted(getter'[c], sharer'[c], client'[c], clientSent'[c], webGot'[c], Q)
  <2>1. /\ QuestionsCounted(getter[c], sharer[c], client[c], clientSent[c], webGot[c], toSharer[l])
        /\ webGot[c] \in Nat /\ clientSent[c] \in Nat
    BY <1>2, <1>3, StateOf DEF Passed
  <2>2. /\ getter[c] \notin {"auth", "request", "response"}
        /\ getter[c] = "linked" => webGot[c] + Len(toSharer[l]) + 2 = clientSent[c]
        /\ Closes(toSharer[l]) => client[c] = "gone" /\ webGot[c] + Len(toSharer[l]) + 1 = clientSent[c]
    BY <1>1, <2>1 DEF QuestionsCounted
  <2>3. UNCHANGED <<getter, sharer, client, clientSent>>
    BY <1>1 DEF getting
  <2>5. /\ getter'[c] = getter[c] /\ client'[c] = client[c] /\ clientSent'[c] = clientSent[c]
        /\ webGot'[c] = webGot[c] + 1 /\ (Closes(Q) <=> Closes(toSharer[l]))
    BY <1>4, <1>5, <2>3
  <2>6. Len(Q) = Len(toSharer[l]) - 1 /\ Len(toSharer[l]) \in Nat
    BY <1>4
  <2> DEFINE n == Len(Q)
             k == Len(toSharer[l])
  <2>7. n = k - 1 /\ k \in Nat
    BY <2>6
  <2>8. /\ getter[c] = "linked" => webGot[c] + k + 2 = clientSent[c]
        /\ Closes(toSharer[l]) => client[c] = "gone" /\ webGot[c] + k + 1 = clientSent[c]
    BY <2>2
  <2> HIDE DEF n, k
  <2>9. /\ getter'[c] = "linked" => webGot'[c] + n + 2 = clientSent'[c]
        /\ Closes(Q) => client'[c] = "gone" /\ webGot'[c] + n + 1 = clientSent'[c]
    BY <2>1, <2>5, <2>7, <2>8
  <2>4. /\ getter'[c] \notin {"auth", "request", "response"}
        /\ getter'[c] = "linked" => webGot'[c] + Len(Q) + 2 = clientSent'[c]
        /\ Closes(Q) => client'[c] = "gone" /\ webGot'[c] + Len(Q) + 1 = clientSent'[c]
    BY <2>2, <2>5, <2>9 DEF n
  <2> QED BY <2>4 DEF QuestionsCounted
<1> QED BY <1>1, <1>2, <1>3, <1>5, <1>6, <1>7, <1>8, Told DEF getting

LEMMA SharerIgnoresPasses ==
  ASSUME IInv, AllPassed, lost = {}, NEW l \in Label, SharerIgnores(l)
  PROVE  AllPassed'
<1>1. /\ sEnd[l] = "CLOSING" /\ toSharer' = [toSharer EXCEPT ![l] = Tail(toSharer[l])]
      /\ UNCHANGED <<getting, sharing, toGetter, others, lost>>
  BY DEF SharerIgnores, Takes
<1>2. Heeds(None) /\ \A d \in Client \ {None} : Still(d)
  BY <1>1 DEF Heeds, Still, getting, sharing, IInv, TypeOK
<1>3. None \notin Client
  BY SessionsAssumption DEF Client
<1> QED BY <1>1, <1>2, <1>3, AllBut DEF getting

(* The sharer reads the CLOSE of the getter: that has stopped, or has not     *)
(* come to an answer.                                                         *)
LEMMA SharerHears ==
  ASSUME IInv, lost = {}, NEW l \in Label, NEW c, c = sUser[l], SharerClosed(l)
  PROVE  /\ c \in Client /\ label[c] = l
         /\ getter[c] \notin Talking
         /\ gUser[l] = c \/ sEnd[l] = "CLOSING"
         /\ sharer[c] = "linked" => toSharer[l] \in Seq(Message) /\ Only(toSharer[l], c)
<1>1. sEnd[l] \in {"OPEN", "CLOSING"} /\ toSharer[l] # <<>> /\ Head(toSharer[l]).kind = "CLOSE"
  BY DEF SharerClosed
<1>2. c \in Client /\ label[c] = l /\ Of(l) /\ toSharer[l] \in Seq(Message)
  BY <1>1, SharerOf, LineAt
<1>3. gUser[l] # c => sEnd[l] = "CLOSING"
  BY <1>1, <1>2 DEF Of, Line, Questions, Unheard
<1>4. ASSUME gUser[l] = c PROVE Heard(c, gEnd[l], sEnd[l], toSharer[l], getter[c], sharer[c])
  BY <1>1, <1>2, <1>4, SessionsAssumption DEF Of, Line, Questions, Client
<1>5. ASSUME getter[c] \in Talking PROVE FALSE
  <2>1. gUser[l] = c /\ gEnd[l] = "OPEN"
    BY <1>2, <1>5, GetterAt
  <2>2. NoClose(toSharer[l])
    BY <1>4, <2>1 DEF Heard
  <2>3. Head(toSharer[l]) = toSharer[l][1] /\ 1 \in 1..Len(toSharer[l])
    BY <1>1, <1>2, TailAt
  <2> QED BY <1>1, <2>2, <2>3 DEF NoClose
<1>6. ASSUME sharer[c] = "linked" PROVE Only(toSharer[l], c)
  <2>1. gUser[l] = c
    BY <1>2, <1>6, SharerAt DEF Live
  <2> QED BY <1>4, <2>1 DEF Heard
<1> QED BY <1>2, <1>3, <1>5, <1>6

LEMMA SharerClosedPasses ==
  ASSUME IInv, AllPassed, lost = {}, NEW l \in Label, NEW c, c = sUser[l], SharerClosed(l)
  PROVE  AllPassed'
<1>1. /\ UNCHANGED <<getting, fromWeb, webSent, webGot, others, lost>>
      /\ StopSharer({c} \cap {d \in Client : sharer[d] \in Live})
      /\ toSharer' = [toSharer EXCEPT ![l] = Tail(toSharer[l])]
      /\ \A m \in Label : toGetter'[m] = toGetter[m] \/ (m = l /\ sEnd[l] = "OPEN")
  BY DEF SharerClosed, Takes, Says, IInv, TypeOK, StopSharer, StopResources, Discard
<1>2. /\ c \in Client /\ label[c] = l /\ getter[c] \notin Talking /\ (gUser[l] = c \/ sEnd[l] = "CLOSING")
  BY SharerHears
<1>3. /\ \A d \in Client \ {c} : sharer'[d] = sharer[d] /\ web'[d] = web[d]
      /\ sharer[c] \notin Live => sharer'[c] = sharer[c] /\ web'[c] = web[c]
      /\ sharer[c] \in Live => sharer'[c] \in {"stopping", "stopped"}
      /\ sharer[c] = "connecting" => web'[c] = "abandoned"
      /\ sharer[c] \in {"waiting", "linked"} => web'[c] = IF web[c] = "open" THEN "closing" ELSE web[c]
  <2> DEFINE S == {c} \cap {d \in Client : sharer[d] \in Live}
             P == {d \in S : sharer[d] = "connecting"}
             slow == P \cup {d \in S : web[d] = "open"}
  <2>1. /\ sharer' = [d \in Client |-> IF d \in slow THEN "stopping"
                                       ELSE IF d \in S THEN "stopped" ELSE sharer[d]]
        /\ web' = [d \in Client |-> IF d \in P THEN "abandoned"
                                    ELSE IF d \in slow THEN "closing" ELSE web[d]]
    BY <1>1 DEF StopSharer, StopResources
  <2>2. /\ S \subseteq {c} /\ slow \subseteq S /\ P \subseteq S
        /\ c \in S <=> sharer[c] \in Live
        /\ c \in P <=> sharer[c] = "connecting"
        /\ c \in slow <=> sharer[c] = "connecting" \/ (sharer[c] \in Live /\ web[c] = "open")
    BY <1>2 DEF Live
  <2> HIDE DEF S, P, slow
  <2> QED BY <1>2, <2>1, <2>2 DEF Live
<1>4. \A d \in Client \ {c} : Still(d)
  BY <1>1, <1>3 DEF Still, getting
<1>5. Heeds(c)
  BY <1>1, <1>2 DEF Heeds, IInv, TypeOK
<1>6. Passed(c)'
  <2>1. Passed(c) /\ label[c] # None
    BY <1>2, SessionsAssumption DEF AllPassed
  <2>2. Prepares(getter[c], sharer[c], fromClient[c], clientSent[c], clientGot[c],
                 web[c], fromWeb[c], webSent[c], webGot[c])'
    BY <1>1, <1>3, <2>1 DEF Passed, Prepares, Live, getting
  <2>3. getter'[c] \notin {"auth", "request", "response", "linked"} /\ sharer'[c] # "linked"
    BY <1>1, <1>2, <1>3 DEF Talking, Live, getting
  <2> QED BY <2>2, <2>3 DEF Passed, AnswersCounted, QuestionsCounted
<1> QED BY <1>1, <1>4, <1>5, <1>6, AllBut DEF getting

(* The sharer reads an OPEN, and accepts the session or closes its channel. *)
LEMMA OpenedPasses ==
  ASSUME IInv, AllPassed, lost = {}, NEW l \in Label, NEW c, c = Head(toSharer[l]).from,
         onPeerOpenedChannel_(l)
  PROVE  AllPassed'
<1> DEFINE Q == toSharer[l]
           A == toGetter[l]
           z == Msg("CLOSE", c)
           A2 == Append(A, z)
<1>1. /\ sEnd[l] \in {"none", "CLOSED"} /\ Q # <<>>
      /\ toSharer' = [toSharer EXCEPT ![l] = Tail(Q)]
      /\ \/ toGetter' = [toGetter EXCEPT ![l] = A] /\ sharer' = [sharer EXCEPT ![c] = "waiting"]
         \/ toGetter' = [toGetter EXCEPT ![l] = A2] /\ sharer' = [sharer EXCEPT ![c] = "refused"]
      /\ UNCHANGED <<getting, web, fromWeb, webSent, webGot, others, lost>>
  BY DEF onPeerOpenedChannel_, Takes, Accept, Refuse, Msg, IInv, TypeOK
<1>2. /\ Q \in Seq(Message) /\ A \in Seq(Message) /\ gUser[l] \in Client \cup {None}
      /\ Line(gUser[l], sUser[l], gEnd[l], sEnd[l], Q, A, getter[gUser[l]], sharer[gUser[l]], lost)
  BY LineAt DEF Of
<1>3. /\ gEnd[l] # "none" /\ gUser[l] # sUser[l]
      /\ Unheard(gUser[l], gEnd[l], sEnd[l], Q, getter[gUser[l]], 1)
  <2> DEFINE u == gUser[l]
             v == sUser[l]
             g == gEnd[l]
             s == sEnd[l]
             x == getter[u]
             y == sharer[u]
  <2>1. /\ Line(u, v, g, s, Q, A, x, y, lost) /\ s \in {"none", "CLOSED"}
        /\ Q \in Seq(Message) /\ A \in Seq(Message) /\ Q # <<>> /\ "sharer" \notin lost
    BY <1>1, <1>2
  <2> HIDE DEF u, v, g, s, x, y, Q, A
  <2>2. g # "none" /\ u # v /\ Unheard(u, g, s, Q, x, 1)
    BY <2>1, NextSession
  <2> QED BY <2>2 DEF u, v, g, s, x
<1>4. gUser[l] = c /\ c \in Client /\ label[c] = l /\ sharer[c] = "none"
  <2>1. Head(Q) = Q[1]
    BY <1>1, <1>2, TailAt
  <2>2. gUser[l] = c
    BY <1>3, <2>1 DEF Unheard
  <2>3. gUser[l] \in Client
    BY <1>2, <1>3 DEF Line
  <2>4. label[gUser[l]] = l
    BY <2>3, SessionsAssumption DEF IInv, Users, Used, Client
  <2>5. sharer[gUser[l]] = "none"
    BY <1>1, <1>2, <1>3 DEF Line, Questions
  <2> QED BY <2>2, <2>3, <2>4, <2>5
<1>5. A = <<>> /\ getter[c] # "linked"
  BY <1>2, <1>3, <1>4 DEF Line, Answers, Unheard
<1>6. A2 # <<>> /\ A2[1] = z /\ z.kind = "CLOSE"
  BY <1>5 DEF Msg
<1>7. Passed(c) /\ label[c] # None
  BY <1>4, SessionsAssumption DEF AllPassed
<1> HIDE DEF Q, A, z, A2
<1>8. /\ sharer'[c] \in {"waiting", "refused"} /\ \A d \in Client \ {c} : Still(d)
      /\ UNCHANGED <<server, label>>
  <2>1. PICK y \in {"waiting", "refused"} : sharer' = [sharer EXCEPT ![c] = y]
    BY <1>1
  <2>2. sharer'[c] = y /\ \A d \in Client \ {c} : sharer'[d] = sharer[d]
    BY <1>4, <2>1 DEF IInv, TypeOK
  <2>3. \A d \in Client \ {c} : Still(d)
    BY <1>1, <2>2 DEF Still, getting
  <2> QED BY <1>1, <2>1, <2>2, <2>3 DEF getting
<1>9. Prepares(getter[c], sharer[c], fromClient[c], clientSent[c], clientGot[c],
               web[c], fromWeb[c], webSent[c], webGot[c])'
  BY <1>1, <1>4, <1>7, <1>8 DEF Passed, Prepares, getting
<1>10. AnswersCounted(getter'[c], sharer'[c], clientGot'[c], web'[c], webSent'[c], A)
  BY <1>1, <1>4, <1>5, <1>8 DEF AnswersCounted, getting
<1>11. AnswersCounted(getter'[c], sharer'[c], clientGot'[c], web'[c], webSent'[c], A2)
  BY <1>1, <1>4, <1>5, <1>6, <1>8 DEF AnswersCounted, getting
<1>12. QuestionsCounted(getter'[c], sharer'[c], client'[c], clientSent'[c], webGot'[c], Tail(Q))
  BY <1>8 DEF QuestionsCounted
<1>13. /\ label[c] \in Label /\ gUser[label[c]] = c
       /\ toSharer' = [toSharer EXCEPT ![label[c]] = Tail(Q)]
       /\ toGetter' = [toGetter EXCEPT ![label[c]] = A] \/ toGetter' = [toGetter EXCEPT ![label[c]] = A2]
  BY <1>1, <1>4
<1>14. CASE toGetter' = [toGetter EXCEPT ![label[c]] = A]
  BY <1>4, <1>8, <1>9, <1>10, <1>12, <1>13, <1>14, Told
<1>15. CASE toGetter' = [toGetter EXCEPT ![label[c]] = A2]
  BY <1>4, <1>8, <1>9, <1>11, <1>12, <1>13, <1>15, Told
<1> QED BY <1>13, <1>14, <1>15

-----------------------------------------------------------------------------
(* Every step keeps the count. *)

(* A peer connection that is lost stays lost, and the getter's server closes  *)
(* only after that.                                                           *)
LEMMA Losing ==
  ASSUME [Next]_vars
  PROVE  /\ lost \subseteq lost'
         /\ \/ server' = server
            \/ "getter" \in lost'
            \/ server = "closing"
<1>1. ASSUME NEW c \in Client,
             \/ makeTcpToRtcSession_(c) \/ GetterStep(c)
             \/ ClientSends(c) \/ ClientGone(c)
      PROVE  UNCHANGED <<lost, server>>
  BY <1>1
  DEF makeTcpToRtcSession_, GetterStep, ChannelOpened, ChannelNotOpened, doAuthHandshake_,
      AuthFails, doRequestHandshake_, RequestFails, ClientSends, ClientGone
<1>2. ASSUME NEW c \in Client,
             SharerStep(c) \/ WebConnects(c) \/ WebSends(c) \/ WebGone(c)
      PROVE  UNCHANGED <<lost, server>>
  BY <1>2 DEF SharerStep, Connected, NotConnected, AnsweredLate, Stopped, WebConnects, WebSends,
              WebGone, getting
<1>3. ASSUME NEW l \in Label, GetterReceives(l) PROVE UNCHANGED <<lost, server>>
  BY <1>3 DEF GetterReceives, ReceiveResponse, ReceiveAnswer, GetterIgnores, GetterClosed, getting
<1>4. ASSUME NEW l \in Label, SharerReceives(l) PROVE UNCHANGED <<lost, server>>
  BY <1>4 DEF SharerReceives, onPeerOpenedChannel_, ReceiveEndpoint, ReceiveData, SharerIgnores,
              SharerClosed, getting
<1>5. CASE StopSocksToRtc
  BY <1>5 DEF StopSocksToRtc
<1>6. CASE ServerShut
  BY <1>6 DEF ServerShut
<1>7. CASE StopRtcToNet
  BY <1>7 DEF StopRtcToNet, getting
<1>8. CASE UNCHANGED vars
  BY <1>8 DEF vars, getting
<1> QED BY <1>1, <1>2, <1>3, <1>4, <1>5, <1>6, <1>7, <1>8 DEF Next

LEMMA GetterPasses ==
  ASSUME IInv, AllPassed, lost = {}, NEW c \in Client, GetterStep(c)
  PROVE  AllPassed'
<1>1. CASE ChannelOpened(c)
  <2>1. /\ getter[c] = "opening" /\ client' = [client EXCEPT ![c] = client'[c]]
        /\ UNCHANGED <<server, fromClient, clientSent, clientGot, sharing, toGetter, others, lost>>
    BY <1>1 DEF ChannelOpened, IInv, TypeOK
  <2>2. PICK l \in Label : gEnd[l] = "none" /\ Uses(c, l)
    BY <1>1 DEF ChannelOpened
  <2> QED BY <2>1, <2>2, UsesPasses
<1>2. CASE RequestFails(c)
  <2>1. EndGetter(c) \/ WaitsForClient(c)
    BY <1>2 DEF RequestFails
  <2> QED BY <1>2, <2>1, HandshakePasses, QuietPasses
<1> QED BY <1>1, <1>2, QuietPasses, HandshakePasses, doRequestPasses DEF GetterStep

LEMMA SharerPasses ==
  ASSUME IInv, AllPassed, lost = {}, NEW c \in Client, SharerStep(c)
  PROVE  AllPassed'
BY ConnectedPasses, NotConnectedPasses, AnsweredLatePasses, QuietPasses DEF SharerStep

LEMMA OutsidePasses ==
  ASSUME IInv, AllPassed, lost = {}, NEW c \in Client,
         ClientSends(c) \/ ClientGone(c) \/ WebConnects(c) \/ WebSends(c) \/ WebGone(c)
  PROVE  AllPassed'
<1>1. CASE ClientSends(c) \/ ClientGone(c)
  BY <1>1, ClientPasses, QuietPasses
<1>2. CASE WebSends(c) \/ WebGone(c)
  BY <1>2, WebPasses, QuietPasses
<1>3. CASE WebConnects(c)
  BY <1>3, QuietPasses
<1> QED BY <1>1, <1>2, <1>3

LEMMA MessagePasses ==
  ASSUME IInv, AllPassed, lost = {}, NEW l \in Label, GetterReceives(l) \/ SharerReceives(l)
  PROVE  AllPassed'
<1>1. CASE GetterReceives(l)
  BY <1>1, ReceiveResponsePasses, ReceiveAnswerPasses, GetterIgnoresPasses, GetterClosedPasses
  DEF GetterReceives
<1>2. PICK c : c = sUser[l]
  OBVIOUS
<1>3. PICK u : u = Head(toSharer[l]).from
  OBVIOUS
<1>4. CASE onPeerOpenedChannel_(l)
  BY <1>3, <1>4, OpenedPasses
<1>5. CASE ReceiveEndpoint(l)
  BY <1>2, <1>5, ReceiveEndpointPasses
<1>6. CASE ReceiveData(l)
  BY <1>2, <1>6, ReceiveDataPasses
<1>7. CASE SharerIgnores(l)
  BY <1>7, SharerIgnoresPasses
<1>8. CASE SharerClosed(l)
  BY <1>2, <1>8, SharerClosedPasses
<1> QED BY <1>1, <1>4, <1>5, <1>6, <1>7, <1>8 DEF SharerReceives

LEMMA AllPassedInit == Init => AllPassed
BY DEF Init, AllPassed, Passed, Prepares

LEMMA AllPassedStep == IInv /\ AllPassed /\ [Next]_vars => AllPassed'
<1> SUFFICES ASSUME IInv, AllPassed, [Next]_vars PROVE AllPassed'
  OBVIOUS
<1>1. server' # "listening" => "getter" \in lost'
  BY Losing DEF AllPassed
<1>2. CASE lost' # {}
  BY <1>1, <1>2 DEF AllPassed
<1>3. CASE lost' = {}
  <2>1. lost = {}
    BY <1>3, Losing
  <2>2. server = "listening" /\ \A c \in Client : Passed(c)
    BY <2>1 DEF AllPassed
  <2>3. CASE UNCHANGED vars
    BY <2>1, <2>2, <2>3
    DEF AllPassed, Passed, Prepares, AnswersCounted, QuestionsCounted, vars, getting, sharing
  <2>4. CASE StopSocksToRtc \/ ServerShut \/ StopRtcToNet
    BY <1>3, <2>2, <2>4 DEF StopSocksToRtc, ServerShut, StopRtcToNet
  <2> QED BY <2>1, <2>3, <2>4, makeTcpPasses, GetterPasses, SharerPasses, OutsidePasses,
             MessagePasses
      DEF Next
<1> QED BY <1>2, <1>3

(* A linked client is closed on the sharer's CLOSE, which is the last of what *)
(* came.                                                                      *)
LEMMA ClientGetsAll ==
  ASSUME IInv, AllPassed, [Next]_vars, NEW c \in Client,
         getter[c] = "linked", client[c] = "open", client'[c] = "closed", lost' = {}
  PROVE  web[c] = "gone" /\ clientGot[c] = webSent[c]
<1>1. lost = {} /\ server = "listening"
  BY Losing DEF AllPassed
<1>2. ASSUME client' = client PROVE FALSE
  BY <1>2
<1>3. ASSUME NEW d \in Client, EndGetter(d) PROVE getter[d] = "linked"
  BY <1>3 DEF EndGetter, StopGetter
<1>4. ASSUME NEW d \in Client,
             makeTcpToRtcSession_(d) \/ GetterStep(d) \/ ClientSends(d) \/ ClientGone(d)
      PROVE  FALSE
  <2>1. CASE makeTcpToRtcSession_(d) \/ ClientSends(d) \/ ClientGone(d)
    BY <2>1 DEF makeTcpToRtcSession_, ClientSends, ClientGone, IInv, TypeOK
  <2>2. CASE ChannelOpened(d) \/ ChannelNotOpened(d) \/ doAuthHandshake_(d) \/ doRequestHandshake_(d)
    BY <1>2, <2>2 DEF ChannelOpened, ChannelNotOpened, doAuthHandshake_, doRequestHandshake_
  <2>3. CASE AuthFails(d)
    BY <1>3, <2>3 DEF AuthFails
  <2>4. CASE RequestFails(d)
    BY <1>2, <1>3, <2>4 DEF RequestFails, WaitsForClient
  <2> QED BY <1>4, <2>1, <2>2, <2>3, <2>4 DEF GetterStep
<1>5. ASSUME NEW d \in Client, SharerStep(d) \/ WebConnects(d) \/ WebSends(d) \/ WebGone(d)
      PROVE  FALSE
  BY <1>2, <1>5 DEF SharerStep, Connected, NotConnected, AnsweredLate, Stopped, WebConnects,
                    WebSends, WebGone, getting
<1>6. ASSUME NEW l \in Label, SharerReceives(l) PROVE FALSE
  BY <1>2, <1>6 DEF SharerReceives, onPeerOpenedChannel_, ReceiveEndpoint, ReceiveData,
                    SharerIgnores, SharerClosed, getting
<1>7. ASSUME NEW l \in Label, ReceiveResponse(l) PROVE FALSE
  <2>1. gEnd[l] = "OPEN" /\ toGetter[l] # <<>> /\ getter[gUser[l]] = "response"
    BY <1>7 DEF ReceiveResponse
  <2>2. gUser[l] \in Client
    BY <1>1, <2>1, GetterHears
  <2>3. EndGetter(gUser[l]) \/ client' = client
    BY <1>7 DEF ReceiveResponse, WaitsForClient, LinkGetter
  <2>4. CASE EndGetter(gUser[l])
    <3>1. c = gUser[l]
      BY <2>2, <2>4 DEF EndGetter, StopGetter
    <3> QED BY <2>1, <3>1
  <2> QED BY <1>2, <2>3, <2>4
<1>8. ASSUME NEW l \in Label, GetterReceives(l)
      PROVE  web[c] = "gone" /\ clientGot[c] = webSent[c]
  <2>1. CASE GetterClosed(l)
    <3>1. /\ gEnd[l] \in {"OPEN", "CLOSING"} /\ toGetter[l] # <<>> /\ Head(toGetter[l]).kind = "CLOSE"
          /\ c = gUser[l]
      BY <2>1 DEF GetterClosed, StopGetter
    <3>2. /\ label[c] = l /\ toGetter[l] \in Seq(Message) /\ Only(toGetter[l], c)
      BY <1>1, <3>1, GetterHears
    <3>3. Len(toGetter[l]) = 1 /\ Closes(toGetter[l]) /\ Closing(toGetter[l]) = 1
      BY <3>1, <3>2, LastOfAll
    <3>4. AnswersCounted(getter[c], sharer[c], clientGot[c], web[c], webSent[c], toGetter[l])
      BY <1>1, <3>2, SessionsAssumption DEF AllPassed, Passed
    <3>5. clientGot[c] \in Nat /\ webSent[c] \in Nat
      BY StateOf
    <3> QED BY <3>3, <3>4, <3>5 DEF AnswersCounted
  <2>2. CASE ReceiveAnswer(l) \/ GetterIgnores(l)
    BY <1>2, <2>2 DEF ReceiveAnswer, GetterIgnores, getting
  <2> QED BY <1>7, <1>8, <2>1, <2>2 DEF GetterReceives
<1>9. CASE StopSocksToRtc \/ ServerShut
  BY <1>1, <1>9 DEF StopSocksToRtc, ServerShut
<1>10. CASE StopRtcToNet \/ UNCHANGED vars
  BY <1>2, <1>10 DEF StopRtcToNet, vars, getting
<1> QED BY <1>4, <1>5, <1>6, <1>8, <1>9, <1>10 DEF Next

(* A linked connection to the web is closed on the getter's CLOSE, which is   *)
(* the last of what came.                                                     *)
LEMMA WebGetsAll ==
  ASSUME IInv, AllPassed, [Next]_vars, NEW c \in Client,
         sharer[c] = "linked", web[c] = "open", web'[c] = "closing", lost' = {}
  PROVE  client[c] = "gone" /\ webGot[c] = clientSent[c] - 2
<1>1. lost = {}
  BY Losing
<1>2. ASSUME web' = web PROVE FALSE
  BY <1>2
<1>3. ASSUME NEW d \in Client, NEW reply, EndSharer(d, reply) PROVE d = c
  BY <1>3, EndOf
<1>4. ASSUME NEW d \in Client,
             makeTcpToRtcSession_(d) \/ GetterStep(d) \/ ClientSends(d) \/ ClientGone(d)
      PROVE  FALSE
  BY <1>2, <1>4
  DEF makeTcpToRtcSession_, GetterStep, ChannelOpened, ChannelNotOpened, doAuthHandshake_,
      AuthFails, doRequestHandshake_, RequestFails, ClientSends, ClientGone, sharing
<1>5. ASSUME NEW l \in Label, GetterReceives(l) PROVE FALSE
  BY <1>2, <1>5
  DEF GetterReceives, ReceiveResponse, ReceiveAnswer, GetterIgnores, GetterClosed, sharing
<1>6. ASSUME NEW d \in Client, SharerStep(d) PROVE FALSE
  <2>1. CASE Connected(d)
    <3>1. d # c
      BY <2>1 DEF Connected
    <3>2. PICK r : EndSharer(d, r) \/ web' = web
      BY <2>1 DEF Connected, LinkSharer
    <3> QED BY <1>2, <1>3, <3>1, <3>2
  <2>2. CASE NotConnected(d) \/ AnsweredLate(d) \/ Stopped(d)
    BY <2>2 DEF NotConnected, AnsweredLate, Stopped, IInv, TypeOK
  <2> QED BY <1>6, <2>1, <2>2 DEF SharerStep
<1>7. ASSUME NEW d \in Client, WebConnects(d) \/ WebSends(d) \/ WebGone(d) PROVE FALSE
  BY <1>7 DEF WebConnects, WebSends, WebGone, IInv, TypeOK
<1>8. ASSUME NEW l \in Label, SharerReceives(l)
      PROVE  client[c] = "gone" /\ webGot[c] = clientSent[c] - 2
  <2>1. CASE SharerClosed(l)
    <3>1. /\ toSharer[l] # <<>> /\ Head(toSharer[l]).kind = "CLOSE" /\ c = sUser[l]
      BY <2>1 DEF SharerClosed, StopSharer, StopResources
    <3>2. label[c] = l /\ toSharer[l] \in Seq(Message) /\ Only(toSharer[l], c)
      BY <1>1, <2>1, <3>1, SharerHears
    <3>3. Len(toSharer[l]) = 1 /\ Closes(toSharer[l])
      BY <3>1, <3>2, LastOfAll
    <3>4. QuestionsCounted(getter[c], sharer[c], client[c], clientSent[c], webGot[c], toSharer[l])
      BY <1>1, <3>2, SessionsAssumption DEF AllPassed, Passed
    <3>5. webGot[c] \in Nat /\ clientSent[c] \in Nat
      BY StateOf
    <3>6. client[c] = "gone" /\ webGot[c] + 2 = clientSent[c]
      BY <3>3, <3>4, <3>5 DEF QuestionsCounted
    <3> QED BY <3>5, <3>6
  <2>2. CASE ReceiveEndpoint(l)
    <3>1. PICK d : d = sUser[l]
      OBVIOUS
    <3>2. sharer[d] = "waiting" /\ d # c /\ sEnd[l] = "OPEN"
      BY <2>2, <3>1 DEF ReceiveEndpoint
    <3>3. d \in Client
      BY <2>2, <3>1, SharerOf DEF ReceiveEndpoint
    <3>4. CASE web' = [web EXCEPT ![d] = "connecting"]
      BY <3>2, <3>4 DEF IInv, TypeOK
    <3>5. CASE EndSharer(sUser[l], <<Msg("failure", sUser[l])>>)
      <4>1. EndSharer(d, <<Msg("failure", d)>>)
        BY <3>1, <3>5 DEF EndSharer, StopResources, SaysAndCloses, Says, Discard, Msg
      <4> QED BY <1>3, <3>2, <3>3, <4>1
    <3> QED BY <2>2, <3>1, <3>4, <3>5 DEF ReceiveEndpoint
  <2>3. CASE onPeerOpenedChannel_(l) \/ ReceiveData(l) \/ SharerIgnores(l)
    BY <1>2, <2>3 DEF onPeerOpenedChannel_, ReceiveData, SharerIgnores, sharing
  <2> QED BY <1>8, <2>1, <2>2, <2>3 DEF SharerReceives
<1>9. CASE StopSocksToRtc \/ ServerShut \/ StopRtcToNet
  BY <1>2, <1>9 DEF StopSocksToRtc, ServerShut, StopRtcToNet, sharing
<1>10. CASE UNCHANGED vars
  BY <1>2, <1>10 DEF vars, sharing
<1> QED BY <1>4, <1>5, <1>6, <1>7, <1>8, <1>9, <1>10 DEF Next

(* Unless the peer connection is lost, no packet is: a linked connection is   *)
(* closed, at either peer, only when all that the other side has sent has     *)
(* been passed on to it.                                                      *)
THEOREM AllIsDelivered == Spec => AllDelivered
<1>1. Init => IInv /\ AllPassed
  BY IInvInit, AllPassedInit
<1>2. (IInv /\ AllPassed) /\ [Next]_vars => (IInv /\ AllPassed)'
  BY IInvStep, AllPassedStep
<1>3. IInv /\ AllPassed /\ [Next]_vars =>
        [\A c \in Client :
           /\ getter[c] = "linked" /\ client[c] = "open" /\ client'[c] = "closed" /\ lost' = {}
                => web[c] = "gone" /\ clientGot[c] = webSent[c]
           /\ sharer[c] = "linked" /\ web[c] = "open" /\ web'[c] = "closing" /\ lost' = {}
                => client[c] = "gone" /\ webGot[c] = clientSent[c] - 2]_vars
  BY ClientGetsAll, WebGetsAll
<1> QED BY <1>1, <1>2, <1>3, PTL DEF Spec, AllDelivered
====
