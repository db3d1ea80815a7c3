--------------------------- MODULE DataPoolProofs ---------------------------
(* Proofs about DataPool, for any number of channels and any bounds. *)
EXTENDS MCDataPool, FiniteSetTheorems, TLAPS

-----------------------------------------------------------------------------
(* The two ends of a channel. *)
LEMMA Ends ==
  ASSUME NEW e \in End
  PROVE  /\ Peer(e) \in End /\ Peer(e) # e /\ Peer(Peer(e)) = e
         /\ e[1] \in {"local", "remote"} /\ (e[1] = "local" <=> Peer(e)[1] # "local")
         /\ e[2] \in Chan /\ Peer(e)[2] = e[2]
         /\ e = IF e[1] = "local" THEN Local(e[2]) ELSE Remote(e[2])
BY DEF End, Peer, Local, Remote

(* The ends of channel c. *)
LEMMA ChanEnds ==
  ASSUME NEW c \in Chan
  PROVE  /\ Local(c) \in End /\ Remote(c) \in End
         /\ Local(c)[1] = "local" /\ Remote(c)[1] = "remote"
         /\ Local(c)[2] = c /\ Remote(c)[2] = c
         /\ Peer(Local(c)) = Remote(c) /\ Peer(Remote(c)) = Local(c)
BY DEF End, Peer, Local, Remote

(* Phases are numbers, and the ends' phases lie around their sessions. *)
LEMMA Phases ==
  ASSUME TypeOK, NEW e \in End
  PROVE  /\ PhaseSeen(e) \in {2 * session[e], 2 * session[e] - 1}
         /\ PhaseSent(e) \in {2 * session[e], 2 * session[e] - 1}
         /\ PhaseSeen(e) \in Int /\ PhaseSent(e) \in Int
         /\ \A m \in Message : PhaseOf(m) \in Int
BY DEF TypeOK, PhaseSeen, PhaseSent, PhaseOf, Message

-----------------------------------------------------------------------------
(* Only the empty sequence has length 0. *)
LEMMA Empty == ASSUME NEW S, NEW s \in Seq(S) PROVE s = <<>> <=> Len(s) = 0
OBVIOUS

(* The elements of a tail. *)
LEMMA TailAt ==
  ASSUME NEW S, NEW q \in Seq(S), q # <<>>
  PROVE  /\ Tail(q) \in Seq(S) /\ Len(Tail(q)) = Len(q) - 1
         /\ \A i \in 1..Len(Tail(q)) : i + 1 \in 1..Len(q) /\ Tail(q)[i] = q[i + 1]
OBVIOUS

(* Odd and even phases. *)
LEMMA Parity ==
  ASSUME NEW a \in Nat, NEW b \in Nat
  PROVE  /\ 2 * a # 2 * b + 1 /\ 2 * a # 2 * b - 1
         /\ 2 * a - 1 # 2 * b
         /\ 2 * a = 2 * b => a = b
         /\ 2 * a - 1 = 2 * b - 1 => a = b
         /\ 2 * a - 1 = 2 * b + 1 => a = b + 1
         /\ 2 * a = (2 * b - 1) + 1 => a = b
OBVIOUS

(* A message is sent: it takes the last phase on. *)
LEMMA LeadsAppend ==
  ASSUME NEW q \in Seq(Message), NEW n \in Int, NEW m \in Message,
         \A k \in Message : PhaseOf(k) \in Int,
         Leads(q, n),
         PhaseOf(m) = LeadsTo(q, n) + (IF m.type = "data" THEN 0 ELSE 1)
  PROVE  /\ Leads(Append(q, m), n)
         /\ LeadsTo(Append(q, m), n) = PhaseOf(m)
<1> DEFINE a == Append(q, m)
<1>1. /\ Len(a) = Len(q) + 1 /\ a # <<>> /\ Len(q) \in Nat
      /\ a[Len(a)] = m
      /\ \A i \in 1..Len(q) : a[i] = q[i] /\ q[i] \in Message
      /\ q = <<>> <=> Len(q) = 0
  OBVIOUS
<1> HIDE DEF a
<1>2. ASSUME NEW i \in 1..Len(a)
      PROVE PhaseOf(a[i]) = (IF i = 1 THEN n ELSE PhaseOf(a[i - 1]))
                              + (IF a[i].type = "data" THEN 0 ELSE 1)
  <2>1. CASE i = Len(a)
    BY <1>1, <2>1 DEF LeadsTo
  <2>2. CASE i # Len(a)
    <3>1. i \in 1..Len(q) /\ a[i] = q[i]
      BY <1>1, <2>2
    <3>2. i # 1 => i - 1 \in 1..Len(q) /\ a[i - 1] = q[i - 1]
      BY <1>1, <3>1
    <3>3. PhaseOf(q[i]) = (IF i = 1 THEN n ELSE PhaseOf(q[i - 1]))
                            + (IF q[i].type = "data" THEN 0 ELSE 1)
      BY <3>1 DEF Leads
    <3>4. QED
      BY <3>1, <3>2, <3>3
  <2>3. QED
    BY <2>1, <2>2
<1>3. q # <<>> => \A i \in 1..Len(q) : PhaseOf(q[i]) <= PhaseOf(m)
  BY <1>1 DEF Leads, LeadsTo
<1>4. ASSUME NEW i \in 1..Len(a), NEW j \in 1..Len(a), i <= j
      PROVE PhaseOf(a[i]) <= PhaseOf(a[j])
  <2>1. CASE j # Len(a)
    <3>1. i \in 1..Len(q) /\ j \in 1..Len(q) /\ a[i] = q[i] /\ a[j] = q[j]
      BY <1>1, <1>4, <2>1
    <3>2. PhaseOf(q[i]) <= PhaseOf(q[j])
      BY <1>4, <3>1 DEF Leads
    <3> QED
      BY <3>1, <3>2
  <2>2. CASE j = Len(a) /\ i # Len(a)
    <3>1. i \in 1..Len(q) /\ q # <<>> /\ a[i] = q[i] /\ a[j] = m
      BY <1>1, <2>2
    <3>2. PhaseOf(q[i]) <= PhaseOf(m)
      BY <1>3, <3>1
    <3> QED
      BY <3>1, <3>2
  <2>3. CASE i = Len(a) /\ j = Len(a)
    <3>1. PhaseOf(m) \in Int /\ a[i] = m /\ a[j] = m
      BY <1>1, <2>3
    <3> QED
      BY <3>1
  <2> QED
    BY <2>1, <2>2, <2>3
<1>5. QED
  BY <1>1, <1>2, <1>4 DEF Leads, LeadsTo, a

(* A message is received: it is the next phase, and the rest lead on from it. *)
LEMMA LeadsTail ==
  ASSUME NEW q \in Seq(Message), NEW n \in Int, q # <<>>,
         \A k \in Message : PhaseOf(k) \in Int,
         Leads(q, n)
  PROVE  /\ PhaseOf(Head(q)) = n + (IF Head(q).type = "data" THEN 0 ELSE 1)
         /\ Leads(Tail(q), PhaseOf(Head(q)))
         /\ LeadsTo(Tail(q), PhaseOf(Head(q))) = LeadsTo(q, n)
<1> DEFINE t == Tail(q)
<1>1. /\ Len(t) = Len(q) - 1 /\ Len(q) \in Nat /\ Len(q) > 0 /\ Head(q) = q[1]
      /\ \A i \in 1..Len(t) : t[i] = q[i + 1]
      /\ t = <<>> <=> Len(t) = 0
  <2>1. t \in Seq(Message)
    OBVIOUS
  <2>2. Len(t) = Len(q) - 1 /\ Len(q) \in Nat /\ Len(q) > 0 /\ Head(q) = q[1]
    OBVIOUS
  <2>3. \A i \in 1..Len(t) : t[i] = q[i + 1]
    OBVIOUS
  <2>4. t = <<>> <=> Len(t) = 0
    BY <2>1, Empty
  <2>5. QED
    BY <2>2, <2>3, <2>4
<1> HIDE DEF t
<1>2. PhaseOf(Head(q)) = n + (IF Head(q).type = "data" THEN 0 ELSE 1)
  BY <1>1 DEF Leads
<1>3. Leads(t, PhaseOf(Head(q)))
  <2>1. ASSUME NEW i \in 1..Len(t)
        PROVE PhaseOf(t[i]) = (IF i = 1 THEN PhaseOf(Head(q)) ELSE PhaseOf(t[i - 1]))
                                + (IF t[i].type = "data" THEN 0 ELSE 1)
    <3>1. i + 1 \in 1..Len(q) /\ i + 1 # 1 /\ (i + 1) - 1 = i
      BY <1>1
    <3>2. PhaseOf(q[i + 1]) = PhaseOf(q[i]) + (IF q[i + 1].type = "data" THEN 0 ELSE 1)
      BY <3>1 DEF Leads
    <3>3. t[i] = q[i + 1] /\ Head(q) = q[1]
      BY <1>1
    <3>4. CASE i = 1
      BY <3>2, <3>3, <3>4
    <3>5. CASE i # 1
      <4>1. i - 1 \in 1..Len(t) /\ (i - 1) + 1 = i
        BY <1>1, <3>5
      <4>2. t[i - 1] = q[i]
        BY <1>1, <4>1
      <4>3. QED
        BY <3>2, <3>3, <3>5, <4>2
    <3>6. QED
      BY <3>4, <3>5
  <2>2. ASSUME NEW i \in 1..Len(t), NEW j \in 1..Len(t), i <= j
        PROVE PhaseOf(t[i]) <= PhaseOf(t[j])
    BY <1>1, <2>2 DEF Leads
  <2>3. QED
    BY <2>1, <2>2 DEF Leads
<1>4. LeadsTo(t, PhaseOf(Head(q))) = LeadsTo(q, n)
  BY <1>1 DEF LeadsTo
<1>5. QED
  BY <1>2, <1>3, <1>4 DEF t

(* No message leads back. *)
LEMMA LeadsUp ==
  ASSUME NEW q \in Seq(Message), NEW n \in Int,
         \A k \in Message : PhaseOf(k) \in Int,
         Leads(q, n)
  PROVE  n <= LeadsTo(q, n) /\ LeadsTo(q, n) \in Int
<1>1. CASE q = <<>>
  BY <1>1 DEF LeadsTo
<1>2. CASE q # <<>>
  <2>1. /\ Len(q) \in Nat /\ 1 \in 1..Len(q) /\ Len(q) \in 1..Len(q)
        /\ q[1] \in Message /\ q[Len(q)] \in Message
    BY <1>2
  <2>2. n <= PhaseOf(q[1]) /\ PhaseOf(q[1]) <= PhaseOf(q[Len(q)])
    BY <2>1 DEF Leads
  <2>3. QED
    BY <1>2, <2>1, <2>2 DEF LeadsTo
<1>3. QED
  BY <1>1, <1>2

-----------------------------------------------------------------------------
(* What end x keeps in a step: all but its inbox. *)
Same(x) ==
  /\ link'[x] = link[x] /\ state_'[x] = state_[x] /\ handling'[x] = handling[x]
  /\ unread'[x] = unread[x] /\ drain'[x] = drain[x] /\ closing'[x] = closing[x]
  /\ session'[x] = session[x]

StreamsInv == \A x \in End : StreamInv(x) /\ FlowInv(x) /\ EndInv(x)

(* An end that keeps its state keeps its phases. *)
LEMMA SamePhases ==
  ASSUME NEW x \in End, Same(x)
  PROVE  /\ PhaseSeen(x)' = PhaseSeen(x) /\ PhaseSent(x)' = PhaseSent(x)
         /\ GotClose(x)' <=> GotClose(x)
BY DEF Same, PhaseSeen, PhaseSent, GotClose, SentClose

(* A step of end e concerns the two ends of its channel only. *)
LEMMA StepOf ==
  ASSUME NEW e \in End, StreamsInv,
         \A x \in End \ {e} : Same(x),
         \A x \in End \ {e, Peer(e)} : inbox'[x] = inbox[x],
         StreamInv(e)', FlowInv(e)', EndInv(e)', StreamInv(Peer(e))', FlowInv(Peer(e))'
  PROVE  StreamsInv'
<1>1. ASSUME NEW x \in End, x # e PROVE EndInv(x)'
  BY <1>1 DEF Same, EndInv, StreamsInv
<1>2. ASSUME NEW x \in End, x \notin {e, Peer(e)} PROVE StreamInv(x)' /\ FlowInv(x)'
  <2>1. Peer(x) \in End /\ Peer(x) # e
    BY <1>2, Ends
  <2>2. /\ Same(x) /\ Same(Peer(x)) /\ inbox'[x] = inbox[x]
        /\ PhaseSeen(x)' = PhaseSeen(x) /\ PhaseSent(Peer(x))' = PhaseSent(Peer(x))
        /\ (GotClose(x)' <=> GotClose(x))
    BY <1>2, <2>1, SamePhases
  <2>3. StreamInv(x) /\ FlowInv(x)
    BY DEF StreamsInv
  <2>4. StreamInv(x)'
    BY <2>2, <2>3 DEF StreamInv, Same, Leads, PhaseOf
  <2>5. FlowInv(x)'
    BY <2>2, <2>3 DEF FlowInv, Same, LeadsTo, PhaseOf
  <2>6. QED
    BY <2>4, <2>5
<1>3. QED
  BY <1>1, <1>2, Ends DEF StreamsInv

(* A step of end e that neither sends nor receives. *)
LEMMA Quiet ==
  ASSUME NEW e \in End, StreamsInv, inbox' = inbox,
         \A x \in End \ {e} : Same(x),
         link'[e] = "closed" <=> link[e] = "closed",
         link[e] # "closed" => /\ PhaseSeen(e)' = PhaseSeen(e)
                               /\ PhaseSent(e)' = PhaseSent(e)
                               /\ (GotClose(e)' <=> GotClose(e)),
         EndInv(e)'
  PROVE  StreamsInv'
<1> DEFINE f == Peer(e)
<1>1. /\ f \in End /\ f # e /\ Peer(f) = e
      /\ StreamInv(e) /\ FlowInv(e) /\ StreamInv(f) /\ FlowInv(f)
  BY Ends DEF StreamsInv
<1>2. /\ link'[f] = link[f]
      /\ PhaseSeen(f)' = PhaseSeen(f) /\ PhaseSent(f)' = PhaseSent(f)
      /\ (GotClose(f)' <=> GotClose(f))
  BY <1>1, SamePhases DEF Same
<1>3. StreamInv(e)' /\ StreamInv(f)'
  BY <1>1, <1>2 DEF StreamInv, Leads, PhaseOf
<1>4. FlowInv(e)'
  BY <1>1, <1>2 DEF FlowInv, LeadsTo, PhaseOf
<1>5. FlowInv(f)'
  BY <1>1, <1>2 DEF FlowInv, LeadsTo, PhaseOf
<1>6. QED
  BY <1>3, <1>4, <1>5, StepOf

(* A message of end e is passed to the peer. *)
LEMMA Passing ==
  ASSUME NEW e \in End, NEW m \in Message, TypeOK, StreamsInv,
         Same(Peer(e)), link[e] # "closed", inbox' = Passed(e, m.type, m.session),
         link[Peer(e)] # "closed" =>
           LeadsTo(inbox[Peer(e)], PhaseSeen(Peer(e))) = PhaseSent(e),
         PhaseOf(m) = PhaseSent(e) + (IF m.type = "data" THEN 0 ELSE 1),
         PhaseSent(e)' = PhaseOf(m),
         m.type = "OPEN" => e[1] = "local"
  PROVE  StreamInv(Peer(e))' /\ FlowInv(Peer(e))'
<1> DEFINE f == Peer(e)
<1>1. /\ f \in End /\ f # e /\ Peer(f) = e /\ (e[1] = "local" <=> f[1] # "local")
      /\ StreamInv(f) /\ FlowInv(f)
  BY Ends DEF StreamsInv
<1>2. link'[f] = link[f] /\ PhaseSeen(f)' = PhaseSeen(f)
  BY <1>1, SamePhases DEF Same
<1>3. CASE link[f] = "closed"
  BY <1>1, <1>2, <1>3 DEF Passed, StreamInv, FlowInv, TypeOK
<1>4. CASE link[f] # "closed"
  <2>1. m = [type |-> m.type, session |-> m.session]
    BY DEF Message
  <2>2. inbox'[f] = Append(inbox[f], m) /\ inbox[f] \in Seq(Message)
    BY <1>1, <1>4, <2>1 DEF Passed, TypeOK
  <2>3. Leads(inbox[f], PhaseSeen(f))
    BY <1>1, <1>4 DEF StreamInv
  <2>4. /\ Leads(Append(inbox[f], m), PhaseSeen(f))
        /\ LeadsTo(Append(inbox[f], m), PhaseSeen(f)) = PhaseOf(m)
    BY <1>1, <1>4, <2>2, <2>3, LeadsAppend, Phases
  <2>5. FlowInv(f)'
    BY <1>1, <1>2, <2>2, <2>4 DEF FlowInv, LeadsTo, PhaseOf
  <2>6. Leads(inbox[f], PhaseSeen(f))'
    BY <1>2, <2>2, <2>4 DEF Leads, PhaseOf
  <2>7. f[1] = "local" => \A i \in 1..Len(inbox'[f]) : inbox'[f][i].type # "OPEN"
    <3> SUFFICES ASSUME f[1] = "local", NEW i \in 1..Len(inbox'[f])
                 PROVE  inbox'[f][i].type # "OPEN"
      OBVIOUS
    <3>1. CASE i = Len(inbox'[f])
      BY <1>1, <2>2, <3>1
    <3>2. CASE i # Len(inbox'[f])
      <4>1. i \in 1..Len(inbox[f]) /\ inbox'[f][i] = inbox[f][i]
        BY <2>2, <3>2
      <4>2. QED
        BY <1>1, <4>1 DEF StreamInv
    <3>3. QED
      BY <3>1, <3>2
  <2>8. StreamInv(f)'
    BY <1>2, <1>4, <2>6, <2>7 DEF StreamInv
  <2>9. QED
    BY <2>5, <2>8
<1>5. QED
  BY <1>3, <1>4
(* What an end that handles messages finds at the head of its inbox. *)
LEMMA NextMessage ==
  ASSUME TypeOK, StreamsInv, NEW e \in End, handling[e], inbox[e] # <<>>
  PROVE  /\ link[e] = "open" /\ Head(inbox[e]) \in Message
         /\ Head(inbox[e]).type = "OPEN" =>
              /\ state_[e] = "CLOSED" /\ e[1] = "remote"
              /\ Head(inbox[e]).session = session[e] + 1
         /\ Head(inbox[e]).type # "OPEN" =>
              /\ state_[e] \in {"OPEN", "CLOSING"} /\ drain[e] = "no"
              /\ Head(inbox[e]).session = session[e]
<1> DEFINE m == Head(inbox[e])
<1>1. StreamInv(e) /\ EndInv(e) /\ inbox[e] \in Seq(Message)
  BY DEF StreamsInv, TypeOK
<1>2. link[e] = "open"
  BY <1>1 DEF StreamInv, EndInv, TypeOK
<1>3. m \in Message /\ m = inbox[e][1] /\ 1 \in 1..Len(inbox[e])
  BY <1>1
<1>4. PhaseOf(m) = PhaseSeen(e) + (IF m.type = "data" THEN 0 ELSE 1)
  BY <1>1, <1>2, LeadsTail, Phases DEF StreamInv
<1>5. m.type = "OPEN" => e[1] = "remote"
  BY <1>1, <1>3, Ends DEF StreamInv
<1>6. m.session \in Nat /\ m.type \in {"OPEN", "CLOSE", "data"} /\ session[e] \in Nat
  BY <1>3 DEF Message, TypeOK
<1>7. CASE state_[e] = "CLOSED"
  <2>1. PhaseSeen(e) = 2 * session[e]
    BY <1>7 DEF PhaseSeen, GotClose
  <2>2. m.type = "OPEN" /\ m.session = session[e] + 1
    BY <1>4, <1>6, <2>1, Parity DEF PhaseOf
  <2>3. QED
    BY <1>2, <1>3, <1>5, <1>7, <2>2
<1>8. CASE state_[e] \in {"OPEN", "CLOSING"}
  <2>1. drain[e] = "no"
    BY <1>1, <1>2, <1>8 DEF EndInv
  <2>2. PhaseSeen(e) = 2 * session[e] - 1
    BY <1>8, <2>1 DEF PhaseSeen, GotClose
  <2>3. m.type # "OPEN" /\ m.session = session[e]
    BY <1>4, <1>6, <2>2 DEF PhaseOf
  <2>4. QED
    BY <1>2, <1>3, <1>8, <2>1, <2>3
<1>9. QED
  BY <1>1, <1>2, <1>7, <1>8 DEF EndInv, TypeOK

(* Nothing is under way to a local end that is about to open a session. *)
LEMMA NoMail ==
  ASSUME TypeOK, StreamsInv, NEW e \in End,
         e[1] = "local", link[e] # "closed", state_[e] \in {"none", "CLOSED"}
  PROVE  inbox[e] = <<>> /\ PhaseSeen(e) = 2 * session[e] /\ PhaseSent(e) = 2 * session[e]
<1>1. PhaseSeen(e) = 2 * session[e] /\ PhaseSent(e) = 2 * session[e] /\ session[e] \in Nat
  BY DEF PhaseSeen, PhaseSent, GotClose, SentClose, TypeOK
<1>2. ASSUME inbox[e] # <<>> PROVE FALSE
  <2> DEFINE m == Head(inbox[e])
  <2>1. StreamInv(e) /\ inbox[e] \in Seq(Message)
    BY DEF StreamsInv, TypeOK
  <2>2. m \in Message /\ m = inbox[e][1] /\ 1 \in 1..Len(inbox[e])
    BY <1>2, <2>1
  <2>3. PhaseOf(m) = PhaseSeen(e) + (IF m.type = "data" THEN 0 ELSE 1)
    BY <1>2, <2>1, LeadsTail, Phases DEF StreamInv
  <2>4. m.type \in {"CLOSE", "data"} /\ m.session \in Nat
    BY <2>1, <2>2 DEF StreamInv, Message
  <2>5. QED
    BY <1>1, <2>3, <2>4 DEF PhaseOf
<1>3. QED
  BY <1>1, <1>2

(* End e takes the next message, which tells it of the phase it is from. *)
LEMMA Receiving ==
  ASSUME NEW e \in End, TypeOK, StreamsInv, handling[e], inbox[e] # <<>>,
         \A x \in End \ {e} : Same(x),
         inbox' = [inbox EXCEPT ![e] = Tail(@)],
         link'[e] = link[e],
         PhaseSeen(e)' = PhaseOf(Head(inbox[e])),
         PhaseSent(e)' = PhaseSent(e) \/ FlowInv(Peer(e))',
         EndInv(e)'
  PROVE  StreamsInv'
<1> DEFINE f == Peer(e)
<1>1. /\ f \in End /\ f # e /\ Peer(f) = e
      /\ StreamInv(e) /\ FlowInv(e) /\ StreamInv(f) /\ FlowInv(f)
  BY Ends DEF StreamsInv
<1>2. /\ link'[f] = link[f] /\ inbox'[f] = inbox[f]
      /\ PhaseSeen(f)' = PhaseSeen(f) /\ PhaseSent(f)' = PhaseSent(f)
      /\ (GotClose(f)' <=> GotClose(f))
  BY <1>1, SamePhases DEF Same, TypeOK
<1>3. /\ link[e] = "open" /\ inbox[e] \in Seq(Message)
      /\ inbox'[e] = Tail(inbox[e])
  BY NextMessage DEF TypeOK
<1>4. /\ Leads(Tail(inbox[e]), PhaseOf(Head(inbox[e])))
      /\ LeadsTo(Tail(inbox[e]), PhaseOf(Head(inbox[e]))) = LeadsTo(inbox[e], PhaseSeen(e))
  BY <1>1, <1>3, LeadsTail, Phases DEF StreamInv
<1>5. Leads(inbox[e], PhaseSeen(e))'
  <2> DEFINE p == PhaseOf(Head(inbox[e]))
             t == Tail(inbox[e])
  <2>1. Leads(t, p) /\ inbox'[e] = t /\ PhaseSeen(e)' = p
    BY <1>3, <1>4
  <2> HIDE DEF p, t
  <2>2. Leads(inbox'[e], PhaseSeen(e)')
    BY <2>1
  <2>3. QED
    BY <2>2
<1>6. ASSUME e[1] = "local", NEW i \in 1..Len(inbox'[e]) PROVE inbox'[e][i].type # "OPEN"
  <2>1. i + 1 \in 1..Len(inbox[e]) /\ inbox'[e][i] = inbox[e][i + 1]
    BY <1>3, TailAt
  <2>2. QED
    BY <1>1, <1>6, <2>1 DEF StreamInv
<1>7. StreamInv(e)'
  BY <1>3, <1>5, <1>6 DEF StreamInv
<1>8. FlowInv(e)'
  <2>1. (LeadsTo(inbox[e], PhaseSeen(e)))' = LeadsTo(inbox[e], PhaseSeen(e))
    BY <1>3, <1>4 DEF LeadsTo, PhaseOf
  <2>2. QED
    BY <1>1, <1>2, <1>3, <2>1 DEF FlowInv
<1>9. StreamInv(f)'
  BY <1>1, <1>2 DEF StreamInv, Leads, PhaseOf
<1>10. FlowInv(f)'
  <2>1. CASE PhaseSent(e)' = PhaseSent(e)
    BY <1>1, <1>2, <2>1 DEF FlowInv, LeadsTo, PhaseOf
  <2>2. QED
    BY <2>1
<1>11. QED
  BY <1>2, <1>7, <1>8, <1>9, <1>10, StepOf DEF TypeOK
-----------------------------------------------------------------------------
(* A step of end e that leaves the pool alone. *)
LEMMA PoolStep ==
  ASSUME TypeOK, PoolInv, pool_' = pool_, NEW e \in End,
         \A x \in End \ {e} : Same(x),
         e[1] = "local" /\ Idle(e) => Idle(e)'
  PROVE  PoolInv'
<1>1. ASSUME NEW x \in End, x[1] = "local", Idle(x) PROVE Idle(x)'
  BY <1>1 DEF Idle, Same
<1>2. ASSUME NEW i \in 1..Len(pool_) PROVE Idle(Local(pool_[i]))'
  <2>1. pool_[i] \in Chan /\ Idle(Local(pool_[i]))
    BY DEF TypeOK, PoolInv
  <2>2. PICK c \in Chan : c = pool_[i] /\ c = pool_'[i]
    BY <2>1
  <2>3. Idle(Local(c))'
    BY <1>1, <2>1, <2>2, ChanEnds
  <2>4. QED
    BY <2>2, <2>3
<1>3. QED
  BY <1>2 DEF PoolInv

(* A step in which no channel comes or goes. *)
LEMMA IdStep ==
  ASSUME IdInv, nextChannelId_' = nextChannelId_,
         \A c \in Chan : link'[Local(c)] = "none" <=> link[Local(c)] = "none"
  PROVE  IdInv'
BY DEF IdInv, InUse

(* An open() of the local end e: OPEN is sent, the peer may not know yet. *)
LEMMA Opening ==
  ASSUME TypeOK, StreamsInv, NEW e \in End, e[1] = "local", link[e] # "closed",
         state_[e] \in {"none", "CLOSED"},
         \A x \in End \ {e} : Same(x),
         inbox' = Passed(e, "OPEN", session[e] + 1),
         state_'[e] = "OPEN", session'[e] = session[e] + 1,
         EndInv(e)'
  PROVE  StreamsInv'
<1> DEFINE f == Peer(e)
           m == [type |-> "OPEN", session |-> session[e] + 1]
<1>1. /\ f \in End /\ f # e /\ Peer(f) = e /\ f[1] # "local"
      /\ StreamInv(e) /\ FlowInv(e) /\ StreamInv(f) /\ FlowInv(f)
  BY Ends DEF StreamsInv
<1>2. /\ inbox[e] = <<>> /\ PhaseSeen(e) = 2 * session[e] /\ PhaseSent(e) = 2 * session[e]
      /\ session[e] \in Nat
  BY NoMail DEF TypeOK
<1>3. inbox'[e] = <<>> /\ \A x \in End \ {e, f} : inbox'[x] = inbox[x]
  BY <1>1, <1>2 DEF Passed, TypeOK
<1>4. /\ PhaseSeen(e)' = 2 * session[e] + 1 /\ PhaseSent(e)' = 2 * session[e] + 1
      /\ ~GotClose(e)'
  BY <1>2 DEF PhaseSeen, PhaseSent, GotClose, SentClose
<1>5. StreamInv(e)'
  BY <1>3 DEF StreamInv, Leads
<1>6. FlowInv(e)'
  <2>1. PhaseSent(f)' = PhaseSent(f) /\ link'[f] = link[f]
    BY <1>1, SamePhases DEF Same
  <2>2. ASSUME link[f] # "closed" PROVE PhaseSent(f) = 2 * session[e]
    BY <1>1, <1>2, <2>2 DEF FlowInv, LeadsTo, GotClose
  <2>3. QED
    BY <1>1, <1>2, <1>3, <1>4, <2>1, <2>2 DEF FlowInv
<1>7. StreamInv(f)' /\ FlowInv(f)'
  <2>1. m \in Message /\ m.type = "OPEN" /\ m.session = session[e] + 1
    BY <1>2 DEF Message
  <2>2. PhaseOf(m) = PhaseSent(e) + 1 /\ PhaseSent(e)' = PhaseOf(m)
    BY <1>2, <1>4 DEF PhaseOf
  <2>3. link[f] # "closed" => LeadsTo(inbox[f], PhaseSeen(f)) = PhaseSent(e)
    BY <1>1 DEF FlowInv
  <2>4. Same(f)
    BY <1>1
  <2> HIDE DEF m
  <2>5. QED
    BY <2>1, <2>2, <2>3, <2>4, Passing
<1>8. QED
  BY <1>3, <1>5, <1>6, <1>7, StepOf
-----------------------------------------------------------------------------
(* Type correctness of a step. *)
LEMMA PassedType ==
  ASSUME TypeOK, NEW e \in End, NEW type \in {"OPEN", "CLOSE", "data"}, NEW n \in Nat
  PROVE  /\ Passed(e, type, n) \in [End -> Seq(Message)]
         /\ Sent(e, type, n) \in [End -> Seq(Message)]
<1>1. [type |-> type, session |-> n] \in Message
  BY DEF Message
<1>2. QED
  BY <1>1, Ends DEF Passed, Sent, TypeOK

(* The channels in use, when one more comes or goes. *)
LEMMA Counting ==
  ASSUME NEW c \in Chan
  PROVE  /\ Cardinality(InUse) \in Nat
         /\ c \in InUse => /\ Cardinality(InUse \ {c}) = Cardinality(InUse) - 1
                           /\ Cardinality(InUse) > 0
         /\ c \notin InUse => Cardinality(InUse \cup {c}) = Cardinality(InUse) + 1
<1>1. IsFiniteSet(Chan) /\ InUse \subseteq Chan
  BY FS_Interval, DataPoolAssumption DEF Chan, InUse
<1>2. IsFiniteSet(InUse)
  BY <1>1, FS_Subset
<1>3. Cardinality(InUse) \in Nat
  BY <1>2, FS_CardinalityType
<1>4. c \notin InUse => Cardinality(InUse \cup {c}) = Cardinality(InUse) + 1
  BY <1>2, FS_AddElement
<1>5. c \in InUse => Cardinality(InUse \ {c}) = Cardinality(InUse) - 1
  BY <1>2, FS_RemoveElement
<1>6. Cardinality(InUse \ {c}) \in Nat
  BY <1>2, FS_RemoveElement, FS_CardinalityType
<1>7. QED
  BY <1>3, <1>4, <1>5, <1>6

(* A step keeps every variable in its type. *)
LEMMA TypeStep == IndInv /\ [Next]_vars => TypeOK'
<1> SUFFICES ASSUME IndInv, [Next]_vars PROVE TypeOK'
  OBVIOUS
<1>0. TypeOK
  BY DEF IndInv
<1>1. CASE Reuse
  <2>1. Head(pool_) \in Chan /\ Tail(pool_) \in Seq(Chan)
    BY <1>0, <1>1 DEF Reuse, TypeOK
  <2>2. Local(Head(pool_)) \in End /\ session[Local(Head(pool_))] + 1 \in Nat
    <3>1. PICK c \in Chan : c = Head(pool_)
      BY <2>1
    <3>2. Local(c) \in End /\ session[Local(c)] + 1 \in Nat
      BY <1>0, ChanEnds DEF TypeOK
    <3>3. QED
      BY <3>1, <3>2
  <2>3. inbox' \in [End -> Seq(Message)]
    BY <1>0, <1>1, <2>2, PassedType DEF Reuse
  <2>4. pool_' \in Seq(Chan)
    BY <1>1, <2>1 DEF Reuse
  <2>5. state_' = [state_ EXCEPT ![Local(Head(pool_))] = "OPEN"]
        /\ session' = [session EXCEPT ![Local(Head(pool_))] = @ + 1]
    BY <1>1 DEF Reuse, Open
  <2>6. state_' \in [End -> {"none", "OPEN", "CLOSING", "CLOSED", "PERMANENTLY_CLOSED"}]
    BY <1>0, <2>5 DEF TypeOK
  <2>7. session' \in [End -> Nat]
    BY <1>0, <2>2, <2>5 DEF TypeOK
  <2>8. QED
    BY <1>0, <1>1, <2>3, <2>4, <2>6, <2>7 DEF Reuse, TypeOK
<1>2. CASE OpenNew
  <2>1. nextChannelId_' \in 0..MaxChannels
    BY <1>0, <1>2, DataPoolAssumption DEF OpenNew, TypeOK
  <2>2. link' \in [End -> {"none", "opening", "open", "closed"}]
    BY <1>0, <1>2 DEF OpenNew, TypeOK
  <2>3. QED
    BY <1>0, <1>2, <2>1, <2>2 DEF OpenNew, TypeOK
<1>3. ASSUME NEW c \in Chan, NewOpened(c) PROVE TypeOK'
  <2>1. Local(c) \in End /\ session[Local(c)] + 1 \in Nat
    BY <1>0, ChanEnds DEF TypeOK
  <2>2. inbox' \in [End -> Seq(Message)]
    BY <1>0, <1>3, <2>1, PassedType DEF NewOpened
  <2>3. link' \in [End -> {"none", "opening", "open", "closed"}]
        /\ handling' \in [End -> BOOLEAN]
    BY <1>0, <1>3 DEF NewOpened, TypeOK
  <2>4. state_' \in [End -> {"none", "OPEN", "CLOSING", "CLOSED", "PERMANENTLY_CLOSED"}]
        /\ session' \in [End -> Nat]
    BY <1>0, <1>3, <2>1 DEF NewOpened, Open, TypeOK
  <2>5. QED
    BY <1>0, <1>3, <2>2, <2>3, <2>4 DEF NewOpened, TypeOK
<1>4. ASSUME NEW c \in Chan, OpenNewFails(c) PROVE TypeOK'
  <2>1. nextChannelId_ > 0
    BY <1>4, Counting DEF OpenNewFails, IndInv, IdInv, InUse
  <2>2. nextChannelId_' \in 0..MaxChannels
    BY <1>0, <1>4, <2>1, DataPoolAssumption DEF OpenNewFails, TypeOK
  <2>3. link' \in [End -> {"none", "opening", "open", "closed"}]
    BY <1>0, <1>4 DEF OpenNewFails, TypeOK
  <2>4. QED
    BY <1>0, <1>4, <2>2, <2>3 DEF OpenNewFails, TypeOK
<1>5. ASSUME NEW c \in Chan, PeerOpened(c) PROVE TypeOK'
  BY <1>0, <1>5 DEF PeerOpened, TypeOK
<1>6. ASSUME NEW e \in End, Send(e) PROVE TypeOK'
  BY <1>0, <1>6, PassedType DEF Send, TypeOK
<1>7. ASSUME NEW e \in End, Close(e) PROVE TypeOK'
  BY <1>0, <1>7, PassedType DEF Close, TypeOK
<1>8. ASSUME NEW e \in End, NEW type \in {"OPEN", "CLOSE", "data"}, Receives(e, type)
      PROVE  inbox' \in [End -> Seq(Message)] /\ Head(inbox[e]).session \in Nat
  <2>1. Head(inbox[e]) \in Message /\ Tail(inbox[e]) \in Seq(Message)
    BY <1>0, <1>8 DEF Receives, TypeOK
  <2>2. QED
    BY <1>0, <1>8, <2>1 DEF Receives, TypeOK, Message
<1>9. ASSUME NEW e \in End, ReceiveData(e) PROVE TypeOK'
  <2>1. inbox' \in [End -> Seq(Message)] /\ Head(inbox[e]).session \in Nat
    BY <1>8, <1>9 DEF ReceiveData
  <2>2. Append(unread[e], Head(inbox[e]).session) \in Seq(Nat)
    BY <1>0, <2>1 DEF TypeOK
  <2>3. QED
    BY <1>0, <1>9, <2>1, <2>2 DEF ReceiveData, TypeOK
<1>10. ASSUME NEW e \in End, ReceiveOpen(e) PROVE TypeOK'
  BY <1>0, <1>8, <1>10 DEF ReceiveOpen, TypeOK
<1>11. ASSUME NEW e \in End, ReceiveClose(e) PROVE TypeOK'
  BY <1>0, <1>8, <1>11 DEF ReceiveClose, TypeOK
<1>12. ASSUME NEW e \in End, HandleData(e) PROVE TypeOK'
  <2>1. Tail(unread[e]) \in Seq(Nat)
    BY <1>0, <1>12 DEF HandleData, TypeOK
  <2>2. QED
    BY <1>0, <1>12, <2>1 DEF HandleData, TypeOK
<1>13. ASSUME NEW e \in End, SendAck(e) PROVE TypeOK'
  BY <1>0, <1>13, PassedType DEF SendAck, TypeOK
<1>14. ASSUME NEW e \in End, AckSent(e) PROVE TypeOK'
  BY <1>0, <1>14 DEF AckSent, TypeOK
<1>15. ASSUME NEW e \in End, OnClosed(e) PROVE TypeOK'
  <2>0. Append(pool_, e[2]) \in Seq(Chan)
    BY <1>0, Ends DEF TypeOK
  <2>1. pool_' \in Seq(Chan)
    BY <1>0, <1>15, <2>0 DEF OnClosed, TypeOK
  <2>2. handling' \in [End -> BOOLEAN] /\ unread' \in [End -> Seq(Nat)]
    <3>1. CASE state_[e] = "CLOSED"
      <4>1. handling' = [handling EXCEPT ![e] = TRUE] /\ unread' = [unread EXCEPT ![e] = <<>>]
        BY <1>15, <3>1 DEF OnClosed
      <4>2. QED
        BY <1>0, <4>1 DEF TypeOK
    <3>2. CASE state_[e] # "CLOSED"
      BY <1>0, <1>15, <3>2 DEF OnClosed, TypeOK
    <3>3. QED
      BY <3>1, <3>2
  <2>3. QED
    BY <1>0, <1>15, <2>1, <2>2 DEF OnClosed, TypeOK
<1>16. ASSUME NEW e \in End, LinkClosed(e), failures' \in Nat PROVE TypeOK'
  <2>1. link' \in [End -> {"none", "opening", "open", "closed"}]
        /\ inbox' \in [End -> Seq(Message)]
    BY <1>0, <1>16 DEF LinkClosed, TypeOK
  <2>2. state_' \in [End -> {"none", "OPEN", "CLOSING", "CLOSED", "PERMANENTLY_CLOSED"}]
        /\ closing' \in [End -> BOOLEAN]
    BY <1>0, <1>16 DEF LinkClosed, TypeOK
  <2>3. QED
    BY <1>0, <1>16, <2>1, <2>2 DEF LinkClosed, TypeOK
<1>17. ASSUME NEW e \in End, LinkFails(e) \/ LinkFollows(e) PROVE TypeOK'
  <2>1. LinkClosed(e) /\ failures' \in Nat
    BY <1>0, <1>17 DEF LinkFails, LinkFollows, TypeOK
  <2>2. QED
    BY <1>16, <2>1
<1>18. CASE UNCHANGED vars
  BY <1>0, <1>18 DEF vars, TypeOK
<1>19. QED
  BY <1>1, <1>2, <1>3, <1>4, <1>5, <1>6, <1>7, <1>9, <1>10, <1>11, <1>12, <1>13, <1>14,
     <1>15, <1>17, <1>18 DEF Next, EndStep
-----------------------------------------------------------------------------
(* Each step preserves the rest of the invariant. *)
Rest == StreamsInv /\ PoolInv /\ IdInv

(* Before an end has closed its session, its peer has nothing ahead of it. *)
LEMMA OpenFlow ==
  ASSUME TypeOK, StreamsInv, NEW e \in End,
         link[e] # "closed", link[Peer(e)] # "closed", PhaseSent(e) = 2 * session[e] - 1
  PROVE  LeadsTo(inbox[Peer(e)], PhaseSeen(Peer(e))) = PhaseSent(e)
<1> DEFINE f == Peer(e)
<1>1. f \in End /\ Peer(f) = e /\ FlowInv(f) /\ session[e] \in Nat /\ session[f] \in Nat
  BY Ends DEF StreamsInv, TypeOK
<1>2. ~GotClose(f) => PhaseSeen(f) = 2 * session[f] - 1
  BY DEF PhaseSeen
<1>3. ~(~GotClose(f) /\ PhaseSeen(f) = PhaseSent(e) + 1)
  BY <1>1, <1>2, Parity
<1>4. QED
  BY <1>1, <1>3 DEF FlowInv

(* End e sends data, or the CLOSE of its session. *)
LEMMA Sending ==
  ASSUME TypeOK, StreamsInv, NEW e \in End, NEW m \in Message,
         link[e] = "open", link'[e] = link[e],
         \A x \in End \ {e} : Same(x),
         inbox' = Passed(e, m.type, m.session), m.type # "OPEN",
         PhaseSent(e) = 2 * session[e] - 1,
         PhaseOf(m) = PhaseSent(e) + (IF m.type = "data" THEN 0 ELSE 1),
         PhaseSent(e)' = PhaseOf(m),
         PhaseSeen(e)' = PhaseSeen(e),
         GotClose(e)' <=> GotClose(e),
         EndInv(e)'
  PROVE  StreamsInv'
<1> DEFINE f == Peer(e)
<1>1. f \in End /\ f # e /\ Peer(f) = e /\ StreamInv(e) /\ FlowInv(e) /\ Same(f)
  BY Ends DEF StreamsInv
<1>2. inbox'[e] = inbox[e] /\ \A x \in End \ {e, f} : inbox'[x] = inbox[x]
  BY <1>1 DEF Passed, TypeOK
<1>3. StreamInv(f)' /\ FlowInv(f)'
  BY <1>1, OpenFlow, Passing
<1>4. StreamInv(e)'
  BY <1>1, <1>2 DEF StreamInv, Leads, PhaseOf
<1>5. PhaseSent(f)' = PhaseSent(f) /\ link'[f] = link[f]
  BY <1>1, SamePhases DEF Same
<1>6. FlowInv(e)'
  BY <1>1, <1>2, <1>5 DEF FlowInv, LeadsTo, PhaseOf
<1>7. QED
  BY <1>2, <1>3, <1>4, <1>6, StepOf

(* send(): data of the session under way follow its OPEN. *)
LEMMA SendStep == ASSUME IndInv, NEW e \in End, Send(e) PROVE Rest'
<1> USE DEF IndInv
<1> DEFINE m == [type |-> "data", session |-> session[e]]
<1>1. StreamsInv /\ EndInv(e) /\ session[e] \in Nat
  BY DEF StreamsInv, TypeOK
<1>2. /\ state_[e] = "OPEN" /\ link[e] = "open"
      /\ inbox' = Passed(e, "data", session[e])
      /\ \A x \in End : Same(x)
  BY DEF Send, Same
<1>3. PhaseSent(e) = 2 * session[e] - 1
  BY <1>2 DEF PhaseSent, SentClose
<1>4. m \in Message /\ m.type = "data" /\ m.session = session[e] /\ PhaseOf(m) = PhaseSent(e)
  BY <1>1, <1>3 DEF Message, PhaseOf
<1>5. EndInv(e)'
  BY <1>1, <1>2 DEF EndInv, Same
<1>6. PhaseSent(e)' = PhaseSent(e) /\ PhaseSeen(e)' = PhaseSeen(e) /\ (GotClose(e)' <=> GotClose(e))
  BY <1>2, SamePhases
<1> HIDE DEF m
<1>7. PhaseOf(m) = PhaseSent(e) + (IF m.type = "data" THEN 0 ELSE 1)
  BY <1>1, <1>3, <1>4
<1>8. StreamsInv'
  BY <1>1, <1>2, <1>3, <1>4, <1>5, <1>6, <1>7, Sending DEF Same
<1>9. PoolInv'
  BY <1>2, PoolStep DEF Send, Idle, Same
<1>10. IdInv'
  BY <1>2, IdStep DEF Send
<1>11. QED
  BY <1>8, <1>9, <1>10 DEF Rest

(* close(): the CLOSE follows all that was sent before it. *)
LEMMA CloseStep == ASSUME IndInv, NEW e \in End, Close(e) PROVE Rest'
<1> USE DEF IndInv
<1> DEFINE m == [type |-> "CLOSE", session |-> session[e]]
<1>1. StreamsInv /\ EndInv(e) /\ session[e] \in Nat
  BY DEF StreamsInv, TypeOK
<1>2. /\ state_[e] = "OPEN" /\ state_'[e] = "CLOSING" /\ link' = link
      /\ inbox' = Sent(e, "CLOSE", session[e])
      /\ \A x \in End \ {e} : Same(x)
      /\ session'[e] = session[e] /\ drain'[e] = drain[e]
  BY DEF Close, Same, TypeOK
<1>3. EndInv(e)'
  BY <1>1, <1>2 DEF EndInv, Close
<1>4. ASSUME link[e] = "open" PROVE StreamsInv'
  <2>1. drain[e] = "no"
    BY <1>1, <1>2, <1>4 DEF EndInv
  <2>2. /\ PhaseSent(e) = 2 * session[e] - 1 /\ PhaseSent(e)' = 2 * session[e]
        /\ PhaseSeen(e)' = PhaseSeen(e) /\ ~GotClose(e) /\ ~GotClose(e)'
    BY <1>2, <2>1 DEF PhaseSent, PhaseSeen, SentClose, GotClose
  <2>3. m \in Message /\ m.type = "CLOSE" /\ m.session = session[e] /\ PhaseOf(m) = 2 * session[e]
    BY <1>1 DEF Message, PhaseOf
  <2> HIDE DEF m
  <2>4. PhaseOf(m) = PhaseSent(e) + (IF m.type = "data" THEN 0 ELSE 1)
    BY <1>1, <2>2, <2>3
  <2>5. inbox' = Passed(e, m.type, m.session)
    BY <1>2, <1>4, <2>3 DEF Sent
  <2>6. QED
    BY <1>1, <1>2, <1>3, <1>4, <2>2, <2>3, <2>4, <2>5, Sending
<1>5. ASSUME link[e] # "open" PROVE StreamsInv'
  <2>1. link[e] = "closed" /\ inbox' = inbox
    BY <1>1, <1>2, <1>5 DEF EndInv, Sent, TypeOK
  <2>2. QED
    BY <1>1, <1>2, <1>3, <2>1, Quiet
<1>6. StreamsInv'
  BY <1>4, <1>5
<1>7. PoolInv'
  BY <1>2, PoolStep DEF Close, Idle
<1>8. IdInv'
  BY <1>2, IdStep DEF Close
<1>9. QED
  BY <1>6, <1>7, <1>8 DEF Rest

(* The acknowledgement of a close is the CLOSE of this end. *)
LEMMA SendAckStep == ASSUME IndInv, NEW e \in End, SendAck(e) PROVE Rest'
<1> USE DEF IndInv
<1> DEFINE m == [type |-> "CLOSE", session |-> session[e]]
<1>1. StreamsInv /\ EndInv(e) /\ session[e] \in Nat
  BY DEF StreamsInv, TypeOK
<1>2. /\ drain[e] = "waiting" /\ drain'[e] = "acked" /\ link' = link
      /\ inbox' = Sent(e, "CLOSE", session[e])
      /\ \A x \in End \ {e} : Same(x)
      /\ session' = session /\ state_' = state_
  BY DEF SendAck, Same, TypeOK
<1>3. EndInv(e)'
  BY <1>1, <1>2 DEF EndInv, SendAck
<1>4. ASSUME link[e] = "open" PROVE StreamsInv'
  <2>1. state_[e] = "CLOSING"
    BY <1>1, <1>2, <1>4 DEF EndInv, TypeOK
  <2>2. /\ PhaseSent(e) = 2 * session[e] - 1 /\ PhaseSent(e)' = 2 * session[e]
        /\ PhaseSeen(e)' = PhaseSeen(e) /\ GotClose(e) /\ GotClose(e)'
    BY <1>2, <2>1 DEF PhaseSent, PhaseSeen, SentClose, GotClose
  <2>3. m \in Message /\ m.type = "CLOSE" /\ m.session = session[e] /\ PhaseOf(m) = 2 * session[e]
    BY <1>1 DEF Message, PhaseOf
  <2> HIDE DEF m
  <2>4. PhaseOf(m) = PhaseSent(e) + (IF m.type = "data" THEN 0 ELSE 1)
    BY <1>1, <2>2, <2>3
  <2>5. inbox' = Passed(e, m.type, m.session)
    BY <1>2, <1>4, <2>3 DEF Sent
  <2>6. QED
    BY <1>1, <1>2, <1>3, <1>4, <2>2, <2>3, <2>4, <2>5, Sending
<1>5. ASSUME link[e] # "open" PROVE StreamsInv'
  <2>1. link[e] = "closed" /\ inbox' = inbox
    BY <1>1, <1>2, <1>5 DEF EndInv, Sent, TypeOK
  <2>2. QED
    BY <1>1, <1>2, <1>3, <2>1, Quiet
<1>6. StreamsInv'
  BY <1>4, <1>5
<1>7. PoolInv'
  BY <1>2, PoolStep DEF SendAck, Idle
<1>8. IdInv'
  BY <1>2, IdStep DEF SendAck
<1>9. QED
  BY <1>6, <1>7, <1>8 DEF Rest
(* Data belong to the session that is open here. *)
LEMMA ReceiveDataStep == ASSUME IndInv, NEW e \in End, ReceiveData(e) PROVE Rest'
<1> USE DEF IndInv
<1>1. StreamsInv /\ EndInv(e) /\ unread[e] \in Seq(Nat)
  BY DEF StreamsInv, TypeOK
<1>2. /\ handling[e] /\ inbox[e] # <<>> /\ Head(inbox[e]).type = "data"
      /\ inbox' = [inbox EXCEPT ![e] = Tail(@)]
      /\ unread'[e] = Append(unread[e], Head(inbox[e]).session)
      /\ \A x \in End \ {e} : Same(x)
      /\ link' = link /\ state_' = state_ /\ session' = session /\ drain' = drain
  BY DEF ReceiveData, Receives, Same, TypeOK
<1>3. /\ state_[e] \in {"OPEN", "CLOSING"} /\ drain[e] = "no"
      /\ Head(inbox[e]).session = session[e] /\ link[e] = "open"
  BY <1>1, <1>2, NextMessage
<1>4. /\ PhaseSeen(e)' = PhaseOf(Head(inbox[e]))
      /\ PhaseSent(e)' = PhaseSent(e)
  BY <1>2, <1>3 DEF PhaseSeen, PhaseSent, GotClose, SentClose, PhaseOf
<1>5. \A i \in 1..Len(unread'[e]) : unread'[e][i] = session[e]
  BY <1>1, <1>2, <1>3 DEF EndInv
<1>6. EndInv(e)'
  BY <1>1, <1>2, <1>3, <1>5 DEF EndInv, ReceiveData
<1>7. StreamsInv'
  BY <1>1, <1>2, <1>4, <1>6, Receiving
<1>8. PoolInv'
  BY <1>2, <1>3, PoolStep DEF ReceiveData, Idle
<1>9. IdInv'
  BY <1>2, IdStep DEF ReceiveData
<1>10. QED
  BY <1>7, <1>8, <1>9 DEF Rest

(* An OPEN finds the remote end closed, and the local one waiting for it. *)
LEMMA ReceiveOpenStep == ASSUME IndInv, NEW e \in End, ReceiveOpen(e) PROVE Rest'
<1> USE DEF IndInv
<1> DEFINE f == Peer(e)
<1>1. StreamsInv /\ EndInv(e) /\ session[e] \in Nat
  BY DEF StreamsInv, TypeOK
<1>2. /\ handling[e] /\ inbox[e] # <<>> /\ Head(inbox[e]).type = "OPEN"
      /\ inbox' = [inbox EXCEPT ![e] = Tail(@)]
      /\ \A x \in End \ {e} : Same(x)
      /\ link' = link /\ state_'[e] = "OPEN" /\ session'[e] = session[e] + 1 /\ drain' = drain
      /\ handling' = handling /\ closing' = closing /\ unread' = unread
  BY DEF ReceiveOpen, Receives, Same, TypeOK
<1>3. /\ state_[e] = "CLOSED" /\ e[1] = "remote" /\ link[e] = "open"
      /\ Head(inbox[e]).session = session[e] + 1
  BY <1>1, <1>2, NextMessage
<1>4. /\ PhaseSeen(e)' = PhaseOf(Head(inbox[e])) /\ PhaseSeen(e) = 2 * session[e]
      /\ PhaseSent(e)' = 2 * session[e] + 1 /\ PhaseSent(e) = 2 * session[e]
      /\ PhaseOf(Head(inbox[e])) = 2 * session[e] + 1
  BY <1>1, <1>2, <1>3 DEF PhaseSeen, PhaseSent, GotClose, SentClose, PhaseOf
<1>5. EndInv(e)'
  BY <1>1, <1>2, <1>3 DEF EndInv
<1>6. /\ f \in End /\ f # e /\ Peer(f) = e /\ f[1] = "local" /\ Same(f)
      /\ StreamInv(e) /\ FlowInv(e) /\ StreamInv(f) /\ FlowInv(f) /\ session[f] \in Nat
  BY <1>1, <1>2, <1>3, Ends DEF StreamsInv, TypeOK
(* The local end has opened this session and has seen nothing of it. *)
<1>7. FlowInv(f)'
  <2>1. ASSUME link[f] # "closed"
        PROVE  inbox[f] = <<>> /\ ~GotClose(f) /\ PhaseSeen(f) = PhaseSent(e) + 1
    <3>1. LeadsTo(inbox[e], PhaseSeen(e)) = PhaseSent(f)
      BY <1>3, <1>6, <2>1 DEF FlowInv
    <3>2. PhaseSent(f) >= 2 * session[e] + 1 /\ PhaseSent(f) \in Int
      <4>1. /\ inbox[e] \in Seq(Message) /\ Leads(inbox[e], PhaseSeen(e))
            /\ PhaseSeen(e) \in Int /\ \A k \in Message : PhaseOf(k) \in Int
        BY <1>3, <1>6, Phases DEF StreamInv, TypeOK
      <4>2. /\ Leads(Tail(inbox[e]), PhaseOf(Head(inbox[e])))
            /\ LeadsTo(Tail(inbox[e]), PhaseOf(Head(inbox[e]))) = PhaseSent(f)
        BY <1>2, <3>1, <4>1, LeadsTail
      <4>3. Tail(inbox[e]) \in Seq(Message) /\ PhaseOf(Head(inbox[e])) \in Int
        BY <1>1, <1>2, <1>4, <4>1
      <4>4. QED
        BY <1>4, <4>1, <4>2, <4>3, LeadsUp
    <3>3. PhaseSeen(f) >= 2 * session[e] + 1 /\ PhaseSeen(f) \in Int
      <4>1. PhaseSent(f) <= 2 * session[f] /\ PhaseSeen(f) \in {2 * session[f], 2 * session[f] - 1}
        BY <1>6, Phases
      <4>2. QED
        BY <1>1, <1>6, <3>2, <4>1
    <3>4. LeadsTo(inbox[f], PhaseSeen(f)) # PhaseSent(e)
      <4>1. inbox[f] \in Seq(Message) /\ Leads(inbox[f], PhaseSeen(f))
        BY <1>6, <2>1 DEF StreamInv, TypeOK
      <4>2. PhaseSeen(f) <= LeadsTo(inbox[f], PhaseSeen(f)) /\ LeadsTo(inbox[f], PhaseSeen(f)) \in Int
        BY <1>6, <3>3, <4>1, LeadsUp, Phases
      <4>3. QED
        BY <1>1, <1>4, <3>3, <4>2
    <3>5. QED
      BY <1>3, <1>6, <2>1, <3>4 DEF FlowInv
  <2>2. /\ inbox'[f] = inbox[f] /\ PhaseSeen(f)' = PhaseSeen(f)
    BY <1>2, <1>6, SamePhases DEF TypeOK
  <2>3. ASSUME link[f] # "closed" PROVE LeadsTo(inbox'[f], PhaseSeen(f)') = PhaseSent(e)'
    BY <1>1, <1>4, <2>1, <2>2, <2>3 DEF LeadsTo
  <2>4. QED
    BY <1>2, <1>6, <2>3 DEF FlowInv
<1>8. StreamsInv'
  BY <1>1, <1>2, <1>4, <1>5, <1>7, Receiving
<1>9. PoolInv'
  BY <1>2, <1>3, PoolStep DEF ReceiveOpen
<1>10. IdInv'
  BY <1>2, IdStep DEF ReceiveOpen
<1>11. QED
  BY <1>8, <1>9, <1>10 DEF Rest

(* A CLOSE ends the session that is open here. *)
LEMMA ReceiveCloseStep == ASSUME IndInv, NEW e \in End, ReceiveClose(e) PROVE Rest'
<1> USE DEF IndInv
<1>1. StreamsInv /\ EndInv(e) /\ session[e] \in Nat
  BY DEF StreamsInv, TypeOK
<1>2. /\ handling[e] /\ inbox[e] # <<>> /\ Head(inbox[e]).type = "CLOSE"
      /\ inbox' = [inbox EXCEPT ![e] = Tail(@)]
      /\ \A x \in End \ {e} : Same(x)
      /\ link' = link /\ session' = session /\ unread' = unread /\ ~handling'[e]
      /\ \/ state_[e] = "OPEN" /\ state_'[e] = "CLOSING" /\ drain'[e] = "waiting" /\ closing' = closing
         \/ state_[e] = "CLOSING" /\ state_'[e] = "CLOSED" /\ closing'[e] /\ drain' = drain
  BY DEF ReceiveClose, Receives, Same, TypeOK
<1>3. /\ drain[e] = "no" /\ Head(inbox[e]).session = session[e] /\ link[e] = "open"
  BY <1>1, <1>2, NextMessage
<1>4. /\ PhaseSeen(e)' = PhaseOf(Head(inbox[e]))
      /\ PhaseSent(e)' = PhaseSent(e)
  BY <1>2, <1>3 DEF PhaseSeen, PhaseSent, GotClose, SentClose, PhaseOf
<1>5. EndInv(e)'
  BY <1>1, <1>2, <1>3 DEF EndInv
<1>6. StreamsInv'
  BY <1>1, <1>2, <1>4, <1>5, Receiving
<1>7. PoolInv'
  BY <1>2, PoolStep DEF ReceiveClose, Idle
<1>8. IdInv'
  BY <1>2, IdStep DEF ReceiveClose
<1>9. QED
  BY <1>6, <1>7, <1>8 DEF Rest
(* The user handles a message. *)
LEMMA HandleDataStep == ASSUME IndInv, NEW e \in End, HandleData(e) PROVE Rest'
<1> USE DEF IndInv
<1>1. StreamsInv /\ EndInv(e) /\ unread[e] \in Seq(Nat)
  BY DEF StreamsInv, TypeOK
<1>2. /\ unread[e] # <<>> /\ unread'[e] = Tail(unread[e])
      /\ \A x \in End \ {e} : Same(x)
      /\ inbox' = inbox /\ link' = link /\ state_' = state_ /\ session' = session
      /\ drain' = drain /\ handling' = handling /\ closing' = closing
  BY DEF HandleData, Same, TypeOK
<1>3. \A i \in 1..Len(unread'[e]) : unread'[e][i] = session[e]
  BY <1>1, <1>2, TailAt DEF EndInv
<1>4. EndInv(e)'
  BY <1>1, <1>2, <1>3 DEF EndInv
<1>5. /\ PhaseSeen(e)' = PhaseSeen(e) /\ PhaseSent(e)' = PhaseSent(e)
      /\ (GotClose(e)' <=> GotClose(e))
  BY <1>2 DEF PhaseSeen, PhaseSent, GotClose, SentClose
<1>6. StreamsInv'
  BY <1>1, <1>2, <1>4, <1>5, Quiet
<1>7. PoolInv'
  BY <1>2, PoolStep DEF HandleData, Idle
<1>8. IdInv'
  BY <1>2, IdStep DEF HandleData
<1>9. QED
  BY <1>6, <1>7, <1>8 DEF Rest

(* The close has been acknowledged. *)
LEMMA AckSentStep == ASSUME IndInv, NEW e \in End, AckSent(e) PROVE Rest'
<1> USE DEF IndInv
<1>1. StreamsInv /\ EndInv(e)
  BY DEF StreamsInv
<1>2. /\ drain[e] = "acked" /\ drain'[e] = "no"
      /\ \A x \in End \ {e} : Same(x)
      /\ inbox' = inbox /\ link' = link /\ session' = session
      /\ unread' = unread /\ handling' = handling
      /\ \/ state_[e] = "PERMANENTLY_CLOSED" /\ state_' = state_ /\ closing' = closing
         \/ state_[e] # "PERMANENTLY_CLOSED" /\ state_'[e] = "CLOSED" /\ closing'[e]
  BY DEF AckSent, Same, TypeOK
<1>3. /\ link[e] = "open" => state_[e] = "CLOSING" /\ ~handling[e]
      /\ link[e] = "closed" => state_[e] = "PERMANENTLY_CLOSED"
      /\ link[e] \in {"open", "closed"}
  BY <1>1, <1>2 DEF EndInv, TypeOK
<1>4. EndInv(e)'
  BY <1>1, <1>2, <1>3 DEF EndInv
<1>5. link[e] # "closed" =>
        /\ PhaseSeen(e)' = PhaseSeen(e) /\ PhaseSent(e)' = PhaseSent(e)
        /\ (GotClose(e)' <=> GotClose(e))
  BY <1>2, <1>3 DEF PhaseSeen, PhaseSent, GotClose, SentClose
<1>6. StreamsInv'
  BY <1>1, <1>2, <1>4, <1>5, Quiet
<1>7. PoolInv'
  BY <1>2, PoolStep DEF AckSent, Idle
<1>8. IdInv'
  BY <1>2, IdStep DEF AckSent
<1>9. QED
  BY <1>6, <1>7, <1>8 DEF Rest

(* The callback of onceClosed: a channel enters the pool once. *)
LEMMA OnClosedStep == ASSUME IndInv, NEW e \in End, OnClosed(e) PROVE Rest'
<1> USE DEF IndInv
<1>1. StreamsInv /\ EndInv(e) /\ pool_ \in Seq(Chan)
  BY DEF StreamsInv, TypeOK
<1>2. /\ closing[e] /\ ~closing'[e]
      /\ \A x \in End \ {e} : Same(x)
      /\ inbox' = inbox /\ link' = link /\ session' = session
      /\ state_' = state_ /\ drain' = drain
      /\ \/ state_[e] = "CLOSED" /\ handling'[e] /\ unread'[e] = <<>>
         \/ state_[e] # "CLOSED" /\ handling' = handling /\ unread' = unread
  BY DEF OnClosed, Same, TypeOK
<1>3. state_[e] = "CLOSED" => link[e] = "open" /\ drain[e] = "no"
  BY <1>1, <1>2 DEF EndInv, TypeOK
<1>4. EndInv(e)'
  BY <1>1, <1>2, <1>3 DEF EndInv
<1>5. /\ PhaseSeen(e)' = PhaseSeen(e) /\ PhaseSent(e)' = PhaseSent(e)
      /\ (GotClose(e)' <=> GotClose(e))
  BY <1>2 DEF PhaseSeen, PhaseSent, GotClose, SentClose
<1>6. StreamsInv'
  BY <1>1, <1>2, <1>4, <1>5, Quiet
<1>7. PoolInv'
  <2>1. CASE pool_' = pool_
    <3>1. Idle(e) => Idle(e)'
      BY <1>2 DEF Idle
    <3>2. QED
      BY <1>2, <2>1, <3>1, PoolStep
  <2>2. CASE state_[e] = "CLOSED" /\ e[1] = "local" /\ pool_' = Append(pool_, e[2])
    <3>1. PICK c \in Chan : c = e[2] /\ e = Local(c)
      BY <2>2, Ends
    <3>2. /\ Len(pool_') = Len(pool_) + 1 /\ Len(pool_) \in Nat
          /\ pool_'[Len(pool_')] = c
          /\ \A i \in 1..Len(pool_) : pool_'[i] = pool_[i] /\ pool_[i] \in Chan
      BY <1>1, <2>2, <3>1
    (* It is not there yet: its close was under way. *)
    <3>3. \A i \in 1..Len(pool_) : pool_[i] # c
      BY <1>2, <2>2, <3>1 DEF PoolInv, Idle
    <3>4. Idle(Local(c))'
      BY <1>2, <1>3, <2>2, <3>1 DEF Idle
    <3>5. ASSUME NEW d \in Chan, d # c, Idle(Local(d)) PROVE Idle(Local(d))'
      <4>1. Local(d) \in End /\ Local(d) # e
        BY <3>1, <3>5, ChanEnds DEF Local
      <4>2. Same(Local(d))
        BY <1>2, <4>1
      <4>3. QED
        BY <3>5, <4>2 DEF Same, Idle
    <3>6. ASSUME NEW i \in 1..Len(pool_') PROVE Idle(Local(pool_[i]))'
      <4>1. CASE i = Len(pool_')
        BY <3>2, <3>4, <4>1
      <4>2. CASE i # Len(pool_')
        <5>1. i \in 1..Len(pool_)
          BY <3>2, <4>2
        <5>2. PICK d \in Chan : d = pool_[i] /\ d = pool_'[i] /\ d # c /\ Idle(Local(d))
          BY <3>2, <3>3, <5>1 DEF PoolInv
        <5>3. Idle(Local(d))'
          BY <3>5, <5>2
        <5>4. QED
          BY <5>2, <5>3
      <4>3. QED
        BY <4>1, <4>2
    <3>7. ASSUME NEW i \in 1..Len(pool_'), NEW j \in 1..Len(pool_'), pool_'[i] = pool_'[j]
          PROVE i = j
      BY <3>2, <3>3, <3>7 DEF PoolInv
    <3>8. QED
      BY <3>6, <3>7 DEF PoolInv
  <2>3. QED
    BY <2>1, <2>2 DEF OnClosed
<1>8. IdInv'
  BY <1>2, IdStep DEF OnClosed
<1>9. QED
  BY <1>6, <1>7, <1>8 DEF Rest

(* A data channel closes: nothing more is promised of its ends. *)
LEMMA LinkClosedStep ==
  ASSUME IndInv, NEW e \in End, LinkFails(e) \/ LinkFollows(e)
  PROVE  Rest'
<1> USE DEF IndInv
<1>1. StreamsInv /\ EndInv(e) /\ LinkClosed(e)
  BY DEF StreamsInv, LinkFails, LinkFollows
<1>2. /\ link[e] \in {"opening", "open"} /\ link'[e] = "closed" /\ inbox'[e] = <<>>
      /\ \A x \in End \ {e} : Same(x) /\ inbox'[x] = inbox[x]
      /\ session' = session /\ unread' = unread /\ handling' = handling /\ drain' = drain
      /\ pool_' = pool_ /\ nextChannelId_' = nextChannelId_
      /\ \/ link[e] = "open" /\ state_'[e] = "PERMANENTLY_CLOSED"
         \/ link[e] = "opening" /\ state_' = state_ /\ closing' = closing
  BY <1>1 DEF LinkClosed, Same, TypeOK
<1>3. EndInv(e)'
  BY <1>1, <1>2 DEF EndInv
<1>4. StreamInv(e)' /\ FlowInv(e)'
  BY <1>2 DEF StreamInv, FlowInv
<1>5. /\ Peer(e) \in End /\ Peer(e) # e /\ Peer(Peer(e)) = e
      /\ StreamInv(Peer(e)) /\ Same(Peer(e)) /\ inbox'[Peer(e)] = inbox[Peer(e)]
  BY <1>1, <1>2, Ends DEF StreamsInv
<1>6. StreamInv(Peer(e))' /\ FlowInv(Peer(e))'
  <2>1. PhaseSeen(Peer(e))' = PhaseSeen(Peer(e)) /\ link'[Peer(e)] = link[Peer(e)]
    BY <1>5, SamePhases DEF Same
  <2>2. QED
    BY <1>2, <1>5, <2>1 DEF StreamInv, FlowInv, Leads, PhaseOf
<1>7. StreamsInv'
  BY <1>1, <1>2, <1>3, <1>4, <1>6, StepOf
<1>8. PoolInv'
  <2>1. Idle(e) => Idle(e)'
    BY <1>1, <1>2 DEF Idle, EndInv
  <2>2. QED
    BY <1>2, <2>1, PoolStep
<1>9. IdInv'
  <2>1. \A c \in Chan : link'[Local(c)] = "none" <=> link[Local(c)] = "none"
    <3> SUFFICES ASSUME NEW c \in Chan
                 PROVE  link'[Local(c)] = "none" <=> link[Local(c)] = "none"
      OBVIOUS
    <3>1. Local(c) \in End
      BY ChanEnds
    <3>2. QED
      BY <1>2, <3>1 DEF Same
  <2>2. QED
    BY <1>2, <2>1, IdStep
<1>10. QED
  BY <1>7, <1>8, <1>9 DEF Rest
(* A data channel is asked for: one more id is in use. *)
LEMMA OpenNewStep == ASSUME IndInv, OpenNew PROVE Rest'
<1> USE DEF IndInv
<1>1. PICK c \in Chan : c = nextChannelId_ + 1
  BY DataPoolAssumption DEF OpenNew, TypeOK, Chan
<1> DEFINE e == Local(c)
<1>2. e \in End /\ e[1] = "local" /\ StreamsInv /\ EndInv(e)
  BY <1>1, ChanEnds DEF StreamsInv
<1> HIDE DEF e
<1>3. /\ link[e] = "none" /\ link'[e] = "opening" /\ nextChannelId_' = nextChannelId_ + 1
      /\ \A x \in End \ {e} : Same(x)
      /\ inbox' = inbox /\ session' = session /\ state_' = state_ /\ drain' = drain
      /\ unread' = unread /\ handling' = handling /\ closing' = closing /\ pool_' = pool_
  BY <1>1, <1>2 DEF OpenNew, Same, TypeOK, e
<1>4. EndInv(e)'
  BY <1>2, <1>3 DEF EndInv
<1>5. /\ PhaseSeen(e)' = PhaseSeen(e) /\ PhaseSent(e)' = PhaseSent(e)
      /\ (GotClose(e)' <=> GotClose(e))
  BY <1>3 DEF PhaseSeen, PhaseSent, GotClose, SentClose
<1>6. StreamsInv'
  BY <1>2, <1>3, <1>4, <1>5, Quiet
<1>7. PoolInv'
  BY <1>2, <1>3, PoolStep DEF Idle
<1>8. IdInv'
  <2>1. ASSUME NEW d \in Chan, d # c PROVE link'[Local(d)] = link[Local(d)]
    <3>1. Local(d) \in End /\ Local(d) # e
      BY <2>1, ChanEnds DEF Local, e
    <3>2. QED
      BY <1>3, <3>1 DEF Same
  <2>2. InUse' = InUse \cup {c} /\ c \notin InUse
    BY <1>3, <2>1 DEF InUse, e
  <2>3. QED
    BY <1>3, <2>2, Counting DEF IdInv
<1>9. QED
  BY <1>6, <1>7, <1>8 DEF Rest

(* A data channel is refused: one id less is in use. *)
LEMMA OpenNewFailsStep == ASSUME IndInv, NEW c \in Chan, OpenNewFails(c) PROVE Rest'
<1> USE DEF IndInv
<1> DEFINE e == Local(c)
<1>1. e \in End /\ e[1] = "local" /\ StreamsInv /\ EndInv(e)
  BY ChanEnds DEF StreamsInv
<1> HIDE DEF e
<1>2. /\ link[e] = "opening" /\ link'[e] = "none" /\ nextChannelId_' = nextChannelId_ - 1
      /\ \A x \in End \ {e} : Same(x)
      /\ inbox' = inbox /\ session' = session /\ state_' = state_ /\ drain' = drain
      /\ unread' = unread /\ handling' = handling /\ closing' = closing /\ pool_' = pool_
  BY <1>1 DEF OpenNewFails, Same, TypeOK, e
<1>3. EndInv(e)'
  BY <1>1, <1>2 DEF EndInv
<1>4. /\ PhaseSeen(e)' = PhaseSeen(e) /\ PhaseSent(e)' = PhaseSent(e)
      /\ (GotClose(e)' <=> GotClose(e))
  BY <1>2 DEF PhaseSeen, PhaseSent, GotClose, SentClose
<1>5. StreamsInv'
  BY <1>1, <1>2, <1>3, <1>4, Quiet
<1>6. PoolInv'
  BY <1>1, <1>2, PoolStep DEF Idle
<1>7. IdInv'
  <2>1. ASSUME NEW d \in Chan, d # c PROVE link'[Local(d)] = link[Local(d)]
    <3>1. Local(d) \in End /\ Local(d) # e
      BY <2>1, ChanEnds DEF Local, e
    <3>2. QED
      BY <1>2, <3>1 DEF Same
  <2>2. InUse' = InUse \ {c} /\ c \in InUse
    BY <1>2, <2>1 DEF InUse, e
  <2>3. QED
    BY <1>2, <2>2, Counting DEF IdInv
<1>8. QED
  BY <1>5, <1>6, <1>7 DEF Rest

(* A step in which the data channel of an end opens: the ids stay in use. *)
LEMMA LinkOpens ==
  ASSUME TypeOK, IdInv, NEW e \in End, link' = [link EXCEPT ![e] = "open"],
         e[1] = "local" => link[e] # "none",
         nextChannelId_' = nextChannelId_
  PROVE  IdInv'
<1>1. ASSUME NEW c \in Chan PROVE link'[Local(c)] = "none" <=> link[Local(c)] = "none"
  <2>1. Local(c) \in End /\ Local(c)[1] = "local"
    BY ChanEnds
  <2>2. QED
    BY <2>1 DEF TypeOK
<1>2. QED
  BY <1>1, IdStep

(* The remote end gets the peer's channel. *)
LEMMA PeerOpenedStep == ASSUME IndInv, NEW c \in Chan, PeerOpened(c) PROVE Rest'
<1> USE DEF IndInv
<1> DEFINE e == Remote(c)
<1>1. e \in End /\ e[1] = "remote" /\ StreamsInv /\ EndInv(e)
  BY ChanEnds DEF StreamsInv
<1> HIDE DEF e
<1>2. /\ link[e] = "none" /\ link' = [link EXCEPT ![e] = "open"] /\ link'[e] = "open"
      /\ state_'[e] = "CLOSED" /\ handling'[e]
      /\ \A x \in End \ {e} : Same(x)
      /\ inbox' = inbox /\ session' = session /\ drain' = drain
      /\ unread' = unread /\ closing' = closing /\ pool_' = pool_
      /\ nextChannelId_' = nextChannelId_
  BY <1>1 DEF PeerOpened, Same, TypeOK, e
<1>3. EndInv(e)' /\ state_[e] = "none"
  BY <1>1, <1>2 DEF EndInv
<1>4. /\ PhaseSeen(e)' = PhaseSeen(e) /\ PhaseSent(e)' = PhaseSent(e)
      /\ (GotClose(e)' <=> GotClose(e))
  BY <1>2, <1>3 DEF PhaseSeen, PhaseSent, GotClose, SentClose
<1>5. StreamsInv'
  BY <1>1, <1>2, <1>3, <1>4, Quiet
<1>6. PoolInv'
  BY <1>1, <1>2, PoolStep
<1>7. IdInv'
  BY <1>1, <1>2, LinkOpens
<1>8. QED
  BY <1>5, <1>6, <1>7 DEF Rest

(* The local end of a new channel is opened for the first time. *)
LEMMA NewOpenedStep == ASSUME IndInv, NEW c \in Chan, NewOpened(c) PROVE Rest'
<1> USE DEF IndInv
<1> DEFINE e == Local(c)
<1>1. e \in End /\ e[1] = "local" /\ StreamsInv /\ EndInv(e)
  BY ChanEnds DEF StreamsInv
<1> HIDE DEF e
<1>2. /\ link[e] = "opening" /\ link' = [link EXCEPT ![e] = "open"] /\ link'[e] = "open"
      /\ state_'[e] = "OPEN" /\ handling'[e] /\ session'[e] = session[e] + 1
      /\ inbox' = Passed(e, "OPEN", 1)
      /\ \A x \in End \ {e} : Same(x)
      /\ drain' = drain /\ unread' = unread /\ closing' = closing /\ pool_' = pool_
      /\ nextChannelId_' = nextChannelId_
  BY <1>1 DEF NewOpened, Open, Same, TypeOK, e
<1>3. /\ state_[e] = "none" /\ session[e] = 0 /\ unread[e] = <<>>
      /\ drain[e] = "no" /\ ~closing[e]
  BY <1>1, <1>2 DEF EndInv
<1>4. EndInv(e)'
  BY <1>2, <1>3 DEF EndInv
<1>5. session[e] + 1 = 1
  BY <1>3
<1>6. StreamsInv'
  BY <1>1, <1>2, <1>3, <1>4, <1>5, Opening
<1>7. PoolInv'
  BY <1>1, <1>2, <1>3, PoolStep DEF Idle
<1>8. IdInv'
  BY <1>1, <1>2, LinkOpens
<1>9. QED
  BY <1>6, <1>7, <1>8 DEF Rest

(* A channel leaves the pool and is opened again. *)
LEMMA ReuseStep == ASSUME IndInv, Reuse PROVE Rest'
<1> USE DEF IndInv
<1>1. PICK c \in Chan : c = Head(pool_)
  BY DEF Reuse, TypeOK
<1> DEFINE e == Local(c)
<1>2. e \in End /\ e[1] = "local" /\ StreamsInv /\ EndInv(e) /\ session[e] \in Nat
  BY <1>1, ChanEnds DEF StreamsInv, TypeOK
<1>3. /\ pool_ \in Seq(Chan) /\ pool_ # <<>> /\ 1 \in 1..Len(pool_) /\ pool_[1] = c
      /\ pool_' = Tail(pool_)
  BY <1>1 DEF Reuse, TypeOK
<1>4. Idle(e)
  BY <1>3 DEF PoolInv
<1>5. /\ state_'[e] = "OPEN" /\ session'[e] = session[e] + 1
      /\ inbox' = Sent(e, "OPEN", session[e] + 1)
      /\ \A x \in End \ {e} : Same(x)
      /\ link' = link /\ drain' = drain /\ unread' = unread /\ closing' = closing
      /\ handling' = handling /\ nextChannelId_' = nextChannelId_
  BY <1>1, <1>2 DEF Reuse, Open, Same, TypeOK
<1> HIDE DEF e
<1>6. EndInv(e)'
  BY <1>2, <1>4, <1>5 DEF EndInv, Idle
<1>7. ASSUME link[e] = "open" PROVE StreamsInv'
  <2>1. state_[e] = "CLOSED"
    BY <1>2, <1>4, <1>7 DEF EndInv, Idle
  <2>2. inbox' = Passed(e, "OPEN", session[e] + 1)
    BY <1>5, <1>7 DEF Sent
  <2>3. QED
    BY <1>2, <1>5, <1>6, <1>7, <2>1, <2>2, Opening
<1>8. ASSUME link[e] # "open" PROVE StreamsInv'
  <2>1. link[e] = "closed" /\ inbox' = inbox
    BY <1>2, <1>4, <1>5, <1>8 DEF EndInv, Idle, Sent, TypeOK
  <2>2. QED
    BY <1>2, <1>5, <1>6, <2>1, Quiet
<1>9. PoolInv'
  <2>1. ASSUME NEW i \in 1..Len(pool_')
        PROVE  i + 1 \in 1..Len(pool_) /\ pool_'[i] = pool_[i + 1] /\ pool_[i + 1] \in Chan
    BY <1>3, TailAt
  <2>2. ASSUME NEW i \in 1..Len(pool_'), NEW j \in 1..Len(pool_'), pool_'[i] = pool_'[j]
        PROVE  i = j
    <3>1. i + 1 = j + 1
      BY <2>1, <2>2 DEF PoolInv
    <3>2. QED
      BY <3>1
  <2>3. ASSUME NEW i \in 1..Len(pool_') PROVE Idle(Local(pool_[i]))'
    <3>1. PICK d \in Chan : d = pool_[i + 1] /\ d = pool_'[i] /\ Idle(Local(d))
      BY <2>1 DEF PoolInv
    <3>2. i + 1 # 1
      BY <2>3
    <3>3. d # c
      BY <1>3, <2>1, <3>1, <3>2 DEF PoolInv
    <3>4. Local(d) \in End /\ Local(d) # e
      BY <3>3, ChanEnds DEF Local, e
    <3>5. Same(Local(d))
      BY <1>5, <3>4
    <3>6. Idle(Local(d))'
      BY <3>1, <3>5 DEF Same, Idle
    <3>7. QED
      BY <3>1, <3>6
  <2>4. QED
    BY <2>2, <2>3 DEF PoolInv
<1>10. IdInv'
  BY <1>5, IdStep
<1>11. QED
  BY <1>7, <1>8, <1>9, <1>10 DEF Rest

-----------------------------------------------------------------------------
(* The inductive invariant holds. *)
THEOREM Invariance == Spec => []IndInv
<1>1. Init => IndInv
  <2> SUFFICES ASSUME Init PROVE IndInv
    OBVIOUS
  <2>1. TypeOK
    BY DataPoolAssumption DEF Init, TypeOK
  <2>2. ASSUME NEW e \in End PROVE StreamInv(e) /\ FlowInv(e) /\ EndInv(e)
    <3>1. Peer(e) \in End
      BY Ends
    <3>2. /\ inbox[e] = <<>> /\ link[e] = "none" /\ state_[e] = "none" /\ session[e] = 0
          /\ state_[Peer(e)] = "none" /\ session[Peer(e)] = 0
          /\ ~handling[e] /\ unread[e] = <<>> /\ drain[e] = "no" /\ ~closing[e]
      BY <3>1 DEF Init
    <3>3. PhaseSeen(e) = 0 /\ PhaseSent(Peer(e)) = 0
      BY <3>2 DEF PhaseSeen, PhaseSent, GotClose, SentClose
    <3>4. StreamInv(e)
      BY <3>2 DEF StreamInv, Leads
    <3>5. FlowInv(e)
      BY <3>2, <3>3 DEF FlowInv, LeadsTo
    <3>6. EndInv(e)
      BY <3>2 DEF EndInv
    <3>7. QED
      BY <3>4, <3>5, <3>6
  <2>3. PoolInv
    BY DEF Init, PoolInv
  <2>4. IdInv
    <3>1. InUse = {}
      BY ChanEnds DEF Init, InUse
    <3>2. QED
      BY <3>1, FS_EmptySet DEF Init, IdInv
  <2>5. QED
    BY <2>1, <2>2, <2>3, <2>4 DEF IndInv
<1>2. IndInv /\ [Next]_vars => IndInv'
  <2> SUFFICES ASSUME IndInv, [Next]_vars PROVE IndInv'
    OBVIOUS
  <2>1. TypeOK'
    BY TypeStep
  <2>2. ASSUME UNCHANGED vars PROVE Rest'
    BY <2>2, IdStep DEF IndInv, vars, Rest, StreamsInv, StreamInv, FlowInv, EndInv, PoolInv,
       PhaseSeen, PhaseSent, GotClose, SentClose, Idle
  <2>3. Rest'
    BY <2>2, OpenNewStep, OpenNewFailsStep, NewOpenedStep, PeerOpenedStep, ReuseStep,
       SendStep, CloseStep, SendAckStep, ReceiveDataStep, ReceiveOpenStep, ReceiveCloseStep,
       HandleDataStep, AckSentStep, OnClosedStep, LinkClosedStep
       DEF Next, EndStep
  <2>4. QED
    BY <2>1, <2>3 DEF IndInv, Rest, StreamsInv
<1>3. QED
  BY <1>1, <1>2, PTL DEF Spec
(* Every variable keeps its type. *)
THEOREM TypeCorrect == Spec => []TypeOK
BY Invariance, PTL DEF IndInv

(* No end meets an OPEN or a CLOSE out of turn: the handling of messages    *)
(* stops with a CLOSE and starts again with the reset, whatever the order   *)
(* in which the two ends open, close and drain.                             *)
THEOREM ControlInTurn == Spec => []ControlInOrder
<1>1. IndInv => ControlInOrder
  <2> SUFFICES ASSUME IndInv, NEW e \in End, handling[e], inbox[e] # <<>>
               PROVE  CASE Head(inbox[e]).type = "OPEN"  -> state_[e] = "CLOSED"
                        [] Head(inbox[e]).type = "CLOSE" -> state_[e] \in {"OPEN", "CLOSING"}
                        [] OTHER                         -> state_[e] \in {"OPEN", "CLOSING"}
    BY DEF ControlInOrder
  <2>1. TypeOK /\ StreamsInv
    BY DEF IndInv, StreamsInv
  <2>2. QED
    BY <2>1, NextMessage
<1>2. QED
  BY <1>1, Invariance, PTL

(* What a user of a reused channel is given was sent in the same session.   *)
THEOREM SessionsApart == Spec => []NoCrossTalk
<1>1. IndInv => NoCrossTalk
  <2> SUFFICES ASSUME IndInv, NEW e \in End
               PROVE  /\ \A i \in 1..Len(unread[e]) : unread[e][i] = session[e]
                      /\ handling[e] /\ inbox[e] # <<>> =>
                           Head(inbox[e]).session =
                             session[e] + (IF Head(inbox[e]).type = "OPEN" THEN 1 ELSE 0)
    BY DEF NoCrossTalk
  <2>1. TypeOK /\ StreamsInv /\ session[e] \in Nat
    BY DEF IndInv, StreamsInv, TypeOK
  <2>2. \A i \in 1..Len(unread[e]) : unread[e][i] = session[e]
    BY <2>1 DEF StreamsInv, EndInv
  <2>3. QED
    BY <2>1, <2>2, NextMessage
<1>2. QED
  BY <1>1, Invariance, PTL

(* A channel in the pool is there once and nobody uses it. *)
THEOREM PoolFree == Spec => []PoolIsFree
<1>1. IndInv => PoolIsFree
  BY DEF IndInv, PoolInv, Idle, PoolIsFree
<1>2. QED
  BY <1>1, Invariance, PTL

(* The ends of a channel are never more than one session apart, and a       *)
(* channel the local end has back is one the remote end has closed.         *)
THEOREM EndsTogether == Spec => []EndsAgree
<1>1. IndInv => EndsAgree
  <2> SUFFICES ASSUME IndInv, NEW c \in Chan, Alive(c)
               PROVE  /\ session[Local(c)] - 1 <= session[Remote(c)]
                      /\ session[Remote(c)] <= session[Local(c)]
                      /\ state_[Local(c)] = "CLOSED" => session[Remote(c)] = session[Local(c)]
                                                        /\ state_[Remote(c)] # "OPEN"
    BY DEF EndsAgree
  <2> DEFINE l == Local(c)
             r == Remote(c)
  <2>1. /\ l \in End /\ r \in End /\ Peer(l) = r /\ Peer(r) = l /\ r[1] = "remote"
        /\ link[l] # "closed" /\ link[r] # "closed"
    BY ChanEnds DEF Alive
  <2> HIDE DEF l, r
  <2>2. /\ TypeOK /\ session[l] \in Nat /\ session[r] \in Nat
        /\ inbox[l] \in Seq(Message) /\ inbox[r] \in Seq(Message)
    BY <2>1 DEF IndInv, TypeOK
  <2>3. /\ Leads(inbox[l], PhaseSeen(l)) /\ Leads(inbox[r], PhaseSeen(r))
        /\ FlowInv(l) /\ FlowInv(r)
    BY <2>1 DEF IndInv, StreamInv
  <2>4. /\ PhaseSeen(l) <= LeadsTo(inbox[l], PhaseSeen(l))
        /\ PhaseSeen(r) <= LeadsTo(inbox[r], PhaseSeen(r))
    BY <2>1, <2>2, <2>3, LeadsUp, Phases
  <2>5. /\ PhaseSeen(r) <= PhaseSent(l)
        /\ PhaseSeen(l) <= PhaseSent(r) \/ (PhaseSeen(l) = PhaseSent(r) + 1 /\ ~GotClose(l))
    BY <2>1, <2>3, <2>4 DEF FlowInv
  <2>6. /\ PhaseSeen(l) \in {2 * session[l], 2 * session[l] - 1}
        /\ PhaseSeen(r) \in {2 * session[r], 2 * session[r] - 1}
        /\ PhaseSent(l) \in {2 * session[l], 2 * session[l] - 1}
        /\ PhaseSent(r) \in {2 * session[r], 2 * session[r] - 1}
    BY <2>1, <2>2, Phases
  <2>7. session[l] - 1 <= session[r] /\ session[r] <= session[l]
    BY <2>2, <2>5, <2>6
  <2>8. ASSUME state_[l] = "CLOSED" PROVE session[r] = session[l] /\ state_[r] # "OPEN"
    <3>1. GotClose(l) /\ PhaseSeen(l) = 2 * session[l]
      BY <2>8 DEF GotClose, PhaseSeen
    <3>2. PhaseSent(r) = 2 * session[r] /\ session[r] = session[l]
      BY <2>2, <2>5, <2>6, <2>7, <3>1
    <3>3. SentClose(r)
      BY <2>2, <3>2, Parity DEF PhaseSent
    <3>4. QED
      BY <3>2, <3>3 DEF SentClose
  <2>9. QED
    BY <2>7, <2>8 DEF l, r
<1>2. QED
  BY <1>1, Invariance, PTL

(* The sessions of every channel stay in step and apart at both ends,       *)
(* however its users and its peer open, send, close and fail.               *)
THEOREM SessionsInStep == Spec => []SessionsKept
BY TypeCorrect, ControlInTurn, SessionsApart, EndsTogether, PTL DEF SessionsKept
(***************************************************************************)
(* Proofs about DataChannel, for any limit, any size of messages and any    *)
(* number of chunks waiting.                                                *)
(*                                                                          *)
(* Of the handler, the poll and a call of sendNext_ at most one is there,   *)
(* and one of them while the channel is open.  A handler was installed with *)
(* the browser's buffer below the limit, and nothing has been added to it   *)
(* since; so the next chunk takes it at most one above.  A close that has   *)
(* stopped waiting for the queue has found it without buffers, and no more  *)
(* are accepted.                                                            *)
(***************************************************************************)

(* What waits for the channel to go on. *)
OneGoesOn ==
  /\ sending => ~handler /\ poll = "no"
  /\ handler => poll = "no" /\ queue = <<>> /\ lastBrowserBufferedAmount_ <= Limit
  /\ isOpen_ => sending \/ handler \/ poll # "no"
  /\ poll # "no" => overflow_

(* Before the channel opens there is nothing that waits. *)
BeforeOpening ==
  rtc = "connecting" \/ opening =>
    ~isOpen_ /\ ~handler /\ ~sending /\ poll = "no"

NotConnecting == rtc = "connecting" => ~opening

BytesCounted == toPeerDataBytes_ = Wire!Buffers(queue)

ClosingWire ==
  /\ draining_ => chunking = 0
  /\ closer # "no" => draining_
  /\ closer \in {"asked", "timer", "drained"} => toPeerDataBytes_ = 0
  /\ closer = "drained" => Wire!Buffers(browser) = 0

WireInv ==
  Wire!TypeOK /\ OneGoesOn /\ BeforeOpening /\ NotConnecting /\ BytesCounted /\
  Wire!BrowserBounded /\ ClosingWire
-----------------------------------------------------------------------------
LEMMA SameNumber == \A S : Wire!Cardinality(S) = Cardinality(S)
BY Zenon DEF Wire!Cardinality, Cardinality

LEMMA BuffersOf == \A s : Wire!Buffers(s) = Cardinality({i \in DOMAIN s : s[i] = "buffer"})
BY SameNumber DEF Wire!Buffers

(* The number of buffers in a sequence of chunks, as the queue and the      *)
(* browser change it.                                                       *)
LEMMA NoBuffers == Wire!Buffers(<<>>) = 0
<1>1. {i \in DOMAIN <<>> : <<>>[i] = "buffer"} = {}
  OBVIOUS
<1> QED
  BY <1>1, FS_EmptySet, BuffersOf

LEMMA BuffersFinite ==
  ASSUME NEW s \in Seq(Wire!Chunk)
  PROVE  /\ IsFiniteSet({i \in DOMAIN s : s[i] = "buffer"})
         /\ Wire!Buffers(s) \in Nat
         /\ Wire!Buffers(s) <= Len(s)
<1> DEFINE B == {i \in DOMAIN s : s[i] = "buffer"}
<1>1. Len(s) \in Nat /\ DOMAIN s = 1..Len(s)
  OBVIOUS
<1>2. IsFiniteSet(1..Len(s)) /\ Cardinality(1..Len(s)) = Len(s)
  BY <1>1, FS_Interval
<1>3. B \in SUBSET (1..Len(s))
  BY <1>1
<1>4. IsFiniteSet(B) /\ Cardinality(B) <= Len(s)
  BY <1>2, <1>3, FS_Subset
<1>5. Cardinality(B) \in Nat
  BY <1>4, FS_CardinalityType
<1> QED
  BY <1>4, <1>5, BuffersOf

LEMMA BuffersAppend ==
  ASSUME NEW s \in Seq(Wire!Chunk), NEW c \in Wire!Chunk
  PROVE  Wire!Buffers(Append(s, c)) = Wire!Buffers(s) + (IF c = "buffer" THEN 1 ELSE 0)
<1> DEFINE B == {i \in DOMAIN s : s[i] = "buffer"}
           A == {i \in DOMAIN Append(s, c) : Append(s, c)[i] = "buffer"}
<1>1. IsFiniteSet(B) /\ Cardinality(B) \in Nat
  BY BuffersFinite, BuffersOf
<1>2. Len(s) + 1 \notin B
  OBVIOUS
<1>0. Wire!Buffers(s) = Cardinality(B) /\ Wire!Buffers(Append(s, c)) = Cardinality(A)
  BY BuffersOf
<1>3. CASE c = "buffer"
  <2>1. A = B \cup {Len(s) + 1}
    BY <1>3
  <2>2. Cardinality(A) = Cardinality(B) + 1
    BY <1>1, <1>2, <2>1, FS_AddElement
  <2> QED
    BY <2>2, <1>3, <1>0
<1>4. CASE c # "buffer"
  <2>1. A = B
    BY <1>4
  <2> HIDE DEF A, B
  <2> QED
    BY <2>1, <1>1, <1>4, <1>0
<1> QED
  BY <1>3, <1>4

LEMMA BuffersTail ==
  ASSUME NEW s \in Seq(Wire!Chunk), s # <<>>
  PROVE  /\ Wire!Buffers(Tail(s)) = Wire!Buffers(s) - (IF Head(s) = "buffer" THEN 1 ELSE 0)
         /\ Head(s) = "buffer" => Wire!Buffers(s) > 0
<1> DEFINE B == {i \in DOMAIN s : s[i] = "buffer"}
           T == {i \in DOMAIN Tail(s) : Tail(s)[i] = "buffer"}
           f == [i \in B \ {1} |-> i - 1]
<1>1. IsFiniteSet(B) /\ Cardinality(B) \in Nat
  BY BuffersFinite, BuffersOf
<1>2. /\ Len(s) \in Nat \ {0} /\ DOMAIN s = 1..Len(s)
      /\ DOMAIN Tail(s) = 1..(Len(s) - 1)
      /\ \A i \in 1..(Len(s) - 1) : Tail(s)[i] = s[i + 1]
      /\ Head(s) = s[1]
  OBVIOUS
<1>3. IsFiniteSet(B \ {1})
      /\ Cardinality(B \ {1}) = IF 1 \in B THEN Cardinality(B) - 1 ELSE Cardinality(B)
  BY <1>1, FS_RemoveElement
<1>4. ExistsBijection(B \ {1}, T)
  <2>1. f \in [B \ {1} -> T]
    BY <1>2
  <2>2. \A i, j \in B \ {1} : f[i] = f[j] => i = j
    BY <1>2
  <2>3. \A t \in T : \E i \in B \ {1} : f[i] = t
    <3> SUFFICES ASSUME NEW t \in T PROVE \E i \in B \ {1} : f[i] = t
      OBVIOUS
    <3>1. t + 1 \in B \ {1} /\ f[t + 1] = t
      BY <1>2
    <3> QED
      BY <3>1
  <2> HIDE DEF B, T
  <2>4. f \in Injection(B \ {1}, T)
    <3>1. DOMAIN f = B \ {1}
      OBVIOUS
    <3> HIDE DEF f
    <3> QED
      BY <2>1, <2>2, <3>1 DEF Injection, IsInjective
  <2>5. f \in Surjection(B \ {1}, T)
    <3> HIDE DEF f
    <3> QED
      BY <2>1, <2>3 DEF Surjection
  <2> QED
    BY <2>4, <2>5 DEF ExistsBijection, Bijection
<1>5. Cardinality(T) = Cardinality(B \ {1})
  BY <1>3, <1>4, FS_Bijection
<1>6. 1 \in B <=> Head(s) = "buffer"
  BY <1>2
<1>7. 1 \in B => Cardinality(B) > 0
  BY <1>1, FS_EmptySet
<1>8. Wire!Buffers(s) = Cardinality(B) /\ Wire!Buffers(Tail(s)) = Cardinality(T)
  BY BuffersOf
<1> HIDE DEF B, T
<1> QED
  BY <1>1, <1>3, <1>5, <1>6, <1>7, <1>8
-----------------------------------------------------------------------------
(* What the browser had buffered when it was asked is a number. *)
LEMMA AskedTyped ==
  ASSUME Wire!TypeOK
  PROVE  /\ Len(browser) \in Nat
         /\ asked["poll"] \in Nat /\ asked["closer"] \in Nat
         /\ [asked EXCEPT !["poll"] = Len(browser)] \in [{"poll", "closer"} -> Nat]
         /\ [asked EXCEPT !["closer"] = Len(browser)] \in [{"poll", "closer"} -> Nat]
         /\ Wire!Buffers(browser) \in Nat /\ Wire!Buffers(browser) <= Len(browser)
<1>1. browser \in Seq(Wire!Chunk) /\ asked \in [{"poll", "closer"} -> Nat]
  BY DEF Wire!TypeOK
<1>2. Len(browser) \in Nat
  BY <1>1
<1> QED
  BY <1>1, <1>2, BuffersFinite

LEMMA WireInit == Wire!Init => WireInv
<1> SUFFICES ASSUME Wire!Init PROVE WireInv
  OBVIOUS
<1>1. Wire!Buffers(queue) = 0 /\ Wire!Buffers(browser) = 0
  BY NoBuffers DEF Wire!Init
<1>2. Wire!TypeOK
  <2>1. 0 \in 0..MaxChunks
    BY ChannelAssumption
  <2>2. browser \in Seq(Wire!Chunk) /\ queue \in Seq(Wire!Chunk)
    BY DEF Wire!Init
  <2>3. asked \in [{"poll", "closer"} -> Nat]
    BY DEF Wire!Init
  <2> QED
    BY <2>1, <2>2, <2>3 DEF Wire!Init, Wire!TypeOK
<1>3. OneGoesOn /\ BeforeOpening /\ NotConnecting
  BY ChannelAssumption DEF Wire!Init, OneGoesOn, BeforeOpening, NotConnecting
<1>4. BytesCounted /\ Wire!BrowserBounded /\ ClosingWire
  BY <1>1, ChannelAssumption DEF Wire!Init, BytesCounted, Wire!BrowserBounded, ClosingWire
<1> QED
  BY <1>2, <1>3, <1>4 DEF WireInv

(* What Pass does to the browser's buffer, when it is below the limit.      *)
LEMMA PassBounded ==
  ASSUME Wire!TypeOK, Wire!BrowserBounded, lastBrowserBufferedAmount_ <= Limit,
         NEW c \in Wire!Chunk, Wire!Pass(c)
  PROVE  /\ browser' \in Seq(Wire!Chunk) /\ lastBrowserBufferedAmount_' \in Nat
         /\ Wire!BrowserBounded'
         /\ c # "buffer" => Wire!Buffers(browser') = Wire!Buffers(browser)
<1>1. Wire!Buffers(Append(browser, c)) = Wire!Buffers(browser) + (IF c = "buffer" THEN 1 ELSE 0)
  BY BuffersAppend DEF Wire!TypeOK
<1>2. Wire!Buffers(browser) \in Nat
  BY BuffersFinite DEF Wire!TypeOK
<1>3. Append(browser, c) \in Seq(Wire!Chunk)
  BY DEF Wire!TypeOK
<1> QED
  BY <1>1, <1>2, <1>3, ChannelAssumption DEF Wire!Pass, Wire!BrowserBounded, Wire!TypeOK

(* A chunk is handled or waits.                                             *)
LEMMA PutSafe ==
  ASSUME WireInv, NEW c \in Wire!Chunk, Wire!Put(c), ~sending, ~draining_,
         chunking' \in 0..MaxChunks,
         UNCHANGED <<rtc, opening, isOpen_, overflow_, poll, draining_, closer, asked>>
  PROVE  WireInv'
<1> USE DEF WireInv
<1>1. CASE handler
  <2>1. Wire!Pass(c) /\ handler' = FALSE /\ UNCHANGED <<queue, toPeerDataBytes_>>
    BY <1>1 DEF Wire!Put
  <2>2. browser' \in Seq(Wire!Chunk) /\ lastBrowserBufferedAmount_' \in Nat /\ Wire!BrowserBounded'
    BY <1>1, <2>1, PassBounded DEF OneGoesOn
  <2>3. sending' = TRUE
    BY <2>1 DEF Wire!Pass
  <2>4. Wire!TypeOK'
    BY <2>1, <2>2, <2>3 DEF Wire!TypeOK
  <2>5. OneGoesOn' /\ BeforeOpening' /\ NotConnecting'
    BY <1>1, <2>1, <2>3 DEF OneGoesOn, BeforeOpening, NotConnecting
  <2>6. BytesCounted' /\ ClosingWire'
    BY <2>1 DEF BytesCounted, ClosingWire
  <2> QED
    BY <2>2, <2>4, <2>5, <2>6
<1>2. CASE ~handler
  <2>1. /\ queue' = Append(queue, c)
        /\ toPeerDataBytes_' = toPeerDataBytes_ + (IF c = "buffer" THEN 1 ELSE 0)
        /\ UNCHANGED <<browser, lastBrowserBufferedAmount_, sending, handler>>
    BY <1>2 DEF Wire!Put
  <2>2. Wire!Buffers(queue') = Wire!Buffers(queue) + (IF c = "buffer" THEN 1 ELSE 0)
    BY <2>1, BuffersAppend DEF Wire!TypeOK
  <2>3. Wire!TypeOK'
    BY <2>1 DEF Wire!TypeOK
  <2>4. OneGoesOn' /\ BeforeOpening' /\ NotConnecting'
    BY <1>2, <2>1 DEF OneGoesOn, BeforeOpening, NotConnecting
  <2>5. BytesCounted' /\ ClosingWire' /\ Wire!BrowserBounded'
    BY <2>1, <2>2 DEF BytesCounted, ClosingWire, Wire!BrowserBounded
  <2> QED
    BY <2>3, <2>4, <2>5
<1> QED
  BY <1>1, <1>2

LEMMA WireStep == WireInv /\ [Wire!Next]_(Wire!vars) => WireInv'
<1> SUFFICES ASSUME WireInv, [Wire!Next]_(Wire!vars) PROVE WireInv'
  OBVIOUS
<1> USE DEF WireInv
<1>1. CASE Wire!Opened
  <2>1. Wire!TypeOK'
    BY <1>1 DEF Wire!Opened, Wire!TypeOK
  <2>2. OneGoesOn' /\ BeforeOpening' /\ NotConnecting'
    BY <1>1 DEF Wire!Opened, Wire!Free, OneGoesOn, BeforeOpening, NotConnecting
  <2>3. BytesCounted' /\ Wire!BrowserBounded' /\ ClosingWire'
    BY <1>1 DEF Wire!Opened, BytesCounted, Wire!BrowserBounded, ClosingWire
  <2> QED
    BY <2>1, <2>2, <2>3
<1>2. CASE Wire!NextChunk
  <2>1. ~sending /\ ~draining_ /\ chunking' \in 0..MaxChunks
    BY <1>2, ChannelAssumption DEF Wire!NextChunk, ClosingWire, Wire!TypeOK
  <2> QED
    BY <1>2, <2>1, PutSafe DEF Wire!NextChunk, Wire!Chunk
<1>3. CASE Wire!StartPolling
  <2>1. Wire!TypeOK'
    BY <1>3, AskedTyped DEF Wire!StartPolling, Wire!TypeOK
  <2>2. OneGoesOn' /\ BeforeOpening' /\ NotConnecting'
    BY <1>3 DEF Wire!StartPolling, OneGoesOn, BeforeOpening, NotConnecting
  <2>3. BytesCounted' /\ Wire!BrowserBounded' /\ ClosingWire'
    BY <1>3 DEF Wire!StartPolling, BytesCounted, Wire!BrowserBounded, ClosingWire
  <2> QED
    BY <2>1, <2>2, <2>3
<1>4. CASE Wire!InstallHandler
  <2>1. /\ sending /\ Wire!canSendMore_ /\ queue = <<>> /\ handler' = TRUE /\ sending' = FALSE
        /\ overflow_' = FALSE
        /\ \/ closer' = closer /\ asked' = asked
           \/ /\ closer = "overflow" /\ closer' = "asked"
              /\ asked' = [asked EXCEPT !["closer"] = Len(browser)]
        /\ UNCHANGED <<rtc, browser, opening, isOpen_, queue, chunking,
                       toPeerDataBytes_, lastBrowserBufferedAmount_, poll, draining_>>
    BY <1>4 DEF Wire!InstallHandler, Wire!setOverflow_
  <2>2. Wire!TypeOK'
    BY <2>1, AskedTyped DEF Wire!TypeOK
  <2>3. OneGoesOn' /\ BeforeOpening' /\ NotConnecting'
    BY <2>1 DEF Wire!canSendMore_, OneGoesOn, BeforeOpening, NotConnecting
  <2>4. toPeerDataBytes_ = 0
    BY <2>1, NoBuffers DEF BytesCounted
  <2>5. BytesCounted' /\ Wire!BrowserBounded' /\ ClosingWire'
    BY <2>1, <2>4 DEF BytesCounted, Wire!BrowserBounded, ClosingWire
  <2> QED
    BY <2>2, <2>3, <2>5
<1>5. CASE Wire!SendQueued
  <2> DEFINE c == Head(queue)
  <2>1. /\ queue # <<>> /\ sending /\ Wire!canSendMore_ /\ queue' = Tail(queue) /\ Wire!Pass(c)
        /\ toPeerDataBytes_' = toPeerDataBytes_ - (IF c = "buffer" THEN 1 ELSE 0)
        /\ UNCHANGED <<rtc, opening, isOpen_, handler, chunking, overflow_, poll,
                       draining_, closer, asked>>
    BY <1>5 DEF Wire!SendQueued
  <2>2. c \in Wire!Chunk /\ queue' \in Seq(Wire!Chunk)
    BY <2>1 DEF Wire!TypeOK
  <2>3. /\ Wire!Buffers(queue') = Wire!Buffers(queue) - (IF c = "buffer" THEN 1 ELSE 0)
        /\ c = "buffer" => Wire!Buffers(queue) > 0
        /\ Wire!Buffers(queue) \in Nat /\ Wire!Buffers(queue') \in Nat
    BY <2>1, <2>2, BuffersTail, BuffersFinite DEF Wire!TypeOK
  <2> HIDE DEF c
  <2>4. /\ browser' \in Seq(Wire!Chunk) /\ lastBrowserBufferedAmount_' \in Nat
        /\ Wire!BrowserBounded'
        /\ c # "buffer" => Wire!Buffers(browser') = Wire!Buffers(browser)
    BY <2>1, <2>2, PassBounded DEF Wire!canSendMore_
  <2>5. sending' = TRUE
    BY <2>1 DEF Wire!Pass
  <2>6. BytesCounted' /\ toPeerDataBytes_' \in Nat
    BY <2>1, <2>3 DEF BytesCounted
  <2>7. Wire!TypeOK'
    BY <2>1, <2>2, <2>4, <2>5, <2>6 DEF Wire!TypeOK
  <2>8. OneGoesOn' /\ BeforeOpening' /\ NotConnecting'
    BY <2>1, <2>5 DEF OneGoesOn, BeforeOpening, NotConnecting
  <2>9. ClosingWire'
    <3>1. closer \in {"asked", "timer", "drained"} => c # "buffer"
      BY <2>3 DEF ClosingWire, BytesCounted
    <3> QED
      BY <2>1, <2>4, <3>1 DEF ClosingWire
  <2> QED
    BY <2>4, <2>6, <2>7, <2>8, <2>9
<1>6. CASE Wire!PollAnswered
  <2>1. PICK amount \in Len(browser)..asked["poll"] :
          /\ lastBrowserBufferedAmount_' = amount
          /\ IF isOpen_ /\ amount <= Limit
             THEN sending' = TRUE /\ poll' = "no"
             ELSE sending' = FALSE /\ poll' = IF isOpen_ THEN "timer" ELSE "no"
    BY <1>6 DEF Wire!PollAnswered
  <2>2. /\ Wire!Free /\ poll = "asked"
        /\ UNCHANGED <<rtc, browser, opening, isOpen_, queue, handler, chunking,
                       toPeerDataBytes_, overflow_, draining_, closer, asked>>
    BY <1>6 DEF Wire!PollAnswered
  <2>3. amount \in Nat /\ Wire!Buffers(browser) <= amount
    BY <2>1, AskedTyped
  <2>4. Wire!TypeOK'
    BY <2>1, <2>2, <2>3 DEF Wire!TypeOK
  <2>5. OneGoesOn' /\ BeforeOpening' /\ NotConnecting'
    BY <2>1, <2>2 DEF OneGoesOn, BeforeOpening, NotConnecting
  <2>6. BytesCounted' /\ Wire!BrowserBounded' /\ ClosingWire'
    BY <2>1, <2>2, <2>3 DEF BytesCounted, Wire!BrowserBounded, ClosingWire
  <2> QED
    BY <2>4, <2>5, <2>6
<1>7. CASE Wire!PollAgain
  <2>1. Wire!TypeOK'
    BY <1>7, AskedTyped DEF Wire!PollAgain, Wire!TypeOK
  <2>2. OneGoesOn' /\ BeforeOpening' /\ NotConnecting'
    BY <1>7 DEF Wire!PollAgain, OneGoesOn, BeforeOpening, NotConnecting
  <2>3. BytesCounted' /\ Wire!BrowserBounded' /\ ClosingWire'
    BY <1>7 DEF Wire!PollAgain, BytesCounted, Wire!BrowserBounded, ClosingWire
  <2> QED
    BY <2>1, <2>2, <2>3
<1>8. CASE Wire!DrainAnswered
  <2>1. PICK amount \in Len(browser)..asked["closer"] :
          closer' = IF amount = 0 THEN "drained" ELSE IF isOpen_ THEN "timer" ELSE "no"
    BY <1>8 DEF Wire!DrainAnswered
  <2>2. amount \in Nat /\ Wire!Buffers(browser) <= amount /\ Wire!Buffers(browser) \in Nat
    BY <2>1, AskedTyped
  <2>3. Wire!TypeOK'
    BY <1>8, <2>1 DEF Wire!DrainAnswered, Wire!TypeOK
  <2>4. OneGoesOn' /\ BeforeOpening' /\ NotConnecting'
    BY <1>8 DEF Wire!DrainAnswered, OneGoesOn, BeforeOpening, NotConnecting
  <2>5. BytesCounted' /\ Wire!BrowserBounded'
    BY <1>8 DEF Wire!DrainAnswered, BytesCounted, Wire!BrowserBounded
  <2>6. ClosingWire'
    BY <1>8, <2>1, <2>2 DEF Wire!DrainAnswered, ClosingWire
  <2> QED
    BY <2>3, <2>4, <2>5, <2>6
<1>9. CASE Wire!DrainAgain
  <2>1. Wire!TypeOK'
    BY <1>9, AskedTyped DEF Wire!DrainAgain, Wire!TypeOK
  <2>2. OneGoesOn' /\ BeforeOpening' /\ NotConnecting'
    BY <1>9 DEF Wire!DrainAgain, OneGoesOn, BeforeOpening, NotConnecting
  <2>3. BytesCounted' /\ Wire!BrowserBounded' /\ ClosingWire'
    BY <1>9 DEF Wire!DrainAgain, BytesCounted, Wire!BrowserBounded, ClosingWire
  <2> QED
    BY <2>1, <2>2, <2>3
<1>10. CASE Wire!Drained
  <2>1. Wire!TypeOK'
    BY <1>10 DEF Wire!Drained, Wire!TypeOK
  <2>2. OneGoesOn' /\ BeforeOpening' /\ NotConnecting'
    BY <1>10 DEF Wire!Drained, OneGoesOn, BeforeOpening, NotConnecting
  <2>3. BytesCounted' /\ Wire!BrowserBounded' /\ ClosingWire'
    BY <1>10 DEF Wire!Drained, BytesCounted, Wire!BrowserBounded, ClosingWire
  <2> QED
    BY <2>1, <2>2, <2>3
<1>11. CASE Wire!Closed
  <2>1. Wire!TypeOK'
    BY <1>11 DEF Wire!Closed, Wire!TypeOK
  <2>2. OneGoesOn' /\ BeforeOpening' /\ NotConnecting'
    BY <1>11 DEF Wire!Closed, OneGoesOn, BeforeOpening, NotConnecting
  <2>3. BytesCounted' /\ Wire!BrowserBounded' /\ ClosingWire'
    BY <1>11 DEF Wire!Closed, BytesCounted, Wire!BrowserBounded, ClosingWire
  <2> QED
    BY <2>1, <2>2, <2>3
<1>12. ASSUME NEW kind \in Kind, NEW n \in 1..MaxChunks, Wire!Send(kind, n) PROVE WireInv'
  <2>1. ~sending /\ ~draining_ /\ chunking' \in 0..MaxChunks
    BY <1>12, ChannelAssumption DEF Wire!Send, Wire!Free
  <2>2. kind \in Wire!Chunk
    BY ChannelAssumption DEF Wire!Chunk
  <2> QED
    BY <1>12, <2>1, <2>2, PutSafe DEF Wire!Send
<1>13. CASE Wire!Close
  <2>1. /\ Wire!Free /\ draining_' = TRUE
        /\ \/ /\ closer' = "overflow" /\ toPeerDataBytes_ > 0 /\ asked' = asked
           \/ /\ closer' = closer /\ draining_ /\ asked' = asked
           \/ /\ closer' = "asked" /\ ~(toPeerDataBytes_ > 0)
              /\ asked' = [asked EXCEPT !["closer"] = Len(browser)]
        /\ UNCHANGED <<rtc, browser, opening, isOpen_, queue, handler, sending, chunking,
                       toPeerDataBytes_, lastBrowserBufferedAmount_, overflow_, poll>>
    BY <1>13 DEF Wire!Close
  <2>2. Wire!TypeOK'
    BY <2>1, AskedTyped DEF Wire!TypeOK
  <2>3. OneGoesOn' /\ BeforeOpening' /\ NotConnecting'
    BY <2>1 DEF OneGoesOn, BeforeOpening, NotConnecting
  <2>4. BytesCounted' /\ Wire!BrowserBounded'
    BY <2>1 DEF BytesCounted, Wire!BrowserBounded
  <2>5. ClosingWire'
    BY <2>1 DEF ClosingWire, Wire!Free, Wire!TypeOK
  <2> QED
    BY <2>2, <2>3, <2>4, <2>5
<1>14. CASE Wire!RtcOpens
  <2>1. Wire!TypeOK'
    BY <1>14 DEF Wire!RtcOpens, Wire!TypeOK
  <2>2. OneGoesOn' /\ BeforeOpening' /\ NotConnecting'
    BY <1>14 DEF Wire!RtcOpens, OneGoesOn, BeforeOpening, NotConnecting
  <2>3. BytesCounted' /\ Wire!BrowserBounded' /\ ClosingWire'
    BY <1>14 DEF Wire!RtcOpens, BytesCounted, Wire!BrowserBounded, ClosingWire
  <2> QED
    BY <2>1, <2>2, <2>3
<1>15. CASE Wire!RtcDelivers
  <2>1. Tail(browser) \in Seq(Wire!Chunk) /\ browser # <<>>
    BY <1>15 DEF Wire!RtcDelivers, Wire!TypeOK
  <2>2. Wire!Buffers(browser') <= Wire!Buffers(browser) /\ Wire!Buffers(browser') \in Nat
        /\ Wire!Buffers(browser) \in Nat
    <3>1. browser \in Seq(Wire!Chunk) /\ browser' = Tail(browser)
      BY <1>15 DEF Wire!RtcDelivers, Wire!TypeOK
    <3>2. Wire!Buffers(Tail(browser)) \in Nat /\ Wire!Buffers(browser) \in Nat
      BY <2>1, <3>1, BuffersFinite
    <3>3. Wire!Buffers(Tail(browser)) =
            Wire!Buffers(browser) - (IF Head(browser) = "buffer" THEN 1 ELSE 0)
      BY <2>1, <3>1, BuffersTail
    <3> QED
      BY <3>1, <3>2, <3>3
  <2>3. Wire!TypeOK'
    BY <1>15, <2>1 DEF Wire!RtcDelivers, Wire!TypeOK
  <2>4. OneGoesOn' /\ BeforeOpening' /\ NotConnecting'
    BY <1>15 DEF Wire!RtcDelivers, OneGoesOn, BeforeOpening, NotConnecting
  <2>5. BytesCounted' /\ Wire!BrowserBounded' /\ ClosingWire'
    BY <1>15, <2>2, ChannelAssumption
    DEF Wire!RtcDelivers, BytesCounted, Wire!BrowserBounded, ClosingWire, Wire!TypeOK
  <2> QED
    BY <2>3, <2>4, <2>5
<1>16. CASE Wire!RtcCloses \/ Wire!PeerCloses
  <2>1. Wire!TypeOK'
    BY <1>16 DEF Wire!RtcCloses, Wire!PeerCloses, Wire!RtcClosed, Wire!TypeOK
  <2>2. OneGoesOn' /\ BeforeOpening' /\ NotConnecting'
    BY <1>16 DEF Wire!RtcCloses, Wire!PeerCloses, Wire!RtcClosed, OneGoesOn, BeforeOpening,
       NotConnecting
  <2>3. BytesCounted' /\ Wire!BrowserBounded' /\ ClosingWire'
    BY <1>16 DEF Wire!RtcCloses, Wire!PeerCloses, Wire!RtcClosed, BytesCounted,
       Wire!BrowserBounded, ClosingWire
  <2> QED
    BY <2>1, <2>2, <2>3
<1>17. CASE UNCHANGED Wire!vars
  BY <1>17 DEF Wire!vars, Wire!TypeOK, OneGoesOn, BeforeOpening, NotConnecting, BytesCounted,
     Wire!BrowserBounded, ClosingWire
<1> QED
  BY <1>1, <1>2, <1>3, <1>4, <1>5, <1>6, <1>7, <1>8, <1>9, <1>10, <1>11, <1>12, <1>13, <1>14,
     <1>15, <1>16, <1>17 DEF Wire!Next, Wire!Internal
------------------------------------------------------------------------
-----------------------------------------------------------------------------
(* The sending goes on as DataChannel has it, whichever part is taken. *)
LEMMA WireSteps == MCSpec => Wire!Init /\ [][Wire!Next]_(Wire!vars)
<1>1. MCInit => Wire!Init
  BY DEF MCInit
<1>2. [MCNext]_allVars => [Wire!Next]_(Wire!vars)
  BY DEF MCNext, allVars, wire, Wire!vars
<1> QED
  BY <1>1, <1>2, PTL DEF MCSpec

(* The inductive invariant. *)
THEOREM WireInvariance == MCSpec => []WireInv
<1> QED
  BY WireInit, WireStep, WireSteps, PTL

(* Exactly one of handler and poll waits while the channel is open, what    *)
(* waits does so in overflow, and the browser has at most one chunk of      *)
(* buffers above the limit (datachannel.ts:314-346).                        *)
THEOREM Tended == MCSpec => []QueueTended
<1>1. WireInv => QueueTended
  <2> SUFFICES ASSUME WireInv PROVE QueueTended
    OBVIOUS
  <2>1. Wire!OneWaits
    BY DEF WireInv, OneGoesOn, Wire!OneWaits, Wire!Free
  <2>2. Wire!WaitsInOverflow
    BY DEF WireInv, OneGoesOn, Wire!WaitsInOverflow, Wire!Free
  <2> QED
    BY <2>1, <2>2 DEF WireInv, Wire!QueueTended, QueueTended
<1> QED
  BY <1>1, WireInvariance, PTL

(* No buffer is left behind by a close (datachannel.ts:347-384). *)
THEOREM ClosedAfterBuffers == MCSpec => BuffersSentFirst
<1>1. WireInv /\ [Wire!Next]_(Wire!vars) =>
        [rtc # "closing" /\ rtc' = "closing"
           => Wire!Buffers(queue) = 0 /\ Wire!Buffers(browser) = 0]_(Wire!vars)
  <2> SUFFICES ASSUME WireInv, Wire!Next, rtc # "closing", rtc' = "closing"
               PROVE  Wire!Buffers(queue) = 0 /\ Wire!Buffers(browser) = 0
    BY DEF Wire!vars
  <2>1. Wire!Drained
    BY DEF Wire!Next, Wire!Internal, Wire!Opened, Wire!NextChunk, Wire!StartPolling,
       Wire!InstallHandler, Wire!SendQueued, Wire!PollAnswered, Wire!PollAgain,
       Wire!DrainAnswered, Wire!DrainAgain, Wire!Closed, Wire!Send, Wire!Close,
       Wire!RtcOpens, Wire!RtcDelivers, Wire!RtcCloses, Wire!PeerCloses, Wire!RtcClosed
  <2> QED
    BY <2>1 DEF Wire!Drained, WireInv, ClosingWire, BytesCounted
<1> QED
  BY <1>1, WireInvariance, WireSteps, PTL DEF Wire!BuffersSentFirst, BuffersSentFirst
====
