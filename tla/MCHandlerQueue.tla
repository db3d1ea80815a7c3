--------------------------- MODULE MCHandlerQueue ---------------------------
(* A handler queue, the verification of two instances' keys (KeyVerify), or a  *)
(* codec, for TLC: part says which.  The variables of the others stay as they  *)
(* are at first.  The codecs share variables: what v1 stands for is said where *)
(* a codec is instantiated.                                                    *)
EXTENDS HandlerQueue, FiniteSets, TLC

CONSTANTS
  Peer, Sessions, MaxNet,                       \* KeyVerify
  NameLengths, Ports, Texts, Cuts,              \* SocksHeaders
  Packet,                                       \* Fragments, Protean
  Lengths, maxLength_, IdBytes, MaxSent,        \* Fragments
  Models, MaxFragments, MaxLosses,              \* Protean
  Client, Script, MaxChunk,                     \* Zork
  ByteBits, Frequencies, MaxLength,             \* Arithmetic
  a, b, a1, a2, b1, b2                          \* what these are made of

(* The two instances are not the same and have no session in common.           *)
Two ==
  /\ \E p, q \in Peer : p # q /\ Peer = {p, q}
  /\ \A p, q \in Peer : p # q => Sessions[p] \cap Sessions[q] = {}
  /\ None \notin UNION {Sessions[p] : p \in Peer}
ASSUME KeysAssumption == Two

VARIABLES
  part, session, current, verifyState, shown, resolver, clicked, net,
  v1, v2, v3, v4, v5, v6, v7, v8

Keys == INSTANCE KeyVerify
Code == INSTANCE Arithmetic WITH probs <- v1, packet <- v2
Socks == INSTANCE SocksHeaders WITH message <- v1, bytes <- v2, result <- v3
Cut == INSTANCE Fragments WITH length <- v1, sent <- v2, network <- v3, tracker_ <- v4,
  delivered <- v5
Shaper == INSTANCE Protean WITH fragments <- v1, sent <- v2, output <- v3, removeSequences_ <-
  v4, arrived <- v5, passed <- v6, losses <- v7
Lines == INSTANCE Zork WITH script <- v1, sent <- v2, leftover_ <- v3, mode <- v4, handled <-
  v5, open <- v6, proxy <- v7, numOfGetters <- v8

keys == <<session, current, verifyState, shown, resolver, clicked, net>>
codec == <<v1, v2, v3, v4, v5, v6, v7, v8>>
allVars == <<part, vars, keys, codec>>

(* What the codecs are made of.  Lengths and texts are counted in a byte and   *)
(* ports in two; a fragment has room for more than its header; the injected    *)
(* packets are each for a place of its own, the first place first, and no      *)
(* packet is one of them.                                                      *)
HeadersAssumption ==
  /\ NameLengths \subseteq 0..255 /\ Ports \subseteq {n \in Nat : n < 65536} /\ Texts \subseteq 0..255
  /\ Cuts \subseteq Nat
FragmentsAssumption ==
  Lengths \subseteq Nat /\ maxLength_ \in Nat /\ maxLength_ > 68 /\ MaxSent \in Nat
ProteanAssumption ==
  /\ "model" \notin Packet /\ MaxFragments \in Nat /\ MaxLosses \in Nat
  /\ Models \in Seq([index : Nat, offset : Nat]) /\ Models # <<>>
  /\ \A i, j \in DOMAIN Models : i < j => Models[i].index < Models[j].index
ZorkAssumption == Script \subseteq Seq(Lines!Word) /\ MaxChunk \in Nat

(* Frequencies that the coder takes as they are, powers of two and their sum,  *)
(* which is not more than a range is at least.                                 *)
ArithmeticAssumption ==
  /\ ByteBits \in 2..8 /\ MaxLength \in Nat
  /\ \A t \in Frequencies :
       /\ t \in Seq(Nat) /\ t # <<>> /\ Code!adjustProbs_(t) = t
       /\ \E n \in 0..Code!SHIFT_BITS : Code!Total(t) = Code!Two[n]
       /\ \A i \in DOMAIN t : \E n \in 0..Code!SHIFT_BITS : t[i] = Code!Two[n]
CodecsAssumption ==
  /\ HeadersAssumption /\ FragmentsAssumption /\ ProteanAssumption /\ ZorkAssumption
  /\ ArithmeticAssumption
ASSUME CodecsAssumed == CodecsAssumption

(* Values of constants for TLC.                                                *)
TwoEach == (a :> {a1, a2}) @@ (b :> {b1, b2})
Symmetry == Permutations(Event) \cup Permutations(Promise)

(* Frequencies of the symbols of an alphabet of at most four.                  *)
Tables == {<<1, 1, 1, 1>>, <<1, 2, 1>>, <<2, 1, 1>>, <<1, 1, 2>>}

(* The packets a shaper injects, each as a whole one: where and at which byte  *)
(* of the stream.                                                              *)
AtStart == <<[index |-> 0, offset |-> 0], [index |-> 2, offset |-> 1], [index |-> 3, offset |-> 0]>>

(* What clients of zork send, a word or an end of line at a time. *)
Scripts == {<<"ping", "nl", "give", "nl", "signal", "nl", "ping", "nl">>,
            <<"nl", "get", "nl", "signal", "nl", "give">>,
            <<"version", "nl", "quit", "nl", "ping", "nl">>}

(* The variables a codec does not have. *)
Idle8 == v8 = 0
Idle6 == v6 = 0 /\ v7 = 0 /\ Idle8
Idle4 == v4 = 0 /\ v5 = 0 /\ Idle6
Idle3 == v3 = 0 /\ Idle4
Idle1 == v1 = 0 /\ v2 = 0 /\ Idle3
Rest8 == <<v8>>
Rest6 == <<v6, v7, Rest8>>
Rest4 == <<v4, v5, Rest6>>
Rest3 == <<v3, Rest4>>

CodecInit ==
  \/ part = "arithmetic" /\ Code!Init /\ Idle3
  \/ part = "headers" /\ Socks!Init /\ Idle4
  \/ part = "fragments" /\ Cut!Init /\ Idle6
  \/ part = "protean" /\ Shaper!Init /\ Idle8
  \/ part = "zork" /\ Lines!Init

CodecNext ==
  \/ part = "arithmetic" /\ Code!Next /\ UNCHANGED Rest3
  \/ part = "headers" /\ Socks!Next /\ UNCHANGED Rest4
  \/ part = "fragments" /\ Cut!Next /\ UNCHANGED Rest6
  \/ part = "protean" /\ Shaper!Next /\ UNCHANGED Rest8
  \/ part = "zork" /\ Lines!Next

MCInit ==
  /\ Init /\ Keys!Init
  /\ (part \in {"queue", "keys"} /\ Idle1) \/ CodecInit

MCNext ==
  /\ \/ part = "queue" /\ Next /\ UNCHANGED <<keys, codec>>
     \/ part = "keys" /\ Keys!Next /\ UNCHANGED <<vars, codec>>
     \/ CodecNext /\ UNCHANGED <<vars, keys>>
  /\ UNCHANGED part

MCSpec == MCInit /\ [][MCNext]_allVars

(* A responder that ends with "verified" does so with both users' approval of  *)
(* the same string (key-verify.ts:563, 578).                                   *)
BothApproved == Keys!TypeOK /\ Keys!BothApproved

(* SocksHeaders, Fragments, Protean, Arithmetic, Zork: what is written is read *)
(* as it was meant, once, or refused, whole or cut, lost or doubled            *)
(* (headers.ts, fragmentationShaper.ts, protean.ts, byteSequenceShaper.ts,     *)
(* arithmetic.ts, linefeeder.ts).  Fragments are as makeFragments_ and the     *)
(* defragmenter have them: between the two they are refused (Fragments).       *)
CodecsAgree ==
  /\ part = "headers" => Socks!HeadersAgree
  /\ part = "fragments" => Cut!TypeOK /\ Cut!PacketsWhole
  /\ part = "protean" => Shaper!TypeOK /\ Shaper!ShapersAgree
  /\ part = "arithmetic" => Code!Restores /\ Code!EncodesLowEnd
  /\ part = "zork" => Lines!TypeOK /\ Lines!LinesInTurn
=============================================================================
