-------------------------------- MODULE Fragments -------------------------------
(* Packets cut into fragments of a bounded size and put together again         *)
(* (lib/transformers/fragment.ts, fragmentationShaper.ts, defragmenter.ts),    *)
(* over a network that loses, doubles and reorders.  A byte is the field it    *)
(* belongs to and its place in it; sizes are those of the code.  With the ids  *)
(* the code makes, of 4 bytes, no fragment can be decoded, so that restore     *)
(* never comes to the defragmenter; what the defragmenter does is checked at   *)
(* its own interface, with the fragments that makeFragments_ made.             *)
EXTENDS Naturals, FiniteSets, Sequences

CONSTANTS
  Packet,
  Lengths,     \* of the packets
  maxLength_,  \* of FragmentationConfig
  IdBytes,     \* the bytes makeRandomId returns
  MaxSent      \* bound: packets sent

VARIABLES
  length,      \* of each packet
  sent,        \* the packets sent
  network,     \* the fragments under way
  tracker_,    \* of each packet, the indexes had and how many are missing
  delivered    \* the sets of indexes packets were put together from

vars == <<length, sent, network, tracker_, delivered>>

HEADER_SIZE == 2 + 32 + 1 + 1
IV_SIZE == 16
CHUNK_SIZE == 16

Fill(n) == CHUNK_SIZE - ((n + HEADER_SIZE + IV_SIZE) % CHUNK_SIZE)

(* makeFragments_: the lengths of the payloads.  What does not fit is cut      *)
(* where a full packet would end, and both parts are treated likewise.         *)
makeFragments_[n \in Nat] ==
  IF n + HEADER_SIZE + IV_SIZE + Fill(n) <= maxLength_ THEN <<n>>
  ELSE LET first == maxLength_ - (HEADER_SIZE + IV_SIZE + Fill(n))
       IN  makeFragments_[first] \o makeFragments_[n - first]

Pieces(p) == makeFragments_[length[p]]
Count(p) == Len(Pieces(p))

(* The bytes of all payloads. *)
Bytes(lengths) ==
  LET until[k \in 0..Len(lengths)] == IF k = 0 THEN 0 ELSE until[k - 1] + lengths[k]
  IN  until[Len(lengths)]

Field(name, n) == [k \in 1..n |-> <<name, k>>]

(* encode: a payload of n bytes, padded. *)
encode(n) ==
  Field("length", 2) \o Field("id", IdBytes) \o Field("index", 1) \o Field("count", 1)
    \o Field("payload", n) \o Field("padding", Fill(n))

(* decode, of a buffer whose length field says n; <<>> is the exception. *)
decode(buffer, n) ==
  IF Len(buffer) < HEADER_SIZE THEN <<>>
  ELSE LET rest == SubSeq(buffer, HEADER_SIZE + 1, Len(buffer))
       IN  IF Len(rest) > n
           THEN <<SubSeq(buffer, 3, 34), buffer[35], buffer[36], SubSeq(rest, 1, n)>>
           ELSE IF Len(buffer) = n
           THEN <<SubSeq(buffer, 3, 34), buffer[35], buffer[36], rest>>
           ELSE <<>>

Intact(n) == <<Field("id", 32), <<"index", 1>>, <<"count", 1>>, Field("payload", n)>>

TypeOK ==
  /\ length \in [Packet -> Lengths] /\ sent \subseteq Packet
  /\ \A f \in network : f[1] \in Packet /\ f[2] \in 1..Count(f[1])
  /\ \A p \in Packet : tracker_[p].pieces \subseteq 1..Count(p) /\ tracker_[p].counter \in 0..Count(p)
  /\ \A d \in delivered : d[1] \in Packet /\ d[2] \subseteq 1..Count(d[1])

Untracked == [pieces |-> {}, counter |-> 0]

Init ==
  /\ length \in [Packet -> Lengths]
  /\ sent = {} /\ network = {} /\ delivered = {}
  /\ tracker_ = [p \in Packet |-> Untracked]

(* transform *)
Transform(p) ==
  /\ p \notin sent /\ Cardinality(sent) < MaxSent
  /\ sent' = sent \cup {p}
  /\ network' = network \cup {<<p, k>> : k \in 1..Count(p)}
  /\ UNCHANGED <<length, tracker_, delivered>>

(* addFragment: the first of an id opens a tracker, an index that is there is  *)
(* a duplicate, and the last one closes it.                                    *)
addFragment(p, k) ==
  LET t == tracker_[p]
      pieces == t.pieces \cup {k}
      counter == IF t = Untracked THEN Count(p) - 1 ELSE IF k \in t.pieces THEN t.counter
                 ELSE t.counter - 1
  IN  IF counter = 0
      THEN tracker_' = [tracker_ EXCEPT ![p] = Untracked] /\ delivered' = delivered \cup {<<p, pieces>>}
      ELSE /\ tracker_' = [tracker_ EXCEPT ![p] = [pieces |-> pieces, counter |-> counter]]
           /\ UNCHANGED delivered

(* restore: a fragment that cannot be decoded is dropped by the pipe; the      *)
(* network may have kept another copy.                                         *)
restore(p, k) ==
  /\ <<p, k>> \in network
  /\ network' \in {network, network \ {<<p, k>>}}
  /\ IF decode(encode(Pieces(p)[k]), Pieces(p)[k]) = <<>>
     THEN UNCHANGED <<tracker_, delivered>>
     ELSE addFragment(p, k)
  /\ UNCHANGED <<length, sent>>

(* The defragmenter by itself, handed a fragment that was not encoded. *)
Received(p, k) ==
  /\ <<p, k>> \in network
  /\ network' \in {network, network \ {<<p, k>>}}
  /\ addFragment(p, k)
  /\ UNCHANGED <<length, sent>>

Lose(p, k) ==
  /\ <<p, k>> \in network /\ network' = network \ {<<p, k>>}
  /\ UNCHANGED <<length, sent, tracker_, delivered>>

(* reap_: after a minute, what is incomplete is given up. *)
reap_(p) ==
  /\ tracker_[p] # Untracked
  /\ tracker_' = [tracker_ EXCEPT ![p] = Untracked]
  /\ UNCHANGED <<length, sent, network, delivered>>

Next ==
  \E p \in Packet :
    \/ Transform(p) \/ reap_(p)
    \/ \E k \in 1..Count(p) : restore(p, k) \/ Received(p, k) \/ Lose(p, k)

Spec == Init /\ [][Next]_vars

(* Packets come through the two ends: every length is cut into fragments that *)
(* hold all of it and fit into a packet with the header the code counts on,    *)
(* and the defragmenter hands a packet on only when every one of its fragments *)
(* is there, whatever was lost, doubled, late or given up                      *)
(* (fragmentationShaper.ts:69-129, defragmenter.ts:45-147).  That a fragment   *)
(* comes from the one end to the other is DecodesWhatItEncodes, which fails.   *)
PacketsWhole ==
  /\ \A p \in Packet :
       /\ Bytes(Pieces(p)) = length[p]
       /\ \A k \in 1..Count(p) : HEADER_SIZE + Pieces(p)[k] + Fill(Pieces(p)[k]) <= maxLength_
  /\ \A d \in delivered : d[2] = 1..Count(d[1])

(* "Make a random 32-byte identifier for the packet fragment."                 *)
(* (fragment.ts:20), which decode reads (fragment.ts:37): a fragment is decoded *)
(* as it was encoded.  makeRandomId returns 4 bytes, and decode throws.        *)
DecodesWhatItEncodes ==
  \A f \in network :
    LET n == Pieces(f[1])[f[2]] IN decode(encode(n), n) = Intact(n)
==================================================================================
