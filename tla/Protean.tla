--------------------------------- MODULE Protean --------------------------------
(* Protean (lib/transformers/protean.ts) chains the shapers: the fragments of  *)
(* a packet are encrypted and decompressed one by one, and the last shaper,    *)
(* byteSequenceShaper.ts, puts made-up packets at given places of the stream.  *)
(* The receiver takes them out again, before a datagram network's losses and   *)
(* disorder reach the defragmenter.  Encryption and decompression map one      *)
(* buffer to one.                                                              *)
EXTENDS Naturals, FiniteSets, Sequences, Functions

CONSTANTS
  Packet,
  Models,        \* the sequence models: records of an index and an offset
  MaxFragments,  \* bound on the fragments of a packet
  MaxLosses      \* bound

VARIABLES
  fragments,     \* of each packet, how many
  sent,          \* packets sent
  output,        \* the stream: <<packet, fragment>> or <<"model", its number>>
  removeSequences_,
  arrived,       \* the places of the stream that reached the receiver
  passed,        \* and those that the receiver let through, in their order
  losses

vars == <<fragments, sent, output, removeSequences_, arrived, passed, losses>>

firstIndex_ == Models[1].index
lastIndex_ == Models[Len(Models)].index

TypeOK ==
  /\ fragments \in [Packet -> 1..MaxFragments] /\ sent \subseteq Packet
  /\ arrived \subseteq DOMAIN output /\ Range(passed) \subseteq arrived
  /\ Range(removeSequences_) \subseteq DOMAIN Models /\ losses \in 0..MaxLosses

Init ==
  /\ fragments \in [Packet -> 1..MaxFragments] /\ sent = {} /\ output = <<>>
  /\ removeSequences_ = [i \in DOMAIN Models |-> i] /\ arrived = {} /\ passed = <<>> /\ losses = 0

(* findNextPacket_: the first model of an index. *)
At(index) == {i \in DOMAIN Models : Models[i].index = index}
Made(index) == <<"model", CHOOSE i \in At(index) : \A j \in At(index) : i <= j>>

(* inject_: as long as a model names the next place.  outputIndex_ is the      *)
(* length of the stream until the last index is passed.                        *)
inject_(stream) ==
  LET Buffer == {"model"} \X (DOMAIN Models) \cup Packet \X (1..MaxFragments)
      injected[s \in Seq(Buffer)] ==
        IF At(Len(s)) = {} THEN s ELSE injected[Append(s, Made(Len(s)))]
  IN  injected[stream]

(* ByteSequenceShaper.transform: before and after a buffer, once the first     *)
(* index is reached and until the last is passed.                              *)
shape(stream, buffer) ==
  IF firstIndex_ <= Len(stream) /\ Len(stream) <= lastIndex_
  THEN inject_(Append(inject_(stream), buffer))
  ELSE Append(stream, buffer)

(* transform: flatMap hands every fragment of a packet to the last shaper. *)
transform(p) ==
  /\ p \notin sent /\ sent' = sent \cup {p}
  /\ LET shaped[k \in 0..fragments[p]] ==
           IF k = 0 THEN output ELSE shape(shaped[k - 1], <<p, k>>)
     IN  output' = shaped[fragments[p]]
  /\ UNCHANGED <<fragments, removeSequences_, arrived, passed, losses>>

IsModel(buffer) == buffer[1] = "model"

(* findMatchingPacket_ compares a model's sequence with the bytes from its     *)
(* offset to the sequence's LENGTH: past an offset they are too few to match.  *)
(* A real buffer does not begin with a sequence.                               *)
Matches(buffer, i) ==
  buffer = <<"model", removeSequences_[i]>> /\ Models[removeSequences_[i]].offset = 0

(* splice *)
Without(s, i) == SubSeq(s, 1, i - 1) \o SubSeq(s, i + 1, Len(s))

findMatchingPacket_(buffer) == {i \in DOMAIN removeSequences_ : Matches(buffer, i)}

(* restore: the buffers arrive in any order; a sequence is removed once. *)
restore(place) ==
  /\ place \in DOMAIN output \ arrived
  /\ arrived' = arrived \cup {place}
  /\ LET found == findMatchingPacket_(output[place])
     IN  IF found = {}
         THEN passed' = Append(passed, place) /\ UNCHANGED removeSequences_
         ELSE /\ removeSequences_' = Without(removeSequences_, CHOOSE i \in found : \A j \in found : i <= j)
              /\ UNCHANGED passed
  /\ UNCHANGED <<fragments, sent, output, losses>>

(* The network loses a buffer. *)
Lose(place) ==
  /\ losses < MaxLosses /\ place \in DOMAIN output \ arrived
  /\ arrived' = arrived \cup {place} /\ losses' = losses + 1
  /\ UNCHANGED <<fragments, sent, output, removeSequences_, passed>>

Next ==
  \/ \E p \in Packet : transform(p)
  \/ \E place \in DOMAIN output : restore(place) \/ Lose(place)

Spec == Init /\ [][Next]_vars

(* A model whose sequence begins the packet: the only one that can be matched. *)
IsRemoved(buffer) == IsModel(buffer) /\ Models[buffer[2]].offset = 0

(* "Remove injected packets." (byteSequenceShaper.ts:143): the receiver lets   *)
(* only fragments of packets through.  It lets a packet through whose model    *)
(* has an offset.                                                              *)
InjectedRemoved == \A k \in DOMAIN passed : ~IsModel(output[passed[k]])

(* What holds of it: in whatever order things arrive, the receiver lets no     *)
(* packet through whose model is without offset, and takes out nothing else.   *)
WholeRemoved ==
  /\ \A k \in DOMAIN passed : ~IsRemoved(output[passed[k]])
  /\ losses = 0 => \A place \in arrived : IsRemoved(output[place]) \/ place \in Range(passed)

(* The stream is the fragments, each once and in order, with the model of an   *)
(* index at that very place as soon as the stream is as long.                  *)
StreamsAgree ==
  /\ \A i \in DOMAIN Models :
       Models[i].index < Len(output) => output[Models[i].index + 1] = <<"model", i>>
  /\ LET real == {place \in DOMAIN output : ~IsModel(output[place])}
     IN  /\ {output[place] : place \in real} = UNION {{<<p, k>> : k \in 1..fragments[p]} : p \in sent}
         /\ \A i, j \in real : i < j /\ output[i][1] = output[j][1] => output[i][2] < output[j][2]

(* Both ends of the shaper. *)
ShapersAgree == StreamsAgree /\ WholeRemoved
=================================================================================
