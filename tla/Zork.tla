--------------------------------- MODULE Zork ----------------------------------
(* The command port of lib/zork: a connection is read in chunks, cut into      *)
(* lines by a LineFeeder (lib/net/linefeeder.ts), and its lines are commands   *)
(* until "get" or "give", then signals for a SocksToRtc or RtcToNet.  A line   *)
(* is here a sequence of words, and "nl" its end.                              *)
EXTENDS Integers, Sequences, FiniteSets

CONSTANTS
  Client,
  Script,       \* what clients send: sequences of words and "nl"
  MaxChunk      \* bound on the words of a chunk

VARIABLES
  script,       \* of a client
  sent,         \* how much of it has arrived
  leftover_,    \* of its LineFeeder
  mode,         \* command, signal, or quit: the lines of a quit are only queued
  handled,      \* the lines handled, each with the mode it was handled in
  open,         \* the connection
  proxy,        \* none, get or give starting, ready, and stopped
  numOfGetters

vars == <<script, sent, leftover_, mode, handled, open, proxy, numOfGetters>>

Word == {"ping", "version", "getters", "get", "give", "quit", "signal", "nl"}
Proxy == {"none", "get", "give"} \X {"none", "starting", "ready", "stopped"}

TypeOK ==
  /\ numOfGetters \in Int
  /\ \A c \in Client :
       /\ script[c] \in Script /\ sent[c] \in 0..Len(script[c])
       /\ leftover_[c] \in Seq(Word) /\ mode[c] \in {"command", "signal", "quit"}
       /\ open[c] \in BOOLEAN /\ proxy[c] \in Proxy

Init ==
  /\ script \in [Client -> Script] /\ sent = [c \in Client |-> 0]
  /\ leftover_ = [c \in Client |-> <<>>] /\ mode = [c \in Client |-> "command"]
  /\ handled = [c \in Client |-> <<>>]
  /\ open = [c \in Client |-> TRUE] /\ proxy = [c \in Client |-> <<"none", "none">>]
  /\ numOfGetters = 0

(* LineFeeder: every line that ends is fed, in order, and what is after the    *)
(* last of them is left over.                                                  *)
Fed(at, word) ==
  IF word = "nl" THEN [lines |-> Append(at.lines, at.rest), rest |-> <<>>]
  ELSE [at EXCEPT !.rest = Append(@, word)]
Feed(words) ==
  LET fed[k \in 0..Len(words)] ==
        IF k = 0 THEN [lines |-> <<>>, rest |-> <<>>] ELSE Fed(fed[k - 1], words[k])
  IN  fed[Len(words)]

(* processCommand, of the first word of a line; a get or give hands the queue  *)
(* over, and a quit sets no next handler.  Replies and transform are left out. *)
Verb(line) == IF line = <<>> THEN "" ELSE line[1]
Step(at, line) ==
  IF at.mode # "command"
  THEN [at EXCEPT !.handled = IF at.mode = "quit" THEN @ ELSE Append(@, <<line, at.mode>>)]
  ELSE LET verb == Verb(line)
       IN  [mode    |-> CASE verb \in {"get", "give"} -> "signal"
                          [] verb = "quit" -> "quit" [] OTHER -> "command",
            handled |-> Append(at.handled, <<line, "command">>),
            proxy   |-> IF verb \in {"get", "give"} THEN <<verb, "starting">> ELSE at.proxy,
            open    |-> at.open /\ verb # "quit"]

(* The queue of the LineFeeder hands over some lines.  The handlers set the    *)
(* next one themselves, within the call.                                       *)
Handle(c, lines, rest, stillOpen) ==
  LET before == [mode |-> mode[c], handled |-> handled[c], proxy |-> proxy[c], open |-> stillOpen]
      after[k \in 0..Len(lines)] == IF k = 0 THEN before ELSE Step(after[k - 1], lines[k])
      at == after[Len(lines)]
  IN  /\ leftover_' = [leftover_ EXCEPT ![c] = rest]
      /\ mode' = [mode EXCEPT ![c] = at.mode]
      /\ handled' = [handled EXCEPT ![c] = at.handled]
      /\ proxy' = [proxy EXCEPT ![c] = at.proxy] /\ open' = [open EXCEPT ![c] = at.open]

(* A chunk arrives, cut anywhere. *)
Arrives(c) ==
  /\ open[c]
  /\ \E n \in 1..MaxChunk :
       /\ sent[c] + n <= Len(script[c])
       /\ sent' = [sent EXCEPT ![c] = @ + n]
       /\ LET fed == Feed(leftover_[c] \o SubSeq(script[c], sent[c] + 1, sent[c] + n))
          IN  Handle(c, fed.lines, fed.rest, TRUE)
  /\ UNCHANGED <<script, numOfGetters>>

(* onceClosed, when the client hangs up: flush feeds what is left as a line.   *)
HangsUp(c) ==
  /\ open[c] /\ Handle(c, <<leftover_[c]>>, <<>>, FALSE)
  /\ UNCHANGED <<script, sent, numOfGetters>>

(* The end of start: the connection is closed, and what is left of a line with *)
(* it.  A SocksToRtc is ready when its port is free, and a getter is counted   *)
(* when an RtcToNet is.                                                        *)
Ready(c) ==
  /\ proxy[c][2] = "starting"
  /\ proxy[c][1] = "get" => \A d \in Client : proxy[d] # <<"get", "ready">>
  /\ proxy' = [proxy EXCEPT ![c][2] = "ready"]
  /\ numOfGetters' = IF proxy[c][1] = "give" THEN numOfGetters + 1 ELSE numOfGetters
  /\ open' = [open EXCEPT ![c] = FALSE]
  /\ UNCHANGED <<script, sent, leftover_, mode, handled>>

(* The proxy stops, before or after it is ready: onceStopped uncounts it.      *)
Stops(c) ==
  /\ proxy[c][2] \in {"starting", "ready"}
  /\ proxy' = [proxy EXCEPT ![c][2] = "stopped"]
  /\ numOfGetters' = IF proxy[c][1] = "give" THEN numOfGetters - 1 ELSE numOfGetters
  /\ open' = [open EXCEPT ![c] = FALSE]
  /\ UNCHANGED <<script, sent, leftover_, mode, handled>>

Next == \E c \in Client : Arrives(c) \/ HangsUp(c) \/ Ready(c) \/ Stops(c)

Spec == Init /\ [][Next]_vars

IsHandOver(line) == Verb(line) \in {"get", "give"}

(* However the stream is cut, the lines handled are its lines, each once and   *)
(* in order, none that has ended waits, and they are commands up to the get or *)
(* give and signals after it.                                                  *)
LinesInTurn ==
  \A c \in Client : open[c] =>
    LET lines == Feed(SubSeq(script[c], 1, sent[c])).lines
    IN  /\ [i \in DOMAIN handled[c] |-> handled[c][i][1]] = lines
        /\ \A i \in DOMAIN handled[c] :
             (handled[c][i][2] = "signal") = (\E j \in 1..i - 1 : IsHandOver(handled[c][j][1]))

(* "Number of getters." (zork/freedom-module.ts:43): an RtcToNet that stops    *)
(* before it was ready is uncounted all the same.                              *)
GettersCounted == numOfGetters = Cardinality({c \in Client : proxy[c] = <<"give", "ready">>})

(* A word without an end is no command: the end of the connection makes it one *)
(* all the same, and starts a proxy that nobody can signal to.                 *)
NoLateStart ==
  [][\A c \in Client : ~open'[c] => proxy'[c] = proxy[c] \/ proxy'[c][2] # "starting"]_vars
===============================================================================
