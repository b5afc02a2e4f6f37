----------------------------- MODULE Ingestor -----------------------------
(***************************************************************************)
(* How batches of log lines reach the live loop of flokbn                  *)
(* (ingestor/ingestor.go): log shippers send them to a lumberjack server,  *)
(* a goroutine (the pump) moves each from the server's channel to the      *)
(* events channel and acknowledges it, and the loop drains the events      *)
(* channel whenever it comes around.  Closing the ingestor makes the loop  *)
(* exit.                                                                   *)
(*                                                                         *)
(* Definitions named Slip... are plausible mistakes in the definition that *)
(* follows them; the specification uses none of them.                      *)
(***************************************************************************)
EXTENDS Naturals, Sequences, SequencesExt

CONSTANTS
  Batches,     (* Batches that shippers have to send.                      *)
  Unusable,    (* Those of which no line can be parsed.                    *)
  RecvCap,     (* Capacity of the server's channel.                        *)
  EventsCap,   (* Capacity of the events channel; 1000 in the code.        *)
  MaxResends   (* Bound: batches sent again for want of an ACK.            *)

ASSUME IngestorAssumption ==
  /\ Unusable \subseteq Batches
  /\ {RecvCap, EventsCap} \subseteq Nat \ {0}
  /\ MaxResends \in Nat

VARIABLES
  sent,        (* What the shipper knows of each batch.                    *)
  resends,
  serving,     (* The server is open.                                      *)
  recv,        (* ReceiveChan; closed when the server is.                  *)
  arrived,     (* All that ever entered recv (history).                    *)
  pump,        (* Next step of the pump.                                   *)
  hand,        (* Batch the pump holds, as a sequence.                     *)
  events,
  closed,      (* What IsClosed returns.                                   *)
  loop,        (* Next step of the live loop.                              *)
  out,         (* Usable batches that ReadBatch has collected.             *)
  processed    (* Usable batches that iterations have processed.           *)

vars == <<sent, resends, serving, recv, arrived, pump, hand, events, closed,
          loop, out, processed>>
shipperVars == <<sent, resends>>
loopVars == <<loop, out, processed>>

Init ==
  /\ sent = [b \in Batches |-> "new"]
  /\ resends = 0
  /\ serving = TRUE
  /\ recv = <<>>
  /\ arrived = <<>>
  /\ pump = "take"
  /\ hand = <<>>
  /\ events = <<>>
  /\ closed = FALSE
  /\ loop = "read"
  /\ out = <<>>
  /\ processed = <<>>

----------------------------------------------------------------------------
(* The shippers and the server.                                            *)

Arrives(b) ==
  /\ serving
  /\ Len(recv) < RecvCap
  /\ recv' = Append(recv, b)
  /\ arrived' = Append(arrived, b)
  /\ UNCHANGED <<serving, pump, hand, events, closed, loopVars>>

Send(b) ==
  /\ sent[b] = "new"
  /\ Arrives(b)
  /\ sent' = [sent EXCEPT ![b] = "waiting"]
  /\ UNCHANGED resends

(* The connection is lost before the ACK; the shipper connects anew.       *)
Resend(b) ==
  /\ sent[b] = "waiting"
  /\ resends < MaxResends
  /\ Arrives(b)
  /\ resends' = resends + 1
  /\ UNCHANGED sent

(* Close: connections end, then ReceiveChan is closed.  What it holds can  *)
(* still be received.                                                      *)
Close ==
  /\ serving
  /\ serving' = FALSE
  /\ UNCHANGED <<shipperVars, recv, arrived, pump, hand, events, closed, loopVars>>

----------------------------------------------------------------------------
(* The pump.                                                               *)

SlipAckOnTake ==
  /\ pump = "take"
  /\ recv # <<>>
  /\ hand' = <<Head(recv)>>
  /\ recv' = Tail(recv)
  /\ sent' = [sent EXCEPT ![Head(recv)] = "acked"]
  /\ pump' = "push"
  /\ UNCHANGED <<resends, serving, arrived, events, closed, loopVars>>

Take ==
  /\ pump = "take"
  /\ recv # <<>>
  /\ hand' = <<Head(recv)>>
  /\ recv' = Tail(recv)
  /\ pump' = "push"
  /\ UNCHANGED <<shipperVars, serving, arrived, events, closed, loopVars>>

SlipDropsWhenFull ==
  events' = IF Len(events) < EventsCap THEN events \o hand ELSE events
PushBlocks ==
  /\ Len(events) < EventsCap
  /\ events' = events \o hand

Push ==
  /\ pump = "push"
  /\ PushBlocks
  /\ pump' = "ack"
  /\ UNCHANGED <<shipperVars, serving, recv, arrived, hand, closed, loopVars>>

(* An ACK reaches the shipper only while there are connections.            *)
Ack ==
  /\ pump = "ack"
  /\ sent' = IF serving THEN [sent EXCEPT ![Head(hand)] = "acked"] ELSE sent
  /\ hand' = <<>>
  /\ pump' = "take"
  /\ UNCHANGED <<resends, serving, recv, arrived, events, closed, loopVars>>

SlipNoDrain == ~ serving
Drained == ~ serving /\ recv = <<>>

SlipFlagForgotten ==
  /\ pump = "take"
  /\ Drained
  /\ pump' = "done"
  /\ UNCHANGED <<shipperVars, serving, recv, arrived, hand, events, closed, loopVars>>

(* The range over ReceiveChan ends, the flag is set; closing the events    *)
(* channel, which comes next, tells the loop nothing new.                  *)
End ==
  /\ pump = "take"
  /\ Drained
  /\ closed' = TRUE
  /\ pump' = "done"
  /\ UNCHANGED <<shipperVars, serving, recv, arrived, hand, events, loopVars>>

----------------------------------------------------------------------------
(* The live loop.                                                          *)

(* What ReadBatch collects of a batch.                                     *)
Parsed(b) == IF b \in Unusable THEN <<>> ELSE <<b>>

(* ReadBatch receives until the channel is empty.                          *)
ReadNext ==
  /\ loop = "read"
  /\ events # <<>>
  /\ out' = out \o Parsed(Head(events))
  /\ events' = Tail(events)
  /\ UNCHANGED <<shipperVars, serving, recv, arrived, pump, hand, closed, loop,
                 processed>>

ReadEnd ==
  /\ loop = "read"
  /\ events = <<>>
  /\ loop' = IF out = <<>> THEN "check" ELSE "process"
  /\ UNCHANGED <<shipperVars, serving, recv, arrived, pump, hand, events, closed,
                 out, processed>>

(* IsClosed, else sleep and perhaps a heartbeat.                           *)
Check ==
  /\ loop = "check"
  /\ loop' = IF closed THEN "exit" ELSE "read"
  /\ UNCHANGED <<shipperVars, serving, recv, arrived, pump, hand, events, closed,
                 out, processed>>

Process ==
  /\ loop = "process"
  /\ processed' = processed \o out
  /\ out' = <<>>
  /\ loop' = "read"
  /\ UNCHANGED <<shipperVars, serving, recv, arrived, pump, hand, events, closed>>

----------------------------------------------------------------------------
Pump == Take \/ Push \/ Ack \/ End
Loop == ReadNext \/ ReadEnd \/ Check \/ Process

Next ==
  \/ \E b \in Batches : Send(b) \/ Resend(b)
  \/ Close
  \/ Pump
  \/ Loop

Spec == Init /\ [][Next]_vars

(* Both goroutines are scheduled.                                          *)
FairSpec == Spec /\ WF_vars(Pump) /\ WF_vars(Loop)

----------------------------------------------------------------------------
(* Properties.                                                             *)

(* The usable batches of a sequence, in order.                             *)
Usable(s) ==
  LET first[n \in 0..Len(s)] == IF n = 0 THEN <<>> ELSE first[n - 1] \o Parsed(s[n])
  IN  first[Len(s)]

(* From the server's channel on, usable batches are neither lost nor       *)
(* duplicated nor reordered, whatever fills up and whenever the ingestor   *)
(* is closed.                                                              *)
FirstInFirstOut ==
  LET held == IF pump = "push" THEN hand ELSE <<>>
  IN  Usable(arrived) = processed \o out \o Usable(events \o held \o recv)

(* A shipper is told so only of a batch that is in the events channel or   *)
(* further on: it need not keep it because the pump or the server does.    *)
AckedIsQueued ==
  \A b \in Batches \ Unusable : sent[b] = "acked" =>
    b \in Range(events) \cup Range(out) \cup Range(processed)

(* When the loop exits, nothing is left with the server or the pump: all   *)
(* that arrived was processed or is in the events channel.                 *)
ExitAfterDrain == loop = "exit" => recv = <<>> /\ hand = <<>> /\ out = <<>>

(* Under FairSpec: closing the ingestor makes the loop exit, be the        *)
(* channels full or not (the comment on runLiveLoop: "which makes the loop *)
(* exit cleanly").                                                         *)
CloseEndsLoop == ~ serving ~> loop = "exit"

(* Under FairSpec: a full channel only delays; every usable batch that     *)
(* arrived is processed unless the loop exits.                             *)
ArrivedIsProcessed ==
  \A b \in Batches \ Unusable :
    b \in Range(recv) ~> b \in Range(processed) \/ loop = "exit"
=============================================================================
