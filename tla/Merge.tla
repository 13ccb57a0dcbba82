------------------------------- MODULE Merge -------------------------------
(***************************************************************************)
(* genericsum/genericsum.go, MergeChans: a goroutine per input forwards    *)
(* what comes to one channel, which is closed when all inputs are.  The    *)
(* channel holds as much as all inputs together, so it may hold nothing.   *)
(*                                                                         *)
(* The senders and the receiver are the caller's: a sender sends numbers   *)
(* from 1 on and may close its channel at any time.                        *)
(***************************************************************************)
EXTENDS Integers, Sequences, FiniteSets, Functions

CONSTANTS Inputs,
          MaxInputCap, \* bound on the capacity of an input
          MaxSent      \* bound on what is sent on an input

ASSUME MergeAssumption == IsFiniteSet(Inputs) /\ MaxInputCap \in Nat /\ MaxSent \in Nat

VARIABLES inputCap,    \* inputCap[c]: the capacity of channel c
          input,       \* input[c]: the values in channel c
          inputClosed, \* the inputs that are closed
          sentOn,      \* sentOn[c]: how much was sent on c
          forwarder,   \* forwarder[c]: the value it wants to send, 0 for none, -1 when over
          mainCh, mainClosed,
          received     \* what the receiver has got

mergeVars == <<inputCap, input, inputClosed, sentOn, forwarder, mainCh, mainClosed, received>>

MergeInit == /\ inputCap \in [Inputs -> 0..MaxInputCap]
             /\ input = [c \in Inputs |-> <<>>] /\ inputClosed = {}
             /\ sentOn = [c \in Inputs |-> 0] /\ forwarder = [c \in Inputs |-> 0]
             /\ mainCh = <<>> /\ mainClosed = FALSE /\ received = <<>>

TotalCap == SumFunctionOnSet(inputCap, Inputs)

\* A send needs room, or a forwarder that waits in its range.
SendInput(c) ==
  /\ c \notin inputClosed /\ sentOn[c] < MaxSent
  /\ \/ Len(input[c]) < inputCap[c]
     \/ input[c] = <<>> /\ forwarder[c] = 0
  /\ sentOn' = [sentOn EXCEPT ![c] = @ + 1]
  /\ IF Len(input[c]) < inputCap[c]
     THEN input' = [input EXCEPT ![c] = Append(@, sentOn[c] + 1)] /\ UNCHANGED forwarder
     ELSE forwarder' = [forwarder EXCEPT ![c] = sentOn[c] + 1] /\ UNCHANGED input
  /\ UNCHANGED <<inputCap, inputClosed, mainCh, mainClosed, received>>

CloseInput(c) == /\ c \notin inputClosed
                 /\ inputClosed' = inputClosed \union {c}
                 /\ UNCHANGED <<inputCap, input, sentOn, forwarder, mainCh, mainClosed, received>>

TakeInput(c) == /\ forwarder[c] = 0 /\ input[c] # <<>>
                /\ forwarder' = [forwarder EXCEPT ![c] = Head(input[c])]
                /\ input' = [input EXCEPT ![c] = Tail(@)]
                /\ UNCHANGED <<inputCap, inputClosed, sentOn, mainCh, mainClosed, received>>

\* mutant: a closed input ends its forwarder with values left in it
EndOnClose(c) == /\ forwarder[c] = 0 /\ c \in inputClosed
                 /\ forwarder' = [forwarder EXCEPT ![c] = -1]
                 /\ UNCHANGED <<inputCap, input, inputClosed, sentOn, mainCh, mainClosed, received>>

ForwarderEnds(c) == /\ forwarder[c] = 0 /\ input[c] = <<>> /\ c \in inputClosed
                    /\ forwarder' = [forwarder EXCEPT ![c] = -1]
                    /\ UNCHANGED <<inputCap, input, inputClosed, sentOn, mainCh, mainClosed, received>>

ForwardInput(c) == /\ forwarder[c] > 0 /\ Len(mainCh) < TotalCap
                   /\ mainCh' = Append(mainCh, <<c, forwarder[c]>>)
                   /\ forwarder' = [forwarder EXCEPT ![c] = 0]
                   /\ UNCHANGED <<inputCap, input, inputClosed, sentOn, mainClosed, received>>

\* Without a buffer the receiver takes a value from a forwarder.
ReceiveDirect(c) == /\ forwarder[c] > 0 /\ TotalCap = 0
                    /\ received' = Append(received, <<c, forwarder[c]>>)
                    /\ forwarder' = [forwarder EXCEPT ![c] = 0]
                    /\ UNCHANGED <<inputCap, input, inputClosed, sentOn, mainCh, mainClosed>>

ReceiveMerged == /\ mainCh # <<>>
                 /\ received' = Append(received, Head(mainCh)) /\ mainCh' = Tail(mainCh)
                 /\ UNCHANGED <<inputCap, input, inputClosed, sentOn, forwarder, mainClosed>>

CloseMerged == /\ ~mainClosed /\ \A c \in Inputs : forwarder[c] = -1
               /\ mainClosed' = TRUE
               /\ UNCHANGED <<inputCap, input, inputClosed, sentOn, forwarder, mainCh, received>>

ForwarderStep(c) == TakeInput(c) \/ ForwardInput(c) \/ ForwarderEnds(c)

MergeNext == \/ ReceiveMerged \/ CloseMerged
             \/ \E c \in Inputs : SendInput(c) \/ CloseInput(c) \/ ForwarderStep(c) \/ ReceiveDirect(c)

MergeSpec == MergeInit /\ [][MergeNext]_mergeVars

\* The goroutines of MergeChans run; the receiver need not receive.
MergeFairness == WF_mergeVars(CloseMerged) /\ \A c \in Inputs : WF_mergeVars(ForwarderStep(c))

---------------------------------------------------------------------------
(* Properties                                                              *)

\* What has come out of MergeChans, and where in it the values of input c are.
Merged == received \o mainCh
From(c) == {i \in DOMAIN Merged : Merged[i][1] = c}
Out(c) == {Merged[i][2] : i \in From(c)}

\* What was sent on an input comes out once and in its order, and mainCh is
\* closed when nothing is left to come (genericsum.go:57-74).
MergeKeepsAll ==
  \A c \in Inputs :
    /\ \A i, j \in From(c) : i < j => Merged[i][2] < Merged[j][2]
    /\ \E n \in 0..sentOn[c] : Out(c) = 1..n /\ (mainClosed => n = sentOn[c])

\* A receiver that goes on to the end sees mainCh closed when all inputs are.
MergeEnds == WF_mergeVars(ReceiveMerged \/ \E c \in Inputs : ReceiveDirect(c))
               => (inputClosed = Inputs ~> mainClosed)
============================================================================
