---------------------------- MODULE MessagePipe -----------------------------
(***************************************************************************)
(* What a length-prefixed byte stream promises the two programs at its     *)
(* ends: whole messages, each delivered once, in the order of sending,     *)
(* however the bytes are cut on the way.                                   *)
(***************************************************************************)
EXTENDS Naturals, Sequences

CONSTANT Messages

VARIABLES sent, delivered

PipeInit == sent = <<>> /\ delivered = <<>>

Send == \E m \in Messages : sent' = Append(sent, m) /\ UNCHANGED delivered

Deliver == /\ Len(delivered) < Len(sent)
           /\ delivered' = Append(delivered, sent[Len(delivered) + 1])
           /\ UNCHANGED sent

PipeSpec == PipeInit /\ [][Send \/ Deliver]_<<sent, delivered>>
=============================================================================
