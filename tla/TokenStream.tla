---------------------------- MODULE TokenStream -----------------------------
(***************************************************************************)
(* What a protocol promises its two halves (spec.md section 8, the        *)
(* round-trip law): the calls the decoder returns are, in order, the       *)
(* calls the encoder was given.  sent is the sequence of encoder calls,    *)
(* received the sequence the decoder has returned; a step either sends     *)
(* one call or receives the next one that was sent, unchanged.             *)
(***************************************************************************)
EXTENDS Naturals, Sequences

CONSTANT Calls    \* the set of encoder calls with their arguments

VARIABLES sent, received

Init == sent = <<>> /\ received = <<>>

Send == \E c \in Calls : /\ sent' = Append(sent, c)
                         /\ UNCHANGED received

Receive == /\ Len(received) < Len(sent)
           /\ received' = Append(received, sent[Len(received) + 1])
           /\ UNCHANGED sent

Spec == Init /\ [][Send \/ Receive]_<<sent, received>>

=============================================================================
