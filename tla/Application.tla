---------------------------- MODULE Application ----------------------------
(***************************************************************************)
(* What the round-trip modules share about the applications that drive a  *)
(* protocol the way generated code does: the wire types they use, the      *)
(* names of the calls they log, and their stacks of frames.  A frame says  *)
(* what the application does next:                                         *)
(*   MsgBody    the argument struct of a message;                          *)
(*   MsgEnd     message_end;                                               *)
(*   Flush      flush (writer only);                                       *)
(*   Fields     a field or the stop field of a struct with nf fields so far;*)
(*   StructEnd  struct_end, after the stop field;                          *)
(*   Value      the value of a field of type t;                            *)
(*   FieldEnd   field_end;                                                 *)
(*   Elems      rem items of collection c: elements of type t, or for a    *)
(*              map keys of type t and values of type vt, alternately.     *)
(***************************************************************************)
EXTENDS Integers, Sequences

Scalars == {"Bool", "I08", "I16", "I32", "I64", "Double", "String", "Uuid"}
Collections == {"List", "Set", "Map"}
BeginOp == [List |-> "ListBegin", Set |-> "SetBegin", Map |-> "MapBegin"]
EndOp   == [List |-> "ListEnd", Set |-> "SetEnd", Map |-> "MapEnd"]

Call(o) == [op |-> o]

Frame(kd) == [k |-> kd]
Top(ctx) == ctx[Len(ctx)]
SetTop(ctx, f) == [ctx EXCEPT ![Len(ctx)] = f]
SetTopPush(ctx, f, g) == Append(SetTop(ctx, f), g)
IsTop(ctx, kd) == ctx # <<>> /\ Top(ctx).k = kd

\* An Elems frame: a map has two items, key and value, per entry.  A
\* negative size has no items.
ElemsFrame(c, kt, vt, n) ==
  [k |-> "Elems", c |-> c, t |-> kt, vt |-> vt,
   rem |-> IF n < 0 THEN 0 ELSE IF c = "Map" THEN 2 * n ELSE n]

\* The type of the next item: map keys come at even counts, values at odd.
ElemType(f) == IF f.c = "Map" /\ f.rem % 2 = 1 THEN f.vt ELSE f.t

\* Nesting depth of structs after a sequence of calls.
Nesting(log) ==
  Len(SelectSeq(log, LAMBDA c : c.op = "StructBegin"))
    - Len(SelectSeq(log, LAMBDA c : c.op = "StructEnd"))

=============================================================================
