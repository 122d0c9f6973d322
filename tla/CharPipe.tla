------------------------------ MODULE CharPipe ------------------------------
(***************************************************************************)
(* What a character device promises between the program and the host, in   *)
(* either direction: the characters a producer hands over come out at the  *)
(* consumer, each once and in the order they went in, and what has been    *)
(* taken in is never dropped.  JtagUart implements it twice, once for each *)
(* direction.                                                              *)
(***************************************************************************)
EXTENDS Naturals, Sequences

CONSTANTS
  Char,    \* the characters
  Direct,  \* those that the producer may hand over without an offer before
  Watched  \* whether what the consumer took is looked at

VARIABLES
  offer,   \* what the producer has asked to be carried and was not yet taken
  pipe,    \* what is on its way
  taken    \* what the consumer took, since it last looked

vars == <<offer, pipe, taken>>

Init == offer = <<>> /\ pipe = <<>> /\ taken = <<>>

\* The first k characters of s, and the others.
Front(s, k) == SubSeq(s, 1, k)
Rest(s, k) == SubSeq(s, k + 1, Len(s))

\* A new offer is made when there is none, and withdrawn as a whole.
Offer ==
  /\ offer = <<>> \/ offer' = <<>>
  /\ offer' \in Seq(Char)
  /\ UNCHANGED <<pipe, taken>>

Accept == \E k \in 1..Len(offer) :
  /\ pipe' = pipe \o Front(offer, k)
  /\ offer' = Rest(offer, k)
  /\ UNCHANGED taken

HandOver == \E c \in Direct : pipe' = Append(pipe, c) /\ UNCHANGED <<offer, taken>>

Take == \E k \in 1..Len(pipe), seen \in {<<>>, taken} :
  /\ taken' = IF Watched THEN seen \o Front(pipe, k) ELSE <<>>
  /\ pipe' = Rest(pipe, k)
  /\ UNCHANGED offer

Forget == taken' = <<>> /\ UNCHANGED <<offer, pipe>>

Next == Offer \/ Accept \/ HandOver \/ Take \/ Forget

Spec == Init /\ [][Next]_vars
=============================================================================
