----------------------------- MODULE FrameLink -----------------------------
(***************************************************************************)
(* What the unit may rely on about the frames the server sends it          *)
(* (components/ws_client): they are numbered as they are sent, each one is *)
(* heard whole, in order and at most once, and a frame is missed only if   *)
(* it does not fit the unit's buffer or its connection was lost.           *)
(***************************************************************************)
EXTENDS Naturals, Sequences

CONSTANTS
  Cap,     (* the size of the unit's buffer                                *)
  Lengths  (* the lengths a frame may have                                 *)

VARIABLES
  sent,   (* how many frames were sent                                     *)
  queue,  (* those on their way: number and length                         *)
  heard   (* the numbers of those heard                                    *)

linkVars == <<sent, queue, heard>>

LinkInit == sent = 0 /\ queue = <<>> /\ heard = <<>>

Send(len) ==
  /\ sent' = sent + 1
  /\ queue' = Append(queue, [n |-> sent + 1, len |-> len])
  /\ UNCHANGED heard

Hear ==
  /\ queue # <<>> /\ Head(queue).len <= Cap
  /\ queue' = Tail(queue) /\ heard' = Append(heard, Head(queue).n)
  /\ UNCHANGED sent

Skip ==
  /\ queue # <<>> /\ Head(queue).len > Cap
  /\ queue' = Tail(queue)
  /\ UNCHANGED <<sent, heard>>

Cut == queue' = <<>> /\ UNCHANGED <<sent, heard>>

LinkNext == (\E len \in Lengths : Send(len)) \/ Hear \/ Skip \/ Cut

LinkSpec == LinkInit /\ [][LinkNext]_linkVars
=============================================================================
